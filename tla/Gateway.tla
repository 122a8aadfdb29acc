------------------------------- MODULE Gateway -------------------------------
(***************************************************************************)
(* The gate every command passes (uii/hub/commands.py, submit) with its    *)
(* idempotency cache, and the approvals of the authority extension         *)
(* (extensions/authority/__init__.py).                                     *)
(*                                                                         *)
(* Each request is served by a thread of its own; nothing here takes a     *)
(* lock.  A thread's steps are separated where it has looked at the cache  *)
(* or at the pending approvals and acts on what it saw, and where it waits *)
(* for the event loop.  What happens between dispatch and the module is    *)
(* left to CommandPath: here a command is sent, or ends without.           *)
(***************************************************************************)
EXTENDS Policy, Sequences, FiniteSets

CONSTANTS
  Req,         \* calls of submit()
  NoReq,       \* no request
  Key, NoKey,  \* idempotency keys, and none
  Ask,         \* what may be asked for: actor, risk, path, key
  Caller,      \* threads that ask for approvals or decide them
  NoActor,     \* nobody
  CacheCap,    \* capacity of the idempotency cache (500 in the code)
  MaxTroubles  \* bound: dispatches that outlast the thread's wait, restarts of the hub

ASSUME GatewayAssumption ==
  /\ NoReq \notin Req
  /\ NoKey \notin Key
  /\ NoActor \notin Actor
  /\ Ask \subseteq [actor : Actor, risk : Risk, path : Path, key : Key \cup {NoKey}]
  /\ Ask # {}
  /\ CacheCap \in Nat \ {0}
  /\ MaxTroubles \in Nat

VARIABLES
  \* the threads of submit()
  ask,        \* what each request asks for
  at,         \* where its thread is
  told,       \* the request whose response it got
  cache,      \* _idem: the remembered requests, oldest first
  \* the approvals
  pending,    \* requests that wait for a decision
  byCommand,  \* those that status() reports as pending
  overdue,    \* those whose time is over
  call,       \* the threads that list, decide and expire
  \* the evidence
  logged,     \* requests with a "command" envelope
  grants,     \* who granted each request
  sent,       \* how often it was sent to its module
  ended,      \* how often the hub ended it with a result of its own
  \* history
  blurred,    \* keys that a retry cannot rely on
  raced,      \* requests decided while another decision was under way
  \* bounded counters
  stalls, restarts

submitVars == <<ask, at, told, cache>>
approvalVars == <<pending, byCommand, overdue, call>>
logVars == <<logged, grants, sent, ended>>
historyVars == <<blurred, raced>>
bounds == <<stalls, restarts>>
vars == <<submitVars, approvalVars, logVars, historyVars, bounds>>

Idle == [at |-> "idle", todo |-> {}, on |-> NoReq, by |-> NoActor, grant |-> FALSE]

Init ==
  /\ ask \in [Req -> Ask]
  /\ at = [r \in Req |-> "new"]
  /\ told = [r \in Req |-> NoReq]
  /\ cache = <<>>
  /\ pending = {}
  /\ byCommand = {}
  /\ overdue = {}
  /\ call = [k \in Caller |-> Idle]
  /\ logged = {}
  /\ grants = [r \in Req |-> {}]
  /\ sent = [r \in Req |-> 0]
  /\ ended = [r \in Req |-> 0]
  /\ blurred = {}
  /\ raced = {}
  /\ stalls = 0
  /\ restarts = 0

------------------------------------------------------------------------------
(***************************************************************************)
(* submit().                                                               *)
(***************************************************************************)
ReqAt(r, from, to) == at[r] = from /\ at' = [at EXCEPT ![r] = to]

Remembered(key) == {i \in 1..Len(cache) : ask[cache[i]].key = key}

Under(key) == {r \in Req : ask[r].key = key}

Working == {"asked", "deferring", "noting", "dispatching", "keeping"}

\* Is the key in the cache?  A key that another thread is working on is not.
Submit(r) ==
  /\ IF Remembered(ask[r].key) # {} THEN ReqAt(r, "new", "hit") ELSE ReqAt(r, "new", "asked")
  /\ blurred' = IF \E q \in Under(ask[r].key) : at[q] \in Working
                THEN blurred \cup {ask[r].key}
                ELSE blurred
  /\ UNCHANGED <<ask, told, cache, approvalVars, logVars, raced, bounds>>

\* The remembered response, or a KeyError if it was evicted a moment ago.
Hit(r) ==
  /\ LET found == Remembered(ask[r].key)
     IN  IF found = {}
         THEN ReqAt(r, "hit", "raised") /\ UNCHANGED told
         ELSE /\ ReqAt(r, "hit", "answered")
              /\ \E i \in found : told' = [told EXCEPT ![r] = cache[i]]
  /\ UNCHANGED <<ask, cache, approvalVars, logVars, historyVars, bounds>>

\* The module is not operational, does not know the command, its parameters or
\* its state do not fit, or the path has too low a ceiling: an audit entry and
\* no command.
Reject(r) ==
  /\ ReqAt(r, "asked", "keeping")
  /\ UNCHANGED <<ask, told, cache, approvalVars, logVars, historyVars, bounds>>

\* The command is stored, and deferred or dispatched.
Store(r) ==
  /\ \/ Decision(ask[r]) = "allow" /\ ReqAt(r, "asked", "dispatching")
     \/ Decision(ask[r]) = "approval" /\ ReqAt(r, "asked", "deferring")
  /\ logged' = logged \cup {r}
  /\ UNCHANGED <<ask, told, cache, approvalVars, grants, sent, ended, historyVars, bounds>>

\* on_defer(): the approval is there for everybody to decide ...
Defer(r) ==
  /\ ReqAt(r, "deferring", "noting")
  /\ pending' = pending \cup {r}
  /\ UNCHANGED <<ask, told, cache, byCommand, overdue, call, logVars, historyVars, bounds>>

\* ... and then status() knows of it.
Note(r) ==
  /\ ReqAt(r, "noting", "keeping")
  /\ byCommand' = byCommand \cup {r}
  /\ UNCHANGED <<ask, told, cache, pending, overdue, call, logVars, historyVars, bounds>>

\* dispatch_env(): sent, or ended as lost.
Dispatched(r) ==
  \/ sent' = [sent EXCEPT ![r] = @ + 1] /\ UNCHANGED ended
  \/ ended' = [ended EXCEPT ![r] = @ + 1] /\ UNCHANGED sent

\* The thread has waited 5 s: it raises, whether or not the command is sent
\* later on.
Overslept(r) ==
  /\ stalls + restarts < MaxTroubles
  /\ stalls' = stalls + 1
  /\ \/ sent' = [sent EXCEPT ![r] = @ + 1]
     \/ UNCHANGED sent
  /\ UNCHANGED ended

Dispatch(r) ==
  /\ ReqAt(r, "dispatching", "keeping")
  /\ Dispatched(r)
  /\ UNCHANGED <<ask, told, cache, approvalVars, logged, grants, historyVars, bounds>>

DispatchLate(r) ==
  /\ ReqAt(r, "dispatching", "raised")
  /\ Overslept(r)
  /\ blurred' = blurred \cup {ask[r].key}
  /\ UNCHANGED <<ask, told, cache, approvalVars, logged, grants, raced, restarts>>

\* Mutant: rejected commands are not remembered.
OnlyCommands(r) == ask[r].key = NoKey \/ r \notin logged

\* No key, nothing to remember.
Forgets(r) == ask[r].key = NoKey

\* A key keeps its place in the cache; a new one goes to the end.
Stored(r) ==
  LET found == Remembered(ask[r].key)
  IN  IF found = {} THEN Append(cache, r)
      ELSE [i \in 1..Len(cache) |-> IF i \in found THEN r ELSE cache[i]]

\* The response is remembered ...
Remember(r) ==
  /\ told' = [told EXCEPT ![r] = r]
  /\ IF Forgets(r)
     THEN ReqAt(r, "keeping", "answered") /\ UNCHANGED cache
     ELSE ReqAt(r, "keeping", "evicting") /\ cache' = Stored(r)
  /\ UNCHANGED <<ask, approvalVars, logVars, historyVars, bounds>>

\* Mutant: one entry more than the cache may hold.
OneTooMany == Len(cache) > CacheCap + 1

Overfull == Len(cache) > CacheCap

\* ... and while the cache is too long its oldest entry is taken out; other
\* threads insert and take out between the look at its length and that.
Evict(r) ==
  /\ IF Overfull THEN ReqAt(r, "evicting", "popping") ELSE ReqAt(r, "evicting", "answered")
  /\ UNCHANGED <<ask, told, cache, approvalVars, logVars, historyVars, bounds>>

Pop(r) ==
  /\ IF cache = <<>>
     THEN ReqAt(r, "popping", "raised") /\ UNCHANGED <<cache, blurred>>
     ELSE /\ ReqAt(r, "popping", "evicting")
          /\ cache' = Tail(cache)
          /\ blurred' = blurred \cup {ask[Head(cache)].key}
  /\ UNCHANGED <<ask, told, approvalVars, logVars, raced, bounds>>

------------------------------------------------------------------------------
(***************************************************************************)
(* Approvals: GET /v1/approvals, status() and POST /v1/approvals/{id} all  *)
(* begin with _expire().                                                   *)
(***************************************************************************)
CallAt(k, from, to) == call[k].at = from /\ call' = [call EXCEPT ![k].at = to]

Ends(k) == call' = [call EXCEPT ![k] = Idle]

\* Time passes.
Tick(r) ==
  /\ r \in pending \ overdue
  /\ overdue' = overdue \cup {r}
  /\ UNCHANGED <<submitVars, pending, byCommand, call, logVars, historyVars, bounds>>

\* Mutant: the comparison of the times is the wrong way round.
NotYetOverdue == pending \ overdue

Overdue == pending \cap overdue

\* A call notes what is overdue.
Begin(k) ==
  /\ call[k].at = "idle"
  /\ call' = [call EXCEPT ![k].at = "expiring", ![k].todo = Overdue]
  /\ UNCHANGED <<submitVars, pending, byCommand, overdue, logVars, historyVars, bounds>>

HeldByAnother(k, r) == \E j \in Caller \ {k} : call[j].at = "held" /\ call[j].on = r

Leaves(k, r) ==
  /\ pending' = pending \ {r}
  /\ overdue' = overdue \ {r}
  /\ byCommand' = byCommand \ {r}
  /\ raced' = IF HeldByAnother(k, r) THEN raced \cup {r} ELSE raced

\* One approval expires ...
Expire(k) ==
  /\ call[k].at = "expiring"
  /\ \E r \in call[k].todo \cap pending :
       /\ Leaves(k, r)
       /\ ended' = [ended EXCEPT ![r] = @ + 1]
       /\ call' = [call EXCEPT ![k].todo = @ \ {r}]
  /\ UNCHANGED <<submitVars, logged, grants, sent, blurred, bounds>>

\* ... or is gone already, and the call fails.
ExpireFails(k) ==
  /\ call[k].at = "expiring"
  /\ call[k].todo \ pending # {}
  /\ Ends(k)
  /\ UNCHANGED <<submitVars, pending, byCommand, overdue, logVars, historyVars, bounds>>

\* It asked for no more, or to decide what is not pending (any more).
Report(k) ==
  /\ call[k].at = "expiring"
  /\ call[k].todo = {}
  /\ Ends(k)
  /\ UNCHANGED <<submitVars, pending, byCommand, overdue, logVars, historyVars, bounds>>

\* Mutant: the approval is taken out before the approver is looked at.
LostOnRefusal(r) == pending \ {r}

AfterRefusal(r) == pending

\* It decides an approval: the record is looked up, the approver checked.
Look(k) ==
  /\ call[k].at = "expiring"
  /\ call[k].todo = {}
  /\ \E r \in pending, a \in Actor, g \in BOOLEAN :
       IF MayApprove(a, ask[r].actor)
       THEN /\ call' = [call EXCEPT ![k] =
                 [at |-> "held", todo |-> {}, on |-> r, by |-> a, grant |-> g]]
            /\ UNCHANGED pending
       ELSE Ends(k) /\ pending' = AfterRefusal(r)
  /\ UNCHANGED <<submitVars, byCommand, overdue, logVars, historyVars, bounds>>

\* Mutant: a decision leaves the approval where it is.
StaysPending(k, r) ==
  /\ raced' = IF HeldByAnother(k, r) THEN raced \cup {r} ELSE raced
  /\ UNCHANGED <<pending, byCommand, overdue>>

\* pop(), whether or not it is still there.
Decided(k, r) == Leaves(k, r)

Grant(k) ==
  /\ call[k].grant
  /\ CallAt(k, "held", "dispatching")
  /\ Decided(k, call[k].on)
  /\ grants' = [grants EXCEPT ![call[k].on] = @ \cup {call[k].by}]
  /\ UNCHANGED <<submitVars, logged, sent, ended, blurred, bounds>>

Deny(k) ==
  /\ ~ call[k].grant
  /\ call[k].at = "held"
  /\ Ends(k)
  /\ Decided(k, call[k].on)
  /\ ended' = [ended EXCEPT ![call[k].on] = @ + 1]
  /\ UNCHANGED <<submitVars, logged, grants, sent, blurred, bounds>>

DispatchGranted(k) ==
  /\ call[k].at = "dispatching"
  /\ Ends(k)
  /\ \/ Dispatched(call[k].on) /\ UNCHANGED stalls
     \/ Overslept(call[k].on)
  /\ UNCHANGED <<submitVars, pending, byCommand, overdue, logged, grants,
                 historyVars, restarts>>

------------------------------------------------------------------------------
\* The hub restarts: the cache, the approvals and every thread are gone.
Restart ==
  /\ stalls + restarts < MaxTroubles
  /\ restarts' = restarts + 1
  /\ at' = [r \in Req |-> IF at[r] \in {"new", "answered"} THEN at[r] ELSE "raised"]
  /\ cache' = <<>>
  /\ pending' = {}
  /\ byCommand' = {}
  /\ overdue' = {}
  /\ call' = [k \in Caller |-> Idle]
  /\ blurred' = Key
  /\ UNCHANGED <<ask, told, logVars, raced, stalls>>

Request(r) ==
  \/ Submit(r)
  \/ Hit(r)
  \/ Reject(r)
  \/ Store(r)
  \/ Defer(r)
  \/ Note(r)
  \/ Dispatch(r)
  \/ DispatchLate(r)
  \/ Remember(r)
  \/ Evict(r)
  \/ Pop(r)

Approval(k) ==
  \/ Begin(k)
  \/ Report(k)
  \/ Expire(k)
  \/ ExpireFails(k)
  \/ Look(k)
  \/ Grant(k)
  \/ Deny(k)
  \/ DispatchGranted(k)

Next ==
  \/ \E r \in Req : Request(r) \/ Tick(r)
  \/ \E k \in Caller : Approval(k)
  \/ Restart

Spec == Init /\ [][Next]_vars

\* Somebody keeps asking for the approvals or for the state of a command, and
\* what was asked is served.
FairSpec == Spec /\ \A k \in Caller : WF_vars(Approval(k))

------------------------------------------------------------------------------
(***************************************************************************)
(* Properties.                                                             *)
(***************************************************************************)
Keys == Key \cup {NoKey}

\* Where a thread has its answer.
Answering == {"evicting", "popping", "answered"}

\* Threads between their insertion into the cache and their last look at its length.
Trimming == {r \in Req : at[r] \in {"evicting", "popping"}}

Calls == [at : {"idle", "expiring", "held", "dispatching"}, todo : SUBSET Req,
          on : Req \cup {NoReq}, by : Actor \cup {NoActor}, grant : BOOLEAN]

\* The types of the state; threads fill and trim the cache without a lock, and as
\* long as it exceeds its capacity one of them has still to look at its length.
GatewayTypeOK ==
  /\ ask \in [Req -> Ask]
  /\ at \in [Req -> Working \cup Answering \cup {"new", "hit", "raised"}]
  /\ told \in [Req -> Req \cup {NoReq}]
  /\ cache \in Seq(Req)
  /\ Len(cache) > CacheCap => Trimming # {}
  /\ pending \subseteq Req
  /\ byCommand \subseteq Req
  /\ overdue \subseteq Req
  /\ call \in [Caller -> Calls]
  /\ logged \subseteq Req
  /\ grants \in [Req -> SUBSET Actor]
  /\ sent \in [Req -> Nat]
  /\ ended \in [Req -> Nat]
  /\ blurred \subseteq Keys
  /\ raced \subseteq Req
  /\ stalls \in Nat
  /\ restarts \in Nat

\* "effective permission = min(actor class, ingress path ceiling)"
\* (authority/__init__.py:5): no command reaches a module above the ceiling of
\* the path it was asked for over, approved or not; and one that is hazardous or
\* above the authority of who asks has been granted by another human, on record.
AuthorizedReq(r) ==
  LET a == ask[r]
  IN  /\ Rank(a.risk) <= Rank(Ceiling[a.path])
      /\ \/ a.risk # "hazardous" /\ Rank(a.risk) <= Rank(Authority[ClassOf[a.actor]])
         \/ \E h \in grants[r] : ClassOf[h] = "user" /\ h # a.actor

Authorized == \A r \in Req : sent[r] > 0 => AuthorizedReq(r)

\* The requests whose responses the cache has under a key.
Kept(key) == {cache[i] : i \in Remembered(key)}

\* The threads that use a key nobody was unlucky with: one at most works on it,
\* and none once the cache has it; whoever got an answer got the one the cache
\* still has.
RetryInv ==
  \A key \in Key \ blurred :
    /\ \A q, r \in Under(key) : at[q] \in Working /\ at[r] \in Working => q = r
    /\ Kept(key) # {} => \A r \in Under(key) : at[r] \notin Working
    /\ \A q, r \in Kept(key) : q = r
    /\ \A r \in Under(key) : at[r] \in Answering => told[r] \in Kept(key)

AnswersAgree ==
  \A q, r \in Req :
    ask[q].key = ask[r].key /\ ask[r].key \in Key \ blurred
      /\ at[q] = "answered" /\ at[r] = "answered" => told[q] = told[r]

\* "retries return the original response instead of executing twice"
\* (commands.py:9-10): whoever uses a key is told of the same command, when
\* nobody with that key overlapped, timed out, was evicted or lived in another
\* process; for the cache, as threads with other keys fill and trim it, keeps
\* what those who use the key were told.
SameAnswer == AnswersAgree /\ RetryInv

Outcomes(r) == sent[r] + ended[r]

\* Sent once or ended once, never both and never twice, whoever submits,
\* approves, denies and expires, as long as no two decisions of one approval
\* overlap: "unknown, decided, or expired" (authority/__init__.py:89).
OneOutcomeUnlessRaced == \A r \in Req \ raced : Outcomes(r) <= 1

\* A command that was deferred can be decided, and is reported as waiting for
\* its approval, until it has an outcome.
DeferredIsKept ==
  restarts = 0 =>
    /\ \A r \in logged :
         Outcomes(r) = 0 =>
           \/ at[r] \in {"deferring", "dispatching"}
           \/ r \in pending
           \/ \E k \in Caller : call[k].at = "dispatching" /\ call[k].on = r
           \/ stalls > 0
    /\ \A r \in pending : at[r] = "noting" \/ r \in byCommand

\* Where a request is that nobody has decided yet, unless decisions overlapped:
\* with its own thread, among the pending, or with the one thread that
\* dispatches it; and a thread that holds an approval holds a pending one.
DecidedOnce ==
  \A r \in Req \ raced :
    /\ at[r] \in {"new", "hit", "asked", "deferring", "dispatching"} =>
         /\ Outcomes(r) = 0
         /\ r \notin pending
         /\ \A k \in Caller : call[k].at = "dispatching" => call[k].on # r
    /\ r \in pending => Outcomes(r) = 0
    /\ \A k \in Caller :
         /\ call[k].at = "held" /\ call[k].on = r => r \in pending
         /\ call[k].at = "dispatching" /\ call[k].on = r =>
              /\ Outcomes(r) = 0
              /\ r \notin pending
              /\ \A j \in Caller \ {k} : call[j].at = "dispatching" => call[j].on # r

\* A deferred command is decided once: it waits until it has an outcome, and has
\* no second, because it is in one place at a time until then.
OutcomeInv == OneOutcomeUnlessRaced /\ DeferredIsKept /\ DecidedOnce

\* "result{rejected|expired}" (docs/architecture.md:286): an approval that
\* nobody grants in time ends its command, because every look at the approvals
\* clears what is overdue; whatever fails on the way is made good by the next.
OverdueEnds ==
  \A r \in Req :
    (r \in pending /\ r \in overdue) ~> (Outcomes(r) > 0 \/ stalls > 0 \/ restarts > 0)

(***************************************************************************)
(* The inductive invariant behind Authorized: what each thread has in hand *)
(* is what the policy let through, or what a human other than the one who  *)
(* asks has granted.                                                       *)
(***************************************************************************)
NeedsApproval(r) == r \in Req /\ Decision(ask[r]) = "approval"

MayGrant(k) ==
  /\ NeedsApproval(call[k].on)
  /\ call[k].by \in Actor
  /\ MayApprove(call[k].by, ask[call[k].on].actor)

SubmitInv ==
  \A r \in Req :
    /\ at[r] = "dispatching" => Decision(ask[r]) = "allow"
    /\ at[r] = "deferring" => NeedsApproval(r)

CallInv ==
  \A k \in Caller :
    /\ call[k].at = "held" => MayGrant(k)
    /\ call[k].at = "dispatching" => MayGrant(k) /\ call[k].by \in grants[call[k].on]

AuthorityInv ==
  /\ SubmitInv
  /\ \A r \in pending : NeedsApproval(r)
  /\ CallInv
  /\ Authorized
==============================================================================
