----------------------------- MODULE GatewayProofs -----------------------------
(***************************************************************************)
(* What holds of the gate for any actors, paths, tables of the policy,     *)
(* requests, keys, threads, bounds: the types of its state, that nothing   *)
(* reaches a module without the authority to do so, that a request has one *)
(* outcome, and that the users of a key are told the same.                 *)
(***************************************************************************)
EXTENDS Gateway, SequenceTheorems, TLAPS

(***************************************************************************)
(* Types.                                                                  *)
(***************************************************************************)

\* The types of what the threads of submit() share.
SubmitTypes ==
  /\ ask \in [Req -> Ask]
  /\ at \in [Req -> Working \cup Answering \cup {"new", "hit", "raised"}]
  /\ told \in [Req -> Req \cup {NoReq}]
  /\ cache \in Seq(Req)
  /\ Len(cache) > CacheCap => Trimming # {}

\* The types of what the threads of the approvals share.
ApprovalTypes ==
  /\ pending \subseteq Req
  /\ byCommand \subseteq Req
  /\ overdue \subseteq Req
  /\ call \in [Caller -> Calls]

\* The types of the evidence.
LogTypes ==
  /\ logged \subseteq Req
  /\ grants \in [Req -> SUBSET Actor]
  /\ sent \in [Req -> Nat]
  /\ ended \in [Req -> Nat]

\* The types of the history and of the bounded counters.
OtherTypes ==
  /\ blurred \subseteq Keys
  /\ raced \subseteq Req
  /\ stalls \in Nat
  /\ restarts \in Nat

LEMMA TypesSplit == GatewayTypeOK <=> SubmitTypes /\ ApprovalTypes /\ LogTypes /\ OtherTypes
  BY Zenon DEF GatewayTypeOK, SubmitTypes, ApprovalTypes, LogTypes, OtherTypes

LEMMA InitTypes == Init => GatewayTypeOK
  <1> SUFFICES ASSUME Init PROVE GatewayTypeOK
    OBVIOUS
  <1>1. SubmitTypes
    <2>1. cache \in Seq(Req) /\ ~ (Len(cache) > CacheCap)
      BY GatewayAssumption, EmptySeq DEF Init
    <2> QED
      BY <2>1, GatewayAssumption DEF Init, SubmitTypes
  <1>2. ApprovalTypes
    BY DEF Init, ApprovalTypes, Idle, Calls
  <1>3. LogTypes
    BY DEF Init, LogTypes
  <1>4. OtherTypes
    BY DEF Init, OtherTypes
  <1> QED
    BY <1>1, <1>2, <1>3, <1>4, TypesSplit

\* An entry of the cache is replaced, or one is added.
LEMMA StoredType ==
  ASSUME NEW r \in Req, cache \in Seq(Req)
  PROVE  /\ Stored(r) \in Seq(Req)
         /\ Len(Stored(r)) \in Len(cache)..Len(cache) + 1
         /\ Stored(r) # <<>>
  <1>1. CASE Remembered(ask[r].key) = {}
    BY <1>1, AppendProperties, EmptySeq DEF Stored
  <1>2. CASE Remembered(ask[r].key) # {}
    <2> DEFINE found == Remembered(ask[r].key)
    <2>1. Stored(r) = [i \in 1..Len(cache) |-> IF i \in found THEN r ELSE cache[i]]
      BY <1>2 DEF Stored
    <2>2. Len(cache) \in Nat /\ \A i \in 1..Len(cache) : cache[i] \in Req
      BY ElementOfSeq, LenProperties
    <2>3. Stored(r) \in [1..Len(cache) -> Req]
      BY <2>1, <2>2
    <2>4. Stored(r) \in Seq(Req) /\ Len(Stored(r)) = Len(cache)
      BY <2>2, <2>3, SeqDef, LenProperties
    <2>5. Len(cache) > 0
      BY <1>2, <2>2 DEF Remembered
    <2> QED
      BY <2>2, <2>4, <2>5, EmptySeq
  <1> QED
    BY <1>1, <1>2

\* A thread that is not done with the cache stays so while another one steps, and
\* as long as it is where it trims.
LEMMA TrimmingKept ==
  ASSUME SubmitTypes, NEW r \in Req, NEW to, at' = [at EXCEPT ![r] = to],
         at[r] \in {"evicting", "popping"} => to \in {"evicting", "popping"}
  PROVE  /\ Trimming \subseteq Trimming'
         /\ to \in {"evicting", "popping"} => Trimming' # {}
  <1>1. at'[r] = to /\ \A q \in Req \ {r} : at'[q] = at[q]
    BY DEF SubmitTypes
  <1> QED
    BY <1>1 DEF Trimming

LEMMA SubmitStep == GatewayTypeOK /\ [Next]_vars => SubmitTypes'
  <1> SUFFICES ASSUME GatewayTypeOK, [Next]_vars PROVE SubmitTypes'
    OBVIOUS
  <1>t. SubmitTypes
    BY TypesSplit
  <1>1. CASE UNCHANGED submitVars
    BY <1>1, <1>t DEF submitVars, SubmitTypes, Trimming
  <1>2. ASSUME NEW r \in Req, Hit(r) PROVE SubmitTypes'
    <2>1. \A i \in Remembered(ask[r].key) : cache[i] \in Req
      BY <1>t, ElementOfSeq DEF SubmitTypes, Remembered
    <2>2. PICK to \in {"raised", "answered"} : at[r] = "hit" /\ at' = [at EXCEPT ![r] = to]
      BY <1>2 DEF Hit, ReqAt
    <2>3. Trimming \subseteq Trimming'
      BY <1>t, <2>2, TrimmingKept
    <2>4. at' \in [Req -> Working \cup Answering \cup {"new", "hit", "raised"}]
      BY <1>t, <2>2 DEF SubmitTypes, Answering
    <2>5. UNCHANGED <<ask, cache>> /\ told' \in [Req -> Req \cup {NoReq}]
      BY <1>2, <1>t, <2>1 DEF Hit, SubmitTypes
    <2> QED
      BY <1>t, <2>3, <2>4, <2>5 DEF SubmitTypes
  <1>3. ASSUME NEW r \in Req, Remember(r) PROVE SubmitTypes'
    <2>1. Stored(r) \in Seq(Req)
      BY <1>t, StoredType DEF SubmitTypes
    <2>2. ask' = ask /\ told' = [told EXCEPT ![r] = r] /\ at[r] = "keeping"
      BY <1>3 DEF Remember, ReqAt
    <2>3. CASE Forgets(r)
      <3>1. at' = [at EXCEPT ![r] = "answered"] /\ cache' = cache
        BY <1>3, <2>3 DEF Remember, ReqAt
      <3>2. Trimming \subseteq Trimming'
        BY <1>t, <2>2, <3>1, TrimmingKept
      <3> QED
        BY <1>t, <2>2, <3>1, <3>2 DEF SubmitTypes, Answering
    <2>4. CASE ~ Forgets(r)
      <3>1. at' = [at EXCEPT ![r] = "evicting"] /\ cache' = Stored(r)
        BY <1>3, <2>4 DEF Remember, ReqAt
      <3>2. Trimming' # {}
        BY <1>t, <2>2, <3>1, TrimmingKept
      <3> QED
        BY <1>t, <2>1, <2>2, <3>1, <3>2 DEF SubmitTypes, Answering
    <2> QED
      BY <2>3, <2>4
  <1>4. ASSUME NEW r \in Req,
               \/ Submit(r) \/ Reject(r) \/ Store(r) \/ Defer(r) \/ Note(r)
               \/ Dispatch(r) \/ DispatchLate(r)
        PROVE  SubmitTypes'
    <2>1. /\ UNCHANGED <<ask, told, cache>>
          /\ at[r] \in Working \cup {"new"}
          /\ \E to \in Working \cup {"hit", "raised"} : at' = [at EXCEPT ![r] = to]
      BY <1>4 DEF Submit, Reject, Store, Defer, Note, Dispatch, DispatchLate, ReqAt, Working
    <2>2. Trimming \subseteq Trimming'
      BY <1>t, <2>1, TrimmingKept DEF Working
    <2> QED
      BY <1>t, <2>1, <2>2 DEF SubmitTypes
  <1>5. ASSUME Restart PROVE SubmitTypes'
    <2>1. cache' \in Seq(Req) /\ ~ (Len(cache') > CacheCap)
      BY <1>5, EmptySeq, GatewayAssumption DEF Restart
    <2>2. at' \in [Req -> Working \cup Answering \cup {"new", "hit", "raised"}]
      BY <1>5, <1>t DEF Restart, SubmitTypes, Answering
    <2> QED
      BY <1>5, <1>t, <2>1, <2>2 DEF Restart, SubmitTypes
  <1>6. ASSUME NEW k \in Caller, Approval(k) PROVE SubmitTypes'
    BY <1>6, <1>1 DEF Approval, Begin, Expire, ExpireFails, Report, Look, Grant, Deny,
       DispatchGranted
  <1>7. ASSUME NEW r \in Req, Evict(r) PROVE SubmitTypes'
    <2>1. UNCHANGED <<ask, told, cache>>
      BY <1>7 DEF Evict
    <2>2. CASE Overfull
      <3>1. at' = [at EXCEPT ![r] = "popping"]
        BY <1>7, <2>2 DEF Evict, ReqAt
      <3>2. Trimming' # {}
        BY <1>t, <3>1, TrimmingKept
      <3> QED
        BY <1>t, <2>1, <3>1, <3>2 DEF SubmitTypes, Answering
    <2>3. CASE ~ Overfull
      <3>1. at' = [at EXCEPT ![r] = "answered"]
        BY <1>7, <2>3 DEF Evict, ReqAt
      <3> QED
        BY <1>t, <2>1, <2>3, <3>1 DEF SubmitTypes, Answering, Overfull
    <2> QED
      BY <2>2, <2>3
  <1>8. ASSUME NEW r \in Req, Pop(r) PROVE SubmitTypes'
    <2>1. UNCHANGED <<ask, told>>
      BY <1>8 DEF Pop
    <2>2. CASE cache = <<>>
      <3>1. at' = [at EXCEPT ![r] = "raised"] /\ cache' = cache
        BY <1>8, <2>2 DEF Pop, ReqAt
      <3>2. ~ (Len(cache) > CacheCap)
        BY <2>2, EmptySeq, GatewayAssumption
      <3> QED
        BY <1>t, <2>1, <3>1, <3>2 DEF SubmitTypes
    <2>3. CASE cache # <<>>
      <3>1. at' = [at EXCEPT ![r] = "evicting"] /\ cache' = Tail(cache)
        BY <1>8, <2>3 DEF Pop, ReqAt
      <3>2. Tail(cache) \in Seq(Req)
        BY <1>t, <2>3, HeadTailProperties DEF SubmitTypes
      <3>3. Trimming' # {}
        BY <1>t, <3>1, TrimmingKept
      <3> QED
        BY <1>t, <2>1, <3>1, <3>2, <3>3 DEF SubmitTypes, Answering
    <2> QED
      BY <2>2, <2>3
  <1> QED
    BY <1>1, <1>2, <1>3, <1>4, <1>5, <1>6, <1>7, <1>8 DEF Next, Request, Tick, vars

\* The steps of the two kinds of threads on the approvals.
LEMMA ApprovalStep == GatewayTypeOK /\ [Next]_vars => ApprovalTypes'
  <1> SUFFICES ASSUME GatewayTypeOK, [Next]_vars PROVE ApprovalTypes'
    OBVIOUS
  <1>t. ApprovalTypes
    BY TypesSplit
  <1>1. CASE UNCHANGED approvalVars
    BY <1>1, <1>t DEF approvalVars, ApprovalTypes
  <1>2. ASSUME NEW r \in Req, Request(r) \/ Tick(r) PROVE ApprovalTypes'
    <2>1. CASE Defer(r)
      BY <2>1, <1>t DEF Defer, ApprovalTypes
    <2>2. CASE Note(r)
      BY <2>2, <1>t DEF Note, ApprovalTypes
    <2>3. CASE Tick(r)
      BY <2>3, <1>t DEF Tick, ApprovalTypes
    <2> QED
      BY <1>1, <1>2, <2>1, <2>2, <2>3
      DEF Request, Submit, Hit, Reject, Store, Dispatch, DispatchLate, Remember, Evict, Pop
  <1>3. Idle \in Calls
    BY DEF Idle, Calls
  <1>4. ASSUME NEW k \in Caller, Approval(k) PROVE ApprovalTypes'
    <2>1. pending' \subseteq Req /\ byCommand' \subseteq Req /\ overdue' \subseteq Req
      BY <1>4, <1>t DEF Approval, Begin, Expire, ExpireFails, Report, Look, Grant, Deny,
         DispatchGranted, Leaves, Decided, AfterRefusal, ApprovalTypes
    <2>2. call[k] \in Calls /\ \A c \in Calls : [call EXCEPT ![k] = c] \in [Caller -> Calls]
      BY <1>t DEF ApprovalTypes
    <2>3. CASE Begin(k)
      <3> DEFINE c == [call[k] EXCEPT !.at = "expiring", !.todo = Overdue]
      <3>1. call' = [call EXCEPT ![k] = c]
        BY <2>3, <1>t DEF Begin, ApprovalTypes
      <3>2. Overdue \in SUBSET Req
        BY <1>t DEF Overdue, ApprovalTypes
      <3>3. c \in Calls
        BY <2>2, <3>2 DEF Calls
      <3> QED
        BY <2>1, <2>2, <3>1, <3>3 DEF ApprovalTypes
    <2>4. CASE Expire(k)
      <3>1. PICK r \in call[k].todo \cap pending : call' = [call EXCEPT ![k].todo = @ \ {r}]
        BY <2>4 DEF Expire
      <3> DEFINE c == [call[k] EXCEPT !.todo = @ \ {r}]
      <3>2. call' = [call EXCEPT ![k] = c]
        BY <3>1, <1>t DEF ApprovalTypes
      <3>3. c \in Calls
        BY <2>2 DEF Calls
      <3> QED
        BY <2>1, <2>2, <3>2, <3>3 DEF ApprovalTypes
    <2>5. CASE ExpireFails(k) \/ Report(k) \/ Deny(k) \/ DispatchGranted(k)
      <3>1. call' = [call EXCEPT ![k] = Idle]
        BY <2>5 DEF ExpireFails, Report, Deny, DispatchGranted, Ends
      <3> QED
        BY <2>1, <3>1, <1>3, <1>t DEF ApprovalTypes
    <2>6. CASE Look(k)
      <3>1. \E c \in Calls : call' = [call EXCEPT ![k] = c]
        BY <2>6, <1>3, <1>t DEF Look, Ends, ApprovalTypes, Calls
      <3> QED
        BY <2>1, <3>1, <1>t DEF ApprovalTypes
    <2>7. CASE Grant(k)
      <3> DEFINE c == [call[k] EXCEPT !.at = "dispatching"]
      <3>1. call' = [call EXCEPT ![k] = c]
        BY <2>7, <1>t DEF Grant, CallAt, ApprovalTypes
      <3>2. c \in Calls
        BY <2>2 DEF Calls
      <3> QED
        BY <2>1, <2>2, <3>1, <3>2 DEF ApprovalTypes
    <2> QED
      BY <1>4, <2>3, <2>4, <2>5, <2>6, <2>7 DEF Approval
  <1>5. CASE Restart
    BY <1>5, <1>3 DEF Restart, ApprovalTypes
  <1> QED
    BY <1>1, <1>2, <1>4, <1>5 DEF Next, vars

LEMMA CountedUp ==
  ASSUME NEW f \in [Req -> Nat], NEW r \in Req
  PROVE  [f EXCEPT ![r] = @ + 1] \in [Req -> Nat]
  OBVIOUS

\* Only requests and approvers that are there enter the evidence.
LEMMA LogStep == GatewayTypeOK /\ AuthorityInv /\ [Next]_vars => LogTypes'
  <1> SUFFICES ASSUME GatewayTypeOK, AuthorityInv, [Next]_vars PROVE LogTypes'
    OBVIOUS
  <1>t. LogTypes /\ ApprovalTypes
    BY TypesSplit
  <1>1. CASE UNCHANGED logVars
    BY <1>1, <1>t DEF logVars, LogTypes
  <1>2. ASSUME NEW r \in Req, Request(r) \/ Tick(r) PROVE LogTypes'
    <2>1. CASE Store(r)
      BY <2>1, <1>t DEF Store, LogTypes
    <2>2. CASE Dispatch(r) \/ DispatchLate(r)
      BY <2>2, <1>t, CountedUp DEF Dispatch, DispatchLate, Dispatched, Overslept, LogTypes
    <2> QED
      BY <1>1, <1>2, <2>1, <2>2
      DEF Request, Submit, Hit, Reject, Defer, Note, Remember, Evict, Pop, Tick
  <1>3. ASSUME NEW k \in Caller, Approval(k) PROVE LogTypes'
    <2>1. CASE Expire(k)
      <3>1. PICK r \in Req : ended' = [ended EXCEPT ![r] = @ + 1]
        BY <2>1, <1>t DEF Expire, ApprovalTypes
      <3> QED
        BY <2>1, <3>1, <1>t, CountedUp DEF Expire, LogTypes
    <2>2. ASSUME call[k].at \in {"held", "dispatching"} PROVE call[k].on \in Req
      BY <2>2 DEF AuthorityInv, CallInv, MayGrant, NeedsApproval
    <2>3. CASE Grant(k)
      <3>1. call[k].on \in Req
        BY <2>2, <2>3 DEF Grant, CallAt
      <3>2. call[k].by \in Actor
        BY <2>3 DEF Grant, CallAt, AuthorityInv, CallInv, MayGrant
      <3> QED
        BY <2>3, <3>1, <3>2, <1>t DEF Grant, LogTypes
    <2>4. CASE Deny(k)
      BY <2>4, <2>2, <1>t, CountedUp DEF Deny, LogTypes
    <2>5. CASE DispatchGranted(k)
      BY <2>5, <2>2, <1>t, CountedUp DEF DispatchGranted, Dispatched, Overslept, LogTypes
    <2> QED
      BY <1>1, <1>3, <2>1, <2>3, <2>4, <2>5
      DEF Approval, Begin, ExpireFails, Report, Look
  <1>4. CASE Restart
    BY <1>1, <1>4 DEF Restart
  <1> QED
    BY <1>1, <1>2, <1>3, <1>4 DEF Next, vars, logVars

LEMMA KeyOfReq ==
  ASSUME SubmitTypes, NEW r \in Req
  PROVE  ask[r] \in Ask /\ ask[r].key \in Keys
  BY GatewayAssumption DEF SubmitTypes, Keys

LEMMA OtherStep == GatewayTypeOK /\ AuthorityInv /\ [Next]_vars => OtherTypes'
  <1> SUFFICES ASSUME GatewayTypeOK, AuthorityInv, [Next]_vars PROVE OtherTypes'
    OBVIOUS
  <1>t. SubmitTypes /\ ApprovalTypes /\ OtherTypes
    BY TypesSplit
  <1>1. CASE UNCHANGED <<historyVars, bounds>>
    BY <1>1, <1>t DEF historyVars, bounds, OtherTypes
  <1>2. ASSUME NEW r \in Req, Request(r) \/ Tick(r) PROVE OtherTypes'
    <2>1. ask[r].key \in Keys
      BY <1>t, KeyOfReq
    <2>2. CASE Submit(r)
      BY <2>1, <2>2, <1>t DEF Submit, OtherTypes, bounds
    <2>3. CASE DispatchLate(r)
      BY <2>1, <2>3, <1>t DEF DispatchLate, Overslept, OtherTypes
    <2>4. CASE Pop(r) /\ cache # <<>>
      <3>1. Head(cache) \in Req
        BY <2>4, <1>t, HeadTailProperties DEF SubmitTypes
      <3>2. ask[Head(cache)].key \in Keys
        BY <3>1, <1>t, KeyOfReq
      <3> QED
        BY <2>4, <3>2, <1>t DEF Pop, OtherTypes, bounds
    <2>5. CASE Pop(r) /\ cache = <<>>
      BY <2>5, <1>t DEF Pop, OtherTypes, bounds
    <2> QED
      BY <1>1, <1>2, <2>2, <2>3, <2>4, <2>5
      DEF Request, Hit, Reject, Store, Defer, Note, Dispatch, Tick, historyVars, Remember, Evict
  <1>3. ASSUME NEW k \in Caller, Approval(k) PROVE OtherTypes'
    <2>1. ASSUME NEW r \in Req, Leaves(k, r), UNCHANGED <<blurred, bounds>> PROVE OtherTypes'
      BY <2>1, <1>t DEF Leaves, OtherTypes, bounds
    <2>2. CASE Expire(k)
      BY <2>1, <2>2, <1>t DEF Expire, ApprovalTypes
    <2>3. CASE Grant(k) \/ Deny(k)
      <3>1. call[k].at = "held"
        BY <2>3 DEF Grant, Deny, CallAt
      <3>2. call[k].on \in Req
        BY <3>1 DEF AuthorityInv, CallInv, MayGrant, NeedsApproval
      <3> QED
        BY <2>1, <2>3, <3>2 DEF Grant, Deny, Decided
    <2>4. CASE DispatchGranted(k)
      BY <2>4, <1>t DEF DispatchGranted, Overslept, OtherTypes, historyVars
    <2> QED
      BY <1>1, <1>3, <2>2, <2>3, <2>4 DEF Approval, Begin, ExpireFails, Report, Look
  <1>4. CASE Restart
    BY <1>4, <1>t DEF Restart, OtherTypes, Keys
  <1> QED
    BY <1>1, <1>2, <1>3, <1>4 DEF Next, vars

(***************************************************************************)
(* Authority.                                                              *)
(***************************************************************************)

\* What the policy lets through alone stays under both limits.
LEMMA AllowedIsAuthorized ==
  ASSUME NEW r \in Req, Decision(ask[r]) = "allow", SubmitTypes
  PROVE  AuthorizedReq(r)
  <1>1. Rank(ask[r].risk) \in Nat /\ Rank(Ceiling[ask[r].path]) \in Nat
    BY DEF Rank
  <1>2. Rank(Authority[ClassOf[ask[r].actor]]) \in Nat
    BY DEF Rank
  <1>3. ~ OverCeiling(ask[r]) /\ ask[r].risk # "hazardous" /\ ~ OverAuthority(ask[r])
    BY DEF Decision
  <1> QED
    BY <1>1, <1>2, <1>3 DEF AuthorizedReq, OverCeiling, OverAuthority

\* What needs an approval is under the ceiling, and a human who may approve it
\* makes it authorized.
LEMMA GrantedIsAuthorized ==
  ASSUME NEW r \in Req, NeedsApproval(r),
         NEW h \in grants[r], MayApprove(h, ask[r].actor)
  PROVE  AuthorizedReq(r)
  <1>1. Rank(ask[r].risk) \in Nat /\ Rank(Ceiling[ask[r].path]) \in Nat
    BY DEF Rank
  <1>2. ~ OverCeiling(ask[r])
    BY DEF NeedsApproval, Decision
  <1>3. Rank(ask[r].risk) <= Rank(Ceiling[ask[r].path])
    BY <1>1, <1>2 DEF OverCeiling
  <1> QED
    BY <1>3 DEF AuthorizedReq, MayApprove

LEMMA InitAuthority == Init => AuthorityInv
  <1> SUFFICES ASSUME Init PROVE AuthorityInv
    OBVIOUS
  <1>1. SubmitInv
    BY DEF Init, SubmitInv
  <1>2. CallInv
    BY DEF Init, CallInv, Idle
  <1>3. Authorized
    BY DEF Init, Authorized
  <1> QED
    BY <1>1, <1>2, <1>3 DEF AuthorityInv, Init

\* What a request asks for never changes, and no grant is taken back.
LEMMA GrantsGrow ==
  ASSUME GatewayTypeOK, [Next]_vars
  PROVE  ask' = ask /\ \A r \in Req : grants[r] \subseteq grants'[r]
  <1>t. LogTypes
    BY TypesSplit
  <1>1. ASSUME NEW r \in Req, Request(r) \/ Tick(r)
        PROVE  UNCHANGED <<ask, grants>>
    BY <1>1 DEF Request, Submit, Hit, Reject, Store, Defer, Note, Dispatch, DispatchLate,
       Remember, Evict, Pop, Tick, submitVars, logVars
  <1>2. ASSUME NEW k \in Caller, Approval(k)
        PROVE  ask' = ask /\ \A r \in Req : grants[r] \subseteq grants'[r]
    <2>1. CASE Grant(k)
      BY <2>1, <1>t DEF Grant, submitVars, LogTypes
    <2> QED
      BY <1>2, <2>1 DEF Approval, Begin, Expire, ExpireFails, Report, Look, Deny,
         DispatchGranted, submitVars, logVars
  <1>3. CASE Restart
    BY <1>3 DEF Restart, logVars
  <1>4. CASE UNCHANGED vars
    BY <1>4 DEF vars, submitVars, logVars
  <1> QED
    BY <1>1, <1>2, <1>3, <1>4 DEF Next

LEMMA SubmitInvStep ==
  ASSUME GatewayTypeOK, AuthorityInv, [Next]_vars
  PROVE  SubmitInv'
  <1>t. SubmitTypes /\ SubmitInv
    BY TypesSplit DEF AuthorityInv
  <1>a. ask' = ask
    BY GrantsGrow
  <1>d. \A r \in Req : NeedsApproval(r)' <=> NeedsApproval(r)
    BY <1>a DEF NeedsApproval, Decision, OverCeiling, OverAuthority
  <1>e. \A r \in Req : (Decision(ask[r]))' = Decision(ask[r])
    BY <1>a DEF Decision, OverCeiling, OverAuthority
  <1>1. ASSUME NEW r \in Req,
               \/ at'[r] = at[r]
               \/ at'[r] = "dispatching" /\ Decision(ask[r]) = "allow"
               \/ at'[r] = "deferring" /\ NeedsApproval(r)
               \/ at'[r] \notin {"dispatching", "deferring"}
        PROVE  /\ at'[r] = "dispatching" => (Decision(ask[r]))' = "allow"
               /\ at'[r] = "deferring" => NeedsApproval(r)'
    BY <1>1, <1>d, <1>e, <1>t DEF SubmitInv
  <1>2. \A q \in Req :
          \/ at'[q] = at[q]
          \/ at'[q] = "dispatching" /\ Decision(ask[q]) = "allow"
          \/ at'[q] = "deferring" /\ NeedsApproval(q)
          \/ at'[q] \notin {"dispatching", "deferring"}
    <2>1. ASSUME NEW r \in Req, Request(r)
          PROVE  \/ \E to \in {"hit", "asked", "raised", "answered", "keeping", "noting", "evicting", "popping"} :
                      at' = [at EXCEPT ![r] = to]
                 \/ at' = [at EXCEPT ![r] = "dispatching"] /\ Decision(ask[r]) = "allow"
                 \/ at' = [at EXCEPT ![r] = "deferring"] /\ NeedsApproval(r)
      BY <2>1 DEF Request, Submit, Hit, Reject, Store, Defer, Note, Dispatch, DispatchLate,
         Remember, Evict, Pop, ReqAt, NeedsApproval
    <2>2. ASSUME NEW r \in Req, Tick(r) PROVE at' = at
      BY <2>2 DEF Tick, submitVars
    <2>3. ASSUME NEW k \in Caller, Approval(k) PROVE at' = at
      BY <2>3 DEF Approval, Begin, Expire, ExpireFails, Report, Look, Grant, Deny,
         DispatchGranted, submitVars
    <2>4. CASE Restart
      BY <2>4 DEF Restart
    <2>5. CASE UNCHANGED vars
      BY <2>5 DEF vars, submitVars
    <2> QED
      BY <2>1, <2>2, <2>3, <2>4, <2>5, <1>t DEF Next, SubmitTypes
  <1> QED
    BY <1>1, <1>2 DEF SubmitInv

LEMMA PendingStep ==
  ASSUME GatewayTypeOK, AuthorityInv, [Next]_vars
  PROVE  \A r \in pending' : NeedsApproval(r)'
  <1>a. ask' = ask
    BY GrantsGrow
  <1>d. \A r \in Req : NeedsApproval(r)' <=> NeedsApproval(r)
    BY <1>a DEF NeedsApproval, Decision, OverCeiling, OverAuthority
  <1>1. \A r \in pending' : NeedsApproval(r)
    <2>1. ASSUME NEW r \in Req, Defer(r) PROVE \A q \in pending' : NeedsApproval(q)
      BY <2>1 DEF Defer, ReqAt, AuthorityInv, SubmitInv
    <2>2. CASE pending' \subseteq pending
      BY <2>2 DEF AuthorityInv
    <2>3. ASSUME NEW r \in Req, Request(r) \/ Tick(r), ~ Defer(r) PROVE pending' = pending
      BY <2>3 DEF Request, Submit, Hit, Reject, Store, Note, Dispatch, DispatchLate,
         Remember, Evict, Pop, Tick, approvalVars
    <2>4. ASSUME NEW k \in Caller, Approval(k) PROVE pending' \subseteq pending
      BY <2>4 DEF Approval, Begin, Expire, ExpireFails, Report, Look, Grant, Deny,
         DispatchGranted, Leaves, Decided, AfterRefusal
    <2>5. CASE Restart
      BY <2>5 DEF Restart
    <2>6. CASE UNCHANGED vars
      BY <2>2, <2>6 DEF vars, approvalVars
    <2> QED
      BY <2>1, <2>2, <2>3, <2>4, <2>5, <2>6 DEF Next
  <1> QED
    BY <1>1, <1>d DEF NeedsApproval

LEMMA CallInvStep ==
  ASSUME GatewayTypeOK, AuthorityInv, [Next]_vars
  PROVE  CallInv'
  <1>t. ApprovalTypes /\ LogTypes
    BY TypesSplit
  <1>g. ask' = ask /\ \A r \in Req : grants[r] \subseteq grants'[r]
    BY GrantsGrow
  <1>d. \A r \in Req : NeedsApproval(r)' <=> NeedsApproval(r)
    BY <1>g DEF NeedsApproval, Decision, OverCeiling, OverAuthority
  \* A thread that does not move keeps what it has in hand.
  <1>1. ASSUME NEW j \in Caller, call'[j] = call[j]
        PROVE  /\ call'[j].at = "held" => MayGrant(j)'
               /\ call'[j].at = "dispatching" =>
                    MayGrant(j)' /\ call'[j].by \in grants'[call'[j].on]
    <2>1. MayGrant(j) => MayGrant(j)'
      BY <1>1, <1>g, <1>d DEF MayGrant, NeedsApproval, MayApprove
    <2>2. MayGrant(j) => call[j].on \in Req
      BY DEF MayGrant, NeedsApproval
    <2> QED
      BY <1>1, <1>g, <2>1, <2>2 DEF AuthorityInv, CallInv
  <1>2. CASE call' = call
    BY <1>1, <1>2 DEF CallInv
  <1>3. ASSUME NEW k \in Caller, Approval(k) PROVE CallInv'
    <2>1. \A j \in Caller \ {k} : call'[j] = call[j]
      BY <1>3, <1>t DEF Approval, Begin, Expire, ExpireFails, Report, Look, Grant, Deny,
         DispatchGranted, Ends, CallAt, ApprovalTypes
    <2>2. /\ call'[k].at = "held" => MayGrant(k)'
          /\ call'[k].at = "dispatching" =>
               MayGrant(k)' /\ call'[k].by \in grants'[call'[k].on]
      <3>1. CASE Begin(k) \/ Expire(k)
        <4>1. call'[k].at = "expiring"
          BY <3>1, <1>t DEF Begin, Expire, ApprovalTypes, Calls
        <4> QED
          BY <4>1
      <3>2. CASE call' = [call EXCEPT ![k] = Idle]
        BY <3>2, <1>t DEF ApprovalTypes, Idle
      <3>3. CASE Look(k) /\ call' # [call EXCEPT ![k] = Idle]
        <4>1. PICK r \in pending, a \in Actor, g \in BOOLEAN :
                /\ MayApprove(a, ask[r].actor)
                /\ call' = [call EXCEPT ![k] =
                     [at |-> "held", todo |-> {}, on |-> r, by |-> a, grant |-> g]]
          BY <3>3 DEF Look, Ends
        <4>2. call'[k] = [at |-> "held", todo |-> {}, on |-> r, by |-> a, grant |-> g]
          BY <4>1, <1>t DEF ApprovalTypes
        <4>3. NeedsApproval(r) /\ r \in Req
          BY <1>t DEF AuthorityInv, ApprovalTypes
        <4>4. NeedsApproval(r)'
          BY <4>3, <1>d
        <4>5. NeedsApproval(call[k].on)'
          BY <4>2, <4>4 DEF NeedsApproval
        <4> QED
          BY <4>1, <4>2, <4>5, <1>g DEF MayGrant, MayApprove
      <3>4. CASE Grant(k)
        <4>1. /\ call[k].at = "held"
              /\ call' = [call EXCEPT ![k].at = "dispatching"]
              /\ grants' = [grants EXCEPT ![call[k].on] = @ \cup {call[k].by}]
          BY <3>4 DEF Grant, CallAt
        <4>2. call'[k].on = call[k].on /\ call'[k].by = call[k].by /\ call'[k].at = "dispatching"
          BY <4>1, <1>t DEF ApprovalTypes, Calls
        <4>3. MayGrant(k)
          BY <4>1 DEF AuthorityInv, CallInv
        <4>4. call[k].on \in Req
          BY <4>3 DEF MayGrant, NeedsApproval
        <4>5. call[k].by \in grants'[call[k].on]
          BY <4>1, <4>4, <1>t DEF LogTypes
        <4>6. MayGrant(k)'
          BY <4>2, <4>3, <4>4, <1>d, <1>g DEF MayGrant, MayApprove, NeedsApproval
        <4> QED
          BY <4>2, <4>5, <4>6
      <3> QED
        BY <1>3, <3>1, <3>2, <3>3, <3>4
        DEF Approval, ExpireFails, Report, Deny, DispatchGranted, Ends
    <2> QED
      BY <1>1, <2>1, <2>2 DEF CallInv
  <1>4. ASSUME NEW r \in Req, Request(r) \/ Tick(r) PROVE call' = call
    BY <1>4 DEF Request, Submit, Hit, Reject, Store, Defer, Note, Dispatch, DispatchLate,
       Remember, Evict, Pop, Tick, approvalVars
  <1>5. CASE Restart
    BY <1>5 DEF Restart, CallInv, Idle
  <1>6. CASE UNCHANGED vars
    BY <1>2, <1>6 DEF vars, approvalVars
  <1> QED
    BY <1>2, <1>3, <1>4, <1>5, <1>6 DEF Next

\* Whatever is sent is in the hands of a thread that may send it.
LEMMA AuthorizedStep ==
  ASSUME GatewayTypeOK, AuthorityInv, [Next]_vars
  PROVE  Authorized'
  <1>t. SubmitTypes /\ LogTypes
    BY TypesSplit
  <1>g. ask' = ask /\ \A r \in Req : grants[r] \subseteq grants'[r]
    BY GrantsGrow
  <1>1. \A r \in Req : AuthorizedReq(r) => AuthorizedReq(r)'
    BY <1>g DEF AuthorizedReq
  <1>2. ASSUME NEW r \in Req, sent' = [sent EXCEPT ![r] = @ + 1], AuthorizedReq(r)
        PROVE  Authorized'
    <2> SUFFICES ASSUME NEW q \in Req, sent'[q] > 0 PROVE AuthorizedReq(q)'
      BY DEF Authorized
    <2>1. AuthorizedReq(q)
      BY <1>2, <1>t DEF LogTypes, AuthorityInv, Authorized
    <2> QED
      BY <2>1, <1>1
  <1>3. CASE sent' = sent
    BY <1>1, <1>3 DEF AuthorityInv, Authorized
  <1>4. ASSUME NEW r \in Req, Request(r) \/ Tick(r) PROVE Authorized'
    <2>1. CASE Dispatch(r) \/ DispatchLate(r)
      <3>1. AuthorizedReq(r)
        BY <2>1, <1>t, AllowedIsAuthorized DEF Dispatch, DispatchLate, ReqAt, AuthorityInv, SubmitInv
      <3> QED
        BY <2>1, <3>1, <1>2, <1>3 DEF Dispatch, DispatchLate, Dispatched, Overslept
    <2> QED
      BY <1>3, <1>4, <2>1
      DEF Request, Submit, Hit, Reject, Store, Defer, Note, Remember, Evict, Pop, Tick, logVars
  <1>5. ASSUME NEW k \in Caller, Approval(k) PROVE Authorized'
    <2>1. CASE DispatchGranted(k)
      <3>1. MayGrant(k) /\ call[k].by \in grants[call[k].on]
        BY <2>1 DEF DispatchGranted, AuthorityInv, CallInv
      <3>2. call[k].on \in Req /\ AuthorizedReq(call[k].on)
        BY <3>1, GrantedIsAuthorized DEF MayGrant, NeedsApproval
      <3> QED
        BY <2>1, <3>2, <1>2, <1>3 DEF DispatchGranted, Dispatched, Overslept
    <2> QED
      BY <1>3, <1>5, <2>1
      DEF Approval, Begin, Expire, ExpireFails, Report, Look, Grant, Deny, logVars
  <1>6. CASE Restart \/ UNCHANGED vars
    BY <1>3, <1>6 DEF Restart, vars, logVars
  <1> QED
    BY <1>4, <1>5, <1>6 DEF Next

(***************************************************************************)
(* One outcome.                                                            *)
(***************************************************************************)
Early == {"new", "hit", "asked", "deferring", "dispatching"}

\* What OneOutcomeUnlessRaced and DecidedOnce say of one request.
OnceAt(r) ==
  /\ Outcomes(r) <= 1
  /\ at[r] \in Early =>
       /\ Outcomes(r) = 0
       /\ r \notin pending
       /\ \A k \in Caller : call[k].at = "dispatching" => call[k].on # r
  /\ r \in pending => Outcomes(r) = 0
  /\ \A k \in Caller :
       /\ call[k].at = "held" /\ call[k].on = r => r \in pending
       /\ call[k].at = "dispatching" /\ call[k].on = r =>
            /\ Outcomes(r) = 0
            /\ r \notin pending
            /\ \A j \in Caller \ {k} : call[j].at = "dispatching" => call[j].on # r

Once == \A r \in Req \ raced : OnceAt(r)

LEMMA OnceIs == Once <=> OneOutcomeUnlessRaced /\ DecidedOnce
  BY Zenon DEF Once, OnceAt, OneOutcomeUnlessRaced, DecidedOnce, Early

LEMMA InitOnce == Init => Once
  BY DEF Init, Once, OnceAt, Outcomes, Idle

\* A request that nothing happens to.
LEMMA OnceKept ==
  ASSUME NEW r \in Req, OnceAt(r),
         at'[r] \in Early => at[r] \in Early,
         sent'[r] = sent[r], ended'[r] = ended[r],
         r \in pending' <=> r \in pending,
         \A k \in Caller :
           \/ call'[k] = call[k]
           \/ call'[k].at \notin {"held", "dispatching"}
           \/ call'[k].on # r
  PROVE  OnceAt(r)'
  <1>1. Outcomes(r)' = Outcomes(r)
    BY DEF Outcomes
  <1>2. ASSUME NEW k \in Caller
        PROVE  /\ call'[k].at = "held" /\ call'[k].on = r =>
                    call[k].at = "held" /\ call[k].on = r
               /\ call'[k].at = "dispatching" /\ call'[k].on = r =>
                    call[k].at = "dispatching" /\ call[k].on = r
    OBVIOUS
  <1> QED
    BY <1>1, <1>2 DEF OnceAt

\* The steps of the threads of submit().
LEMMA OnceRequest ==
  ASSUME GatewayTypeOK, Once, NEW r \in Req, Request(r) \/ Tick(r)
  PROVE  Once'
  <1>t. SubmitTypes /\ ApprovalTypes /\ LogTypes
    BY TypesSplit
  <1>r. raced' = raced
    BY DEF Request, Submit, Hit, Reject, Store, Defer, Note, Dispatch, DispatchLate, Remember, Evict, Pop,
       Tick, historyVars
  <1> SUFFICES ASSUME NEW q \in Req \ raced PROVE OnceAt(q)'
    BY <1>r DEF Once
  <1>q. OnceAt(q)
    BY DEF Once
  <1>1. CASE Defer(r)
    <2>1. /\ at[r] = "deferring" /\ at' = [at EXCEPT ![r] = "noting"]
          /\ pending' = pending \cup {r}
          /\ UNCHANGED <<call, sent, ended>>
      BY <1>1 DEF Defer, ReqAt, logVars
    <2>2. CASE q = r
      <3>1. /\ Outcomes(q) = 0 /\ Outcomes(q)' = 0
            /\ at'[q] = "noting"
            /\ \A k \in Caller : call[k].at = "dispatching" => call[k].on # q
        BY <2>1, <2>2, <1>q, <1>t DEF OnceAt, Outcomes, Early, SubmitTypes
      <3> QED
        BY <2>1, <2>2, <3>1 DEF OnceAt, Early
    <2>3. CASE q # r
      BY <2>1, <2>3, <1>q, <1>t, OnceKept DEF SubmitTypes
    <2> QED
      BY <2>2, <2>3
  <1>2. CASE Dispatch(r) \/ DispatchLate(r)
    <2>1. /\ at[r] = "dispatching"
          /\ at' = [at EXCEPT ![r] = "keeping"] \/ at' = [at EXCEPT ![r] = "raised"]
          /\ UNCHANGED <<pending, call>>
          /\ \/ sent' = [sent EXCEPT ![r] = @ + 1] /\ UNCHANGED ended
             \/ ended' = [ended EXCEPT ![r] = @ + 1] /\ UNCHANGED sent
             \/ UNCHANGED <<sent, ended>>
      BY <1>2 DEF Dispatch, DispatchLate, Dispatched, Overslept, ReqAt, approvalVars
    <2>2. CASE q = r
      <3>1. /\ Outcomes(q) = 0 /\ q \notin pending
            /\ \A k \in Caller : call[k].at = "dispatching" => call[k].on # q
        BY <2>1, <2>2, <1>q DEF OnceAt, Early
      <3>2. \A k \in Caller : call[k].at = "held" => call[k].on # q
        BY <3>1, <1>q DEF OnceAt
      <3>3. Outcomes(q)' <= 1
        BY <2>1, <2>2, <3>1, <1>t DEF Outcomes, LogTypes
      <3>4. at'[q] \notin Early
        BY <2>1, <2>2, <1>t DEF SubmitTypes, Early
      <3> QED
        BY <2>1, <3>1, <3>2, <3>3, <3>4 DEF OnceAt
    <2>3. CASE q # r
      BY <2>1, <2>3, <1>q, <1>t, OnceKept DEF SubmitTypes, LogTypes
    <2> QED
      BY <2>2, <2>3
  <1>3. ASSUME UNCHANGED <<pending, call, sent, ended>>, at'[q] \in Early => at[q] \in Early
        PROVE  OnceAt(q)'
    BY <1>3, <1>q, OnceKept
  <1>4. CASE Submit(r) \/ Hit(r) \/ Reject(r) \/ Store(r) \/ Note(r) \/ Remember(r) \/ Evict(r) \/ Pop(r)
    <2>1. /\ UNCHANGED <<pending, call, sent, ended>>
          /\ \E to \in Working \cup Answering \cup {"hit", "raised"} :
               /\ at' = [at EXCEPT ![r] = to]
               /\ to \in Early => at[r] \in Early
      BY <1>4 DEF Submit, Hit, Reject, Store, Note, Remember, Evict, Pop, ReqAt, approvalVars, logVars,
         Early, Working, Answering
    <2> QED
      BY <2>1, <1>3, <1>t DEF SubmitTypes
  <1>5. CASE Tick(r)
    BY <1>5, <1>3 DEF Tick, submitVars, logVars
  <1> QED
    BY <1>1, <1>2, <1>4, <1>5 DEF Request

\* The steps of the threads on the approvals.
LEMMA OnceApproval ==
  ASSUME GatewayTypeOK, AuthorityInv, Once, NEW k \in Caller, Approval(k)
  PROVE  Once'
  <1>t. SubmitTypes /\ ApprovalTypes /\ LogTypes
    BY TypesSplit
  <1>a. at' = at
    BY DEF Approval, Begin, Expire, ExpireFails, Report, Look, Grant, Deny,
       DispatchGranted, submitVars
  <1>c. \A j \in Caller \ {k} : call'[j] = call[j]
    BY <1>t DEF Approval, Begin, Expire, ExpireFails, Report, Look, Grant, Deny,
       DispatchGranted, Ends, CallAt, ApprovalTypes
  <1>r. raced \subseteq raced'
    BY DEF Approval, Begin, Expire, ExpireFails, Report, Look, Grant, Deny,
       DispatchGranted, Decided, Leaves, historyVars
  <1> SUFFICES ASSUME NEW q \in Req \ raced' PROVE OnceAt(q)'
    BY DEF Once
  <1>q. OnceAt(q) /\ q \in Req
    BY <1>r DEF Once
  <1>1. ASSUME UNCHANGED <<sent, ended>>, pending' = pending,
               call'[k].at \notin {"held", "dispatching"} \/ call'[k].on # q
        PROVE  OnceAt(q)'
    BY <1>1, <1>a, <1>c, <1>q, OnceKept
  <1>2. CASE Begin(k)
    BY <1>1, <1>2, <1>t DEF Begin, ApprovalTypes, Calls, logVars
  <1>3. CASE ExpireFails(k) \/ Report(k)
    BY <1>1, <1>3, <1>t DEF ExpireFails, Report, Ends, Idle, ApprovalTypes, logVars
  <1>4. CASE Look(k)
    <2>1. pending' = pending /\ UNCHANGED <<sent, ended>>
      BY <1>4 DEF Look, AfterRefusal, logVars
    <2>2. CASE call' = [call EXCEPT ![k] = Idle]
      BY <1>1, <2>1, <2>2, <1>t DEF Idle, ApprovalTypes
    <2>3. CASE call' # [call EXCEPT ![k] = Idle]
      <3>1. PICK r \in pending, a \in Actor, g \in BOOLEAN :
              call' = [call EXCEPT ![k] =
                [at |-> "held", todo |-> {}, on |-> r, by |-> a, grant |-> g]]
        BY <1>4, <2>3 DEF Look, Ends
      <3>2. call'[k] = [at |-> "held", todo |-> {}, on |-> r, by |-> a, grant |-> g]
        BY <3>1, <1>t DEF ApprovalTypes
      <3>3. CASE q # r
        BY <1>1, <2>1, <3>2, <3>3
      <3>4. CASE q = r
        <4>1. q \in pending' /\ Outcomes(q)' = Outcomes(q) /\ Outcomes(q) = 0 /\ at'[q] \notin Early
          BY <2>1, <3>1, <3>4, <1>a, <1>q DEF OnceAt, Outcomes
        <4>2. \A j \in Caller : ~ (call'[j].at = "dispatching" /\ call'[j].on = q)
          BY <1>c, <1>q, <2>1, <3>2, <4>1 DEF OnceAt
        <4> QED
          BY <4>1, <4>2 DEF OnceAt
      <3> QED
        BY <3>3, <3>4
    <2> QED
      BY <2>2, <2>3
  \* An approval that leaves, when nobody else holds it.
  <1>5. ASSUME NEW r \in pending, Leaves(k, r), q = r,
               call'[k].at # "held",
               call'[k].at = "dispatching" => Outcomes(q)' = 0,
               Outcomes(q)' <= 1
        PROVE  OnceAt(q)'
    <2>1. ~ HeldByAnother(k, r) /\ q \notin pending'
      BY <1>5 DEF Leaves
    <2>2. /\ at'[q] \notin Early
          /\ \A j \in Caller : call[j].at = "dispatching" => call[j].on # q
      BY <1>5, <1>a, <1>q DEF OnceAt
    <2>3. \A j \in Caller : call'[j].at = "held" => call'[j].on # q
      BY <2>1, <1>5, <1>c DEF HeldByAnother
    <2>4. \A j \in Caller \ {k} : call'[j].at = "dispatching" => call'[j].on # q
      BY <2>2, <1>c
    <2> QED
      BY <1>5, <2>1, <2>2, <2>3, <2>4 DEF OnceAt
  <1>6. CASE Expire(k)
    <2>1. PICK r \in call[k].todo \cap pending :
            /\ Leaves(k, r)
            /\ ended' = [ended EXCEPT ![r] = @ + 1]
            /\ call' = [call EXCEPT ![k].todo = @ \ {r}]
      BY <1>6 DEF Expire
    <2>2. sent' = sent /\ call'[k].at = "expiring" /\ r \in Req
      BY <1>6, <2>1, <1>t DEF Expire, ApprovalTypes, Calls
    <2>3. CASE q = r
      <3>1. Outcomes(q)' <= 1
        BY <2>1, <2>2, <2>3, <1>q, <1>t DEF OnceAt, Outcomes, LogTypes
      <3> QED
        BY <2>1, <2>2, <2>3, <3>1, <1>5
    <2>4. CASE q # r
      BY <2>1, <2>2, <2>4, <1>a, <1>c, <1>q, <1>t, OnceKept DEF Leaves, LogTypes
    <2> QED
      BY <2>3, <2>4
  <1>7. CASE Grant(k) \/ Deny(k)
    <2> DEFINE r == call[k].on
    <2>1. /\ call[k].at = "held" /\ Leaves(k, r) /\ sent' = sent
          /\ \/ Grant(k) /\ ended' = ended /\ call' = [call EXCEPT ![k].at = "dispatching"]
             \/ ended' = [ended EXCEPT ![r] = @ + 1] /\ call' = [call EXCEPT ![k] = Idle]
      BY <1>7 DEF Grant, Deny, CallAt, Ends, Decided
    <2>2. r \in Req
      BY <2>1 DEF AuthorityInv, CallInv, MayGrant, NeedsApproval
    <2>3. \/ ended' = ended /\ call'[k].at = "dispatching" /\ call'[k].on = r
          \/ ended' = [ended EXCEPT ![r] = @ + 1] /\ call'[k].at = "idle"
      BY <2>1, <1>t DEF Idle, ApprovalTypes, Calls
    <2>4. CASE q = r
      <3>1. q \in pending /\ Outcomes(q) = 0
        BY <2>1, <2>4, <1>q DEF OnceAt
      <3>2. \/ call'[k].at = "dispatching" /\ Outcomes(q)' = 0
            \/ call'[k].at = "idle" /\ Outcomes(q)' = 1
        BY <2>1, <2>2, <2>3, <2>4, <3>1, <1>t DEF Outcomes, LogTypes
      <3> QED
        BY <2>1, <2>4, <3>1, <3>2, <1>5
    <2>5. CASE q # r
      <3>1. sent'[q] = sent[q] /\ ended'[q] = ended[q] /\ (q \in pending' <=> q \in pending)
        BY <2>1, <2>5, <1>t DEF Leaves, LogTypes
      <3> QED
        BY <2>3, <2>5, <3>1, <1>a, <1>c, <1>q, OnceKept
    <2> QED
      BY <2>4, <2>5
  <1>8. CASE DispatchGranted(k)
    <2> DEFINE r == call[k].on
    <2>1. /\ call[k].at = "dispatching" /\ call' = [call EXCEPT ![k] = Idle]
          /\ pending' = pending
          /\ \/ sent' = [sent EXCEPT ![r] = @ + 1] /\ UNCHANGED ended
             \/ ended' = [ended EXCEPT ![r] = @ + 1] /\ UNCHANGED sent
             \/ UNCHANGED <<sent, ended>>
      BY <1>8 DEF DispatchGranted, Ends, Dispatched, Overslept
    <2>2. call'[k].at = "idle"
      BY <2>1, <1>t DEF Idle, ApprovalTypes
    <2>3. CASE q = r
      <3>1. /\ Outcomes(q) = 0 /\ q \notin pending /\ at[q] \notin Early
            /\ \A j \in Caller \ {k} : call[j].at = "dispatching" => call[j].on # q
        BY <2>1, <2>3, <1>q DEF OnceAt
      <3>2. Outcomes(q)' <= 1
        BY <2>1, <2>3, <3>1, <1>t DEF Outcomes, LogTypes
      <3>3. \A j \in Caller : ~ (call'[j].at \in {"held", "dispatching"} /\ call'[j].on = q)
        BY <2>2, <3>1, <1>c, <1>q DEF OnceAt
      <3> QED
        BY <2>1, <3>1, <3>2, <3>3, <1>a DEF OnceAt
    <2>4. CASE q # r
      <3>1. sent'[q] = sent[q] /\ ended'[q] = ended[q]
        BY <2>1, <2>4, <1>t DEF LogTypes
      <3> QED
        BY <2>1, <2>2, <3>1, <1>a, <1>c, <1>q, OnceKept
    <2> QED
      BY <2>3, <2>4
  <1> QED
    BY <1>2, <1>3, <1>4, <1>6, <1>7, <1>8 DEF Approval

LEMMA OnceStep == GatewayTypeOK /\ AuthorityInv /\ Once /\ [Next]_vars => Once'
  <1> SUFFICES ASSUME GatewayTypeOK, AuthorityInv, Once, [Next]_vars PROVE Once'
    OBVIOUS
  <1>t. SubmitTypes
    BY TypesSplit
  <1>1. CASE Restart
    <2> SUFFICES ASSUME NEW q \in Req \ raced PROVE OnceAt(q)'
      BY <1>1 DEF Once, Restart
    <2>1. OnceAt(q)
      BY DEF Once
    <2>2. /\ Outcomes(q)' = Outcomes(q) /\ q \notin pending'
          /\ \A k \in Caller : call'[k].at = "idle"
          /\ at'[q] \in Early => at[q] \in Early
      BY <1>1, <1>t DEF Restart, logVars, Outcomes, Idle, Early, SubmitTypes
    <2> QED
      BY <2>1, <2>2 DEF OnceAt
  <1>2. CASE UNCHANGED vars
    <2>1. UNCHANGED <<at, pending, call, sent, ended, raced>>
      BY <1>2 DEF vars, submitVars, approvalVars, logVars, historyVars
    <2> QED
      BY <2>1, OnceKept DEF Once
  <1> QED
    BY <1>1, <1>2, OnceRequest, OnceApproval DEF Next

\* What DeferredIsKept says of one request.
Awaited(r) ==
  /\ r \in logged /\ Outcomes(r) = 0 =>
       \/ at[r] \in {"deferring", "dispatching"}
       \/ r \in pending
       \/ \E k \in Caller : call[k].at = "dispatching" /\ call[k].on = r
       \/ stalls > 0
  /\ r \in pending => at[r] = "noting" \/ r \in byCommand

LEMMA DeferredIs ==
  ASSUME LogTypes, ApprovalTypes
  PROVE  DeferredIsKept <=> (restarts = 0 => \A r \in Req : Awaited(r))
  BY DEF DeferredIsKept, Awaited, LogTypes, ApprovalTypes

\* A request that a step leaves as it is.
LEMMA AwaitedKept ==
  ASSUME NEW r \in Req, Awaited(r),
         UNCHANGED <<sent, ended>> \/ (sent'[r] = sent[r] /\ ended'[r] = ended[r]),
         r \in logged' => r \in logged,
         at'[r] = at[r] \/ at[r] \notin {"deferring", "dispatching", "noting"},
         r \in pending' <=> r \in pending,
         r \in byCommand => r \in byCommand',
         stalls > 0 => stalls' > 0,
         \A k \in Caller :
           call[k].at = "dispatching" /\ call[k].on = r =>
             call'[k].at = "dispatching" /\ call'[k].on = r
  PROVE  Awaited(r)'
  <1>1. Outcomes(r)' = Outcomes(r)
    BY DEF Outcomes
  <1> QED
    BY <1>1 DEF Awaited

LEMMA AwaitedRequest ==
  ASSUME GatewayTypeOK, NEW r \in Req, Request(r) \/ Tick(r),
         NEW q \in Req, Awaited(q)
  PROVE  Awaited(q)'
  <1>t. SubmitTypes /\ ApprovalTypes /\ LogTypes /\ OtherTypes
    BY TypesSplit
  <1>1. CASE Store(r)
    <2>1. CASE q = r
      BY <1>1, <2>1, <1>t DEF Store, ReqAt, Awaited, SubmitTypes, approvalVars
    <2>2. CASE q # r
      BY <1>1, <2>2, <1>t, AwaitedKept DEF Store, ReqAt, SubmitTypes, approvalVars, bounds
    <2> QED
      BY <2>1, <2>2
  <1>2. CASE Defer(r)
    <2>1. CASE q = r
      BY <1>2, <2>1, <1>t DEF Defer, ReqAt, Awaited, SubmitTypes
    <2>2. CASE q # r
      BY <1>2, <2>2, <1>t, AwaitedKept DEF Defer, ReqAt, SubmitTypes, logVars, bounds
    <2> QED
      BY <2>1, <2>2
  <1>3. CASE Note(r)
    <2>1. CASE q = r
      BY <1>3, <2>1, <1>t DEF Note, ReqAt, Awaited, SubmitTypes, logVars, bounds, Outcomes
    <2>2. CASE q # r
      BY <1>3, <2>2, <1>t, AwaitedKept DEF Note, ReqAt, SubmitTypes, logVars, bounds
    <2> QED
      BY <2>1, <2>2
  <1>4. CASE Dispatch(r)
    <2>1. CASE q = r
      <3>1. Outcomes(q)' # 0
        BY <1>4, <2>1, <1>t DEF Dispatch, Dispatched, Outcomes, LogTypes
      <3>2. /\ at[q] = "dispatching"
            /\ UNCHANGED <<pending, byCommand>>
        BY <1>4, <2>1 DEF Dispatch, ReqAt, approvalVars
      <3> QED
        BY <3>1, <3>2 DEF Awaited
    <2>2. CASE q # r
      <3>1. sent'[q] = sent[q] /\ ended'[q] = ended[q]
        BY <1>4, <2>2, <1>t DEF Dispatch, Dispatched, LogTypes
      <3> QED
        BY <1>4, <2>2, <3>1, <1>t, AwaitedKept
        DEF Dispatch, ReqAt, SubmitTypes, approvalVars, bounds
    <2> QED
      BY <2>1, <2>2
  <1>5. CASE DispatchLate(r)
    <2>1. stalls' > 0 /\ at[r] = "dispatching" /\ UNCHANGED <<pending, byCommand>>
      BY <1>5, <1>t DEF DispatchLate, Overslept, ReqAt, approvalVars, OtherTypes
    <2>2. at'[q] = at[q] \/ at[q] = "dispatching"
      BY <1>5, <1>t DEF DispatchLate, ReqAt, SubmitTypes
    <2> QED
      BY <2>1, <2>2 DEF Awaited
  <1>6. CASE Submit(r) \/ Hit(r) \/ Reject(r) \/ Remember(r) \/ Evict(r) \/ Pop(r)
    <2>1. /\ UNCHANGED <<pending, byCommand, call, sent, ended, logged, stalls>>
          /\ at[r] \in {"new", "hit", "asked", "keeping", "evicting", "popping"}
          /\ \E to \in Working \cup Answering \cup {"hit", "raised"} : at' = [at EXCEPT ![r] = to]
      BY <1>6 DEF Submit, Hit, Reject, Remember, Evict, Pop, ReqAt, approvalVars, logVars, bounds, Working,
         Answering
    <2> QED
      BY <2>1, <1>t, AwaitedKept DEF SubmitTypes
  <1>7. CASE Tick(r)
    BY <1>7, AwaitedKept DEF Tick, submitVars, logVars, bounds
  <1> QED
    BY <1>1, <1>2, <1>3, <1>4, <1>5, <1>6, <1>7 DEF Request

LEMMA AwaitedApproval ==
  ASSUME GatewayTypeOK, AuthorityInv, NEW k \in Caller, Approval(k),
         NEW q \in Req, Awaited(q)
  PROVE  Awaited(q)'
  <1>t. ApprovalTypes /\ LogTypes /\ OtherTypes
    BY TypesSplit
  <1>a. at' = at /\ logged' = logged
    BY DEF Approval, Begin, Expire, ExpireFails, Report, Look, Grant, Deny,
       DispatchGranted, submitVars, logVars
  <1>c. \A j \in Caller \ {k} : call'[j] = call[j]
    BY <1>t DEF Approval, Begin, Expire, ExpireFails, Report, Look, Grant, Deny,
       DispatchGranted, Ends, CallAt, ApprovalTypes
  <1>1. CASE Begin(k) \/ ExpireFails(k) \/ Report(k) \/ Look(k)
    <2>1. UNCHANGED <<pending, byCommand, sent, ended, stalls>> /\ call[k].at # "dispatching"
      BY <1>1 DEF Begin, ExpireFails, Report, Look, AfterRefusal, logVars, bounds
    <2> QED
      BY <2>1, <1>a, <1>c, AwaitedKept
  \* The approval that leaves has an outcome, or is being dispatched.
  <1>2. ASSUME NEW r \in Req, Leaves(k, r), call[k].at # "dispatching", sent' = sent,
               stalls' = stalls,
               ended' = ended \/ ended' = [ended EXCEPT ![r] = @ + 1],
               \/ ended' # ended
               \/ call'[k].at = "dispatching" /\ call'[k].on = r
        PROVE  Awaited(q)'
    <2>1. CASE q = r
      <3>1. q \notin pending'
        BY <1>2, <2>1 DEF Leaves
      <3>2. ended' = ended \/ Outcomes(q)' # 0
        BY <1>2, <2>1, <1>t DEF Outcomes, LogTypes
      <3> QED
        BY <1>2, <2>1, <3>1, <3>2 DEF Awaited
    <2>2. CASE q # r
      <3>1. /\ sent'[q] = sent[q] /\ ended'[q] = ended[q]
            /\ q \in pending' <=> q \in pending
            /\ q \in byCommand => q \in byCommand'
        BY <1>2, <2>2, <1>t DEF Leaves, LogTypes
      <3> QED
        BY <1>2, <3>1, <1>a, <1>c, AwaitedKept
    <2> QED
      BY <2>1, <2>2
  <1>3. ASSUME NEW r \in Req, ended' = [ended EXCEPT ![r] = @ + 1] PROVE ended' # ended
    <2>1. ended'[r] = ended[r] + 1 /\ ended[r] \in Nat
      BY <1>3, <1>t DEF LogTypes
    <2> QED
      BY <2>1
  <1>4. CASE Expire(k)
    <2>1. PICK r \in Req : Leaves(k, r) /\ ended' = [ended EXCEPT ![r] = @ + 1]
      BY <1>4, <1>t DEF Expire, ApprovalTypes
    <2>2. ended' # ended
      BY <2>1, <1>3
    <2> QED
      BY <1>2, <1>4, <2>1, <2>2 DEF Expire, bounds
  <1>5. CASE Grant(k) \/ Deny(k)
    <2>1. call[k].at = "held" /\ Leaves(k, call[k].on) /\ sent' = sent /\ stalls' = stalls
      BY <1>5 DEF Grant, Deny, CallAt, Decided, bounds
    <2>2. call[k].on \in Req
      BY <2>1 DEF AuthorityInv, CallInv, MayGrant, NeedsApproval
    <2>3. CASE Grant(k)
      <3>1. ended' = ended /\ call'[k].at = "dispatching" /\ call'[k].on = call[k].on
        BY <2>3, <1>t DEF Grant, CallAt, ApprovalTypes, Calls
      <3> QED
        BY <1>2, <2>1, <2>2, <3>1
    <2>4. CASE Deny(k)
      <3>1. ended' = [ended EXCEPT ![call[k].on] = @ + 1]
        BY <2>4 DEF Deny
      <3>2. ended' # ended
        BY <3>1, <2>2, <1>3
      <3> QED
        BY <1>2, <2>1, <2>2, <3>1, <3>2
    <2> QED
      BY <1>5, <2>3, <2>4
  <1>6. CASE DispatchGranted(k)
    <2>1. /\ call[k].at = "dispatching"
          /\ UNCHANGED <<pending, byCommand>>
      BY <1>6 DEF DispatchGranted
    <2>2. PICK r \in Req : r = call[k].on
      BY <2>1 DEF AuthorityInv, CallInv, MayGrant, NeedsApproval
    <2>3. CASE Overslept(r)
      <3>1. stalls' > 0
        BY <2>3, <1>t DEF Overslept, OtherTypes
      <3> QED
        BY <3>1, <2>1, <1>a DEF Awaited
    <2>4. CASE Dispatched(r) /\ stalls' = stalls
      <3>1. Outcomes(r)' # 0
        BY <2>2, <2>4, <1>t DEF Dispatched, Outcomes, LogTypes
      <3>2. CASE q = r
        BY <2>1, <2>2, <3>1, <3>2, <1>a DEF Awaited
      <3>3. CASE q # r
        <4>1. sent'[q] = sent[q] /\ ended'[q] = ended[q]
          BY <2>4, <3>3, <1>t DEF Dispatched, LogTypes
        <4> QED
          BY <2>1, <2>2, <2>4, <3>3, <4>1, <1>a, <1>c, AwaitedKept
      <3> QED
        BY <3>2, <3>3
    <2> QED
      BY <1>6, <2>2, <2>3, <2>4 DEF DispatchGranted
  <1> QED
    BY <1>1, <1>4, <1>5, <1>6 DEF Approval

LEMMA DeferredStep ==
  ASSUME GatewayTypeOK, GatewayTypeOK', AuthorityInv, DeferredIsKept, [Next]_vars
  PROVE  DeferredIsKept'
  <1>t. ApprovalTypes /\ LogTypes /\ OtherTypes /\ ApprovalTypes' /\ LogTypes'
    BY TypesSplit DEF GatewayTypeOK, ApprovalTypes, LogTypes
  <1>1. SUFFICES ASSUME restarts' = 0, NEW q \in Req PROVE Awaited(q)'
    <2>1. DeferredIsKept' <=> (restarts' = 0 => \A r \in Req : Awaited(r)')
      BY <1>t DEF DeferredIsKept, Awaited, LogTypes, ApprovalTypes
    <2> QED
      BY <2>1
  <1>2. ~ Restart
    BY <1>1, <1>t DEF Restart, OtherTypes
  <1>3. restarts' = restarts
    BY <1>2 DEF Next, Request, Submit, Hit, Reject, Store, Defer, Note, Dispatch, DispatchLate,
       Remember, Evict, Pop, Overslept, Tick, Approval, Begin, Expire, ExpireFails, Report, Look, Grant, Deny,
       DispatchGranted, vars, bounds
  <1>4. Awaited(q)
    BY <1>1, <1>3, <1>t, DeferredIs
  <1>5. CASE UNCHANGED vars
    <2>1. UNCHANGED <<at, pending, byCommand, call, logged, sent, ended, stalls>>
      BY <1>5 DEF vars, submitVars, approvalVars, logVars, bounds
    <2> QED
      BY <2>1, <1>4, AwaitedKept
  <1> QED
    BY <1>2, <1>4, <1>5, AwaitedRequest, AwaitedApproval DEF Next

(***************************************************************************)
(* One answer per key.                                                     *)
(***************************************************************************)

\* The requests that a sequence has under a key; Kept is that of the cache.
Entries(key, s) == {s[i] : i \in {j \in 1..Len(s) : ask[s[j]].key = key}}

LEMMA KeptEntries == ASSUME NEW key PROVE Kept(key) = Entries(key, cache)
  BY DEF Kept, Remembered, Entries

LEMMA KeptEntriesNext ==
  ASSUME ask' = ask, NEW key, NEW s, cache' = s
  PROVE  Kept(key)' = Entries(key, s)
  BY DEF Kept, Remembered, Entries

\* What is stored under one key leaves the others alone ...
LEMMA StoredElsewhere ==
  ASSUME cache \in Seq(Req), NEW r \in Req, NEW key, key # ask[r].key
  PROVE  Entries(key, Stored(r)) = Entries(key, cache)
  <1> DEFINE found == Remembered(ask[r].key)
  <1>1. CASE found = {}
    <2>1. Stored(r) = Append(cache, r)
      BY <1>1 DEF Stored
    <2>2. /\ Len(Stored(r)) = Len(cache) + 1
          /\ \A i \in 1..Len(cache) : Stored(r)[i] = cache[i]
          /\ Stored(r)[Len(cache) + 1] = r
          /\ Len(cache) \in Nat
      BY <2>1, AppendProperties, LenProperties
    <2> QED
      BY <2>2 DEF Entries
  <1>2. CASE found # {}
    <2>1. Stored(r) = [i \in 1..Len(cache) |-> IF i \in found THEN r ELSE cache[i]]
      BY <1>2 DEF Stored
    <2>2. Len(cache) \in Nat /\ \A i \in 1..Len(cache) : cache[i] \in Req
      BY ElementOfSeq, LenProperties
    <2>3. Stored(r) \in [1..Len(cache) -> Req]
      BY <2>1, <2>2
    <2>4. Len(Stored(r)) = Len(cache)
      BY <2>2, <2>3, SeqDef, LenProperties
    <2>5. \A i \in 1..Len(cache) : ask[Stored(r)[i]].key = ask[cache[i]].key
      BY <2>1 DEF Remembered
    <2>6. \A i \in 1..Len(cache) : ask[cache[i]].key = key => Stored(r)[i] = cache[i]
      BY <2>1 DEF Remembered
    <2> QED
      BY <2>4, <2>5, <2>6 DEF Entries
  <1> QED
    BY <1>1, <1>2

\* ... and a key that is new has the one entry.
LEMMA StoredHere ==
  ASSUME cache \in Seq(Req), NEW r \in Req, Kept(ask[r].key) = {}
  PROVE  Entries(ask[r].key, Stored(r)) = {r}
  <1>1. Remembered(ask[r].key) = {}
    BY DEF Kept
  <1>2. Stored(r) = Append(cache, r)
    BY <1>1 DEF Stored
  <1>3. /\ Len(Stored(r)) = Len(cache) + 1
        /\ \A i \in 1..Len(cache) : Stored(r)[i] = cache[i]
        /\ Stored(r)[Len(cache) + 1] = r
        /\ Len(cache) \in Nat
    BY <1>2, AppendProperties, LenProperties
  <1>4. \A i \in 1..Len(cache) : ask[Stored(r)[i]].key # ask[r].key
    BY <1>1, <1>3 DEF Remembered
  <1>5. {j \in 1..Len(Stored(r)) : ask[Stored(r)[j]].key = ask[r].key} = {Len(cache) + 1}
    BY <1>3, <1>4
  <1> QED
    BY <1>3, <1>5 DEF Entries

\* The oldest entry is evicted.
LEMMA TailEntries ==
  ASSUME NEW s \in Seq(Req), s # <<>>, NEW key, key # ask[Head(s)].key
  PROVE  Entries(key, Tail(s)) = Entries(key, s)
  <1>1. /\ Len(s) \in Nat
        /\ Len(Tail(s)) = Len(s) - 1
        /\ Head(s) = s[1]
        /\ \A i \in 1..Len(s) - 1 : Tail(s)[i] = s[i + 1]
    BY HeadTailProperties, LenProperties
  <1>2. \A i \in 1..Len(s) : ask[s[i]].key = key =>
          i - 1 \in 1..Len(s) - 1 /\ Tail(s)[i - 1] = s[i]
    <2> SUFFICES ASSUME NEW i \in 1..Len(s), ask[s[i]].key = key
                 PROVE  i - 1 \in 1..Len(s) - 1 /\ Tail(s)[i - 1] = s[i]
      OBVIOUS
    <2>1. i # 1
      BY <1>1
    <2>2. i - 1 \in 1..Len(s) - 1 /\ (i - 1) + 1 = i
      BY <2>1, <1>1
    <2> QED
      BY <2>2, <1>1
  <1>3. Entries(key, s) \subseteq Entries(key, Tail(s))
    <2> SUFFICES ASSUME NEW i \in 1..Len(s), ask[s[i]].key = key
                 PROVE  s[i] \in Entries(key, Tail(s))
      BY DEF Entries
    <2>1. i - 1 \in 1..Len(Tail(s)) /\ Tail(s)[i - 1] = s[i]
      BY <1>1, <1>2
    <2> QED
      BY <2>1 DEF Entries
  <1>4. Entries(key, Tail(s)) \subseteq Entries(key, s)
    <2> SUFFICES ASSUME NEW i \in 1..Len(s) - 1, ask[Tail(s)[i]].key = key
                 PROVE  Tail(s)[i] \in Entries(key, s)
      BY <1>1 DEF Entries
    <2>1. i + 1 \in 1..Len(s) /\ Tail(s)[i] = s[i + 1]
      BY <1>1
    <2> QED
      BY <2>1 DEF Entries
  <1> QED
    BY <1>3, <1>4

\* What RetryInv says of one key.
OneAnswer(key) ==
  /\ \A q, r \in Under(key) : at[q] \in Working /\ at[r] \in Working => q = r
  /\ Kept(key) # {} => \A r \in Under(key) : at[r] \notin Working
  /\ \A q, r \in Kept(key) : q = r
  /\ \A r \in Under(key) : at[r] \in Answering => told[r] \in Kept(key)

LEMMA RetryIs == RetryInv <=> \A key \in Key \ blurred : OneAnswer(key)
  BY Zenon DEF RetryInv, OneAnswer

LEMMA InitRetry == Init => RetryInv
  <1> SUFFICES ASSUME Init, NEW key \in Key \ blurred PROVE OneAnswer(key)
    BY RetryIs
  <1>1. Len(cache) = 0
    BY EmptySeq DEF Init
  <1>2. Kept(key) = {}
    BY <1>1 DEF Kept, Remembered
  <1>3. \A q \in Under(key) : at[q] = "new"
    BY DEF Init, Under
  <1> QED
    BY <1>2, <1>3 DEF OneAnswer, Working, Answering

\* Nobody starts to work on the key, and nobody is told anything.
LEMMA OneAnswerKept ==
  ASSUME NEW key, OneAnswer(key), ask' = ask, cache' = cache,
         \A q \in Req : at'[q] \in Working => at[q] \in Working,
         \A q \in Req : at'[q] \in Answering => at[q] \in Answering /\ told'[q] = told[q]
  PROVE  OneAnswer(key)'
  <1>1. Kept(key)' = Kept(key) /\ Under(key)' = Under(key)
    BY DEF Kept, Remembered, Under
  <1> QED
    BY <1>1 DEF OneAnswer, Under

LEMMA RetryRequest ==
  ASSUME GatewayTypeOK, RetryInv, NEW r \in Req, Request(r) \/ Tick(r)
  PROVE  RetryInv'
  <1>t. SubmitTypes
    BY TypesSplit
  <1>a. ask' = ask /\ blurred \subseteq blurred'
    BY DEF Request, Submit, Hit, Reject, Store, Defer, Note, Dispatch, DispatchLate, Remember, Evict,
       Pop, Tick, submitVars, historyVars
  <1> SUFFICES ASSUME NEW key \in Key \ blurred' PROVE OneAnswer(key)'
    BY DEF RetryInv, OneAnswer
  <1>k. OneAnswer(key)
    BY <1>a, RetryIs
  <1>u. Under(key)' = Under(key)
    BY <1>a DEF Under
  <1>1. CASE Submit(r)
    <2>1. UNCHANGED <<cache, told>> /\ at[r] = "new"
      BY <1>1 DEF Submit, ReqAt
    <2>2. CASE at' = [at EXCEPT ![r] = "hit"]
      BY <2>1, <2>2, <1>a, <1>k, <1>t, OneAnswerKept DEF SubmitTypes, Working, Answering
    <2>3. CASE at' = [at EXCEPT ![r] = "asked"] /\ Remembered(ask[r].key) = {}
      <3>1. CASE ask[r].key = key
        <4>1. \A q \in Under(key) : at[q] \notin Working
          BY <1>1, <3>1 DEF Submit
        <4>2. Kept(key) = {} /\ Kept(key)' = {}
          BY <1>a, <2>1, <2>3, <3>1 DEF Kept, Remembered
        <4>3. \A q \in Under(key) : q # r => at'[q] = at[q]
          BY <2>3, <1>t DEF SubmitTypes
        <4>4. at'[r] = "asked"
          BY <2>3, <1>t DEF SubmitTypes
        <4>5. "asked" \notin Answering /\ \A q \in Req : told'[q] = told[q]
          BY <2>1 DEF Answering
        <4> QED
          BY <4>1, <4>2, <4>3, <4>4, <4>5, <1>k, <1>u DEF OneAnswer
      <3>2. CASE ask[r].key # key
        <4>1. \A q \in Under(key) : at'[q] = at[q]
          BY <2>3, <3>2, <1>t DEF SubmitTypes, Under
        <4>2. Kept(key)' = Kept(key)
          BY <1>a, <2>1 DEF Kept, Remembered
        <4> QED
          BY <4>1, <4>2, <2>1, <1>k, <1>u DEF OneAnswer
      <3> QED
        BY <3>1, <3>2
    <2> QED
      BY <1>1, <2>2, <2>3 DEF Submit, ReqAt
  <1>2. CASE Hit(r)
    <2>1. cache' = cache /\ at[r] = "hit"
      BY <1>2 DEF Hit, ReqAt
    <2>2. CASE at' = [at EXCEPT ![r] = "raised"] /\ told' = told
      BY <2>1, <2>2, <1>a, <1>k, <1>t, OneAnswerKept DEF SubmitTypes, Working, Answering
    <2>3. ASSUME at' = [at EXCEPT ![r] = "answered"],
                 NEW i \in Remembered(ask[r].key), told' = [told EXCEPT ![r] = cache[i]]
          PROVE  OneAnswer(key)'
      <3>1. Kept(key)' = Kept(key)
        BY <1>a, <2>1 DEF Kept, Remembered
      <3>2. \A q \in Req \ {r} : at'[q] = at[q] /\ told'[q] = told[q]
        BY <2>3, <1>t DEF SubmitTypes
      <3>3. at'[r] = "answered" /\ told'[r] = cache[i]
        BY <2>3, <1>t DEF SubmitTypes
      <3>4. ask[r].key = key => told'[r] \in Kept(key)
        BY <3>3 DEF Kept
      <3>5. \A q \in Under(key) : q \in Req /\ ask[q].key = key
        BY DEF Under
      <3>6. "answered" \notin Working
        BY DEF Working
      <3>7. \A q \in Req : at'[q] \in Working => at[q] \in Working
        BY <3>2, <3>3, <3>6
      <3>8. \A q \in Under(key) : at'[q] \in Answering => told'[q] \in Kept(key)
        BY <3>2, <3>4, <3>5, <1>k DEF OneAnswer
      <3> QED
        BY <3>1, <3>5, <3>7, <3>8, <1>k, <1>u DEF OneAnswer
    <2> QED
      BY <1>2, <2>2, <2>3 DEF Hit, ReqAt
  <1>3. CASE Remember(r)
    <2>1. /\ at[r] = "keeping" /\ \E to \in {"evicting", "answered"} : at' = [at EXCEPT ![r] = to]
          /\ told' = [told EXCEPT ![r] = r]
      BY <1>3 DEF Remember, ReqAt
    <2>2. at[r] \in Working /\ at'[r] \notin Working /\ at'[r] \in Answering /\ told'[r] = r
      BY <2>1, <1>t DEF SubmitTypes, Working, Answering
    <2>3. \A q \in Req \ {r} : at'[q] = at[q] /\ told'[q] = told[q]
      BY <2>1, <1>t DEF SubmitTypes
    <2>4. \A q \in Under(key) : q \in Req /\ ask[q].key = key
      BY DEF Under
    \* Under another key, and without one, nothing changes.
    <2>5. ASSUME ask[r].key # key, Kept(key)' = Kept(key) PROVE OneAnswer(key)'
      BY <2>5, <2>3, <2>4, <1>k, <1>u DEF OneAnswer
    <2>6. CASE Forgets(r)
      <3>1. ask[r].key # key
        BY <2>6, GatewayAssumption DEF Forgets
      <3>2. Kept(key)' = Kept(key)
        BY <1>3, <2>6, <1>a DEF Remember, Kept, Remembered
      <3> QED
        BY <3>1, <3>2, <2>5
    <2>7. CASE ~ Forgets(r)
      <3>1. cache \in Seq(Req)
        BY <1>t DEF SubmitTypes
      <3>2. Kept(key)' = Entries(key, Stored(r))
        BY <1>3, <2>7, <1>a, KeptEntriesNext DEF Remember
      <3>3. CASE ask[r].key # key
        <4>1. Kept(key)' = Kept(key)
          BY <3>1, <3>2, <3>3, StoredElsewhere, KeptEntries
        <4> QED
          BY <3>3, <4>1, <2>5
      <3>4. CASE ask[r].key = key
        <4>1. r \in Under(key)
          BY <3>4 DEF Under
        <4>2. Kept(key) = {}
          BY <4>1, <2>2, <1>k DEF OneAnswer
        <4>3. Kept(key)' = {r}
          BY <3>1, <3>2, <3>4, <4>2, StoredHere
        <4>4. \A q \in Under(key) : at'[q] \notin Working
          BY <4>1, <2>2, <2>3, <2>4, <1>k DEF OneAnswer
        <4>5. \A q \in Under(key) : at'[q] \in Answering => q = r
          BY <4>2, <2>3, <2>4, <1>k DEF OneAnswer
        <4> QED
          BY <4>3, <4>4, <4>5, <2>2, <1>u DEF OneAnswer
      <3> QED
        BY <3>3, <3>4
    <2> QED
      BY <2>6, <2>7
  <1>4. CASE Reject(r) \/ Store(r) \/ Defer(r) \/ Note(r) \/ Dispatch(r) \/ DispatchLate(r)
    <2>1. /\ UNCHANGED <<told, cache>> /\ at[r] \in Working
          /\ \E to \in Working \cup {"raised"} : at' = [at EXCEPT ![r] = to]
      BY <1>4 DEF Reject, Store, Defer, Note, Dispatch, DispatchLate, ReqAt, Working
    <2>2. \A q \in Req : at'[q] \in Working => at[q] \in Working
      BY <2>1, <1>t DEF SubmitTypes
    <2>3. \A q \in Req : at'[q] \in Answering => at[q] \in Answering
      BY <2>1, <1>t DEF SubmitTypes, Working, Answering
    <2> QED
      BY <2>1, <2>2, <2>3, <1>a, <1>k, OneAnswerKept
  <1>5. CASE Tick(r)
    BY <1>5, <1>k, OneAnswerKept DEF Tick, submitVars
  \* The thread that trims has its answer: what goes is that of another key.
  <1>6. CASE Evict(r)
    <2>1. UNCHANGED <<told, cache>> /\ at[r] = "evicting"
      BY <1>6 DEF Evict, ReqAt
    <2>2. PICK to \in {"popping", "answered"} : at' = [at EXCEPT ![r] = to]
      BY <1>6 DEF Evict, ReqAt
    <2>3. \A q \in Req : at'[q] \in Working => at[q] \in Working
      BY <2>2, <1>t DEF SubmitTypes, Working
    <2>4. \A q \in Req : at'[q] \in Answering => at[q] \in Answering
      BY <2>1, <2>2, <1>t DEF SubmitTypes, Answering
    <2> QED
      BY <2>1, <2>3, <2>4, <1>a, <1>k, OneAnswerKept
  <1>7. CASE Pop(r)
    <2>1. told' = told /\ at[r] = "popping"
      BY <1>7 DEF Pop, ReqAt
    <2>2. PICK to \in {"evicting", "raised"} : at' = [at EXCEPT ![r] = to]
      BY <1>7 DEF Pop, ReqAt
    <2>3. \A q \in Req : at'[q] \in Working => at[q] \in Working
      BY <2>2, <1>t DEF SubmitTypes, Working
    <2>4. \A q \in Req : at'[q] \in Answering => at[q] \in Answering
      BY <2>1, <2>2, <1>t DEF SubmitTypes, Answering
    <2>5. Kept(key)' = Kept(key)
      <3>1. CASE cache = <<>>
        BY <1>7, <1>a, <3>1 DEF Pop, Kept, Remembered
      <3>2. CASE cache # <<>>
        <4>1. cache' = Tail(cache) /\ key # ask[Head(cache)].key
          BY <1>7, <3>2 DEF Pop
        <4>2. Kept(key)' = Entries(key, Tail(cache))
          BY <4>1, <1>a, KeptEntriesNext
        <4>3. cache \in Seq(Req)
          BY <1>t DEF SubmitTypes
        <4> QED
          BY <3>2, <4>1, <4>2, <4>3, TailEntries, KeptEntries
      <3> QED
        BY <3>1, <3>2
    <2>6. \A q \in Under(key) : q \in Req
      BY DEF Under
    <2> QED
      BY <2>1, <2>3, <2>4, <2>5, <2>6, <1>k, <1>u DEF OneAnswer
  <1> QED
    BY <1>1, <1>2, <1>3, <1>4, <1>5, <1>6, <1>7 DEF Request

LEMMA RetryStep == GatewayTypeOK /\ RetryInv /\ [Next]_vars => RetryInv'
  <1> SUFFICES ASSUME GatewayTypeOK, RetryInv, [Next]_vars PROVE RetryInv'
    OBVIOUS
  <1>1. ASSUME UNCHANGED <<ask, at, told, cache, blurred>> PROVE RetryInv'
    BY <1>1, OneAnswerKept, RetryIs DEF RetryInv, OneAnswer
  <1>2. ASSUME NEW k \in Caller, Approval(k) PROVE RetryInv'
    BY <1>1, <1>2 DEF Approval, Begin, Expire, ExpireFails, Report, Look, Grant, Deny,
       DispatchGranted, submitVars, historyVars
  <1>3. CASE Restart
    BY <1>3 DEF Restart, RetryInv
  <1>4. CASE UNCHANGED vars
    BY <1>1, <1>4 DEF vars, submitVars, historyVars
  <1> QED
    BY <1>2, <1>3, <1>4, RetryRequest DEF Next

\* Who uses the key was told what the cache has, and it has one thing.
LEMMA RetryAgrees == RetryInv => AnswersAgree
  <1> SUFFICES ASSUME RetryInv, NEW q \in Req, NEW r \in Req,
                      ask[q].key = ask[r].key, ask[r].key \in Key \ blurred,
                      at[q] = "answered", at[r] = "answered"
               PROVE  told[q] = told[r]
    BY DEF AnswersAgree
  <1> DEFINE key == ask[r].key
  <1>1. OneAnswer(key) /\ q \in Under(key) /\ r \in Under(key)
    BY RetryIs DEF Under
  <1> QED
    BY <1>1 DEF OneAnswer, Answering

(***************************************************************************)
(* The theorems.                                                           *)
(***************************************************************************)
GatewayInv == GatewayTypeOK /\ AuthorityInv /\ Once /\ DeferredIsKept /\ RetryInv

LEMMA GatewayInvInit == Init => GatewayInv
  <1>1. Init => DeferredIsKept
    BY DEF Init, DeferredIsKept
  <1> QED
    BY <1>1, InitTypes, InitAuthority, InitOnce, InitRetry DEF GatewayInv

LEMMA GatewayInvStep == GatewayInv /\ [Next]_vars => GatewayInv'
  <1> SUFFICES ASSUME GatewayInv, [Next]_vars PROVE GatewayInv'
    OBVIOUS
  <1>1. GatewayTypeOK /\ AuthorityInv /\ Once /\ DeferredIsKept /\ RetryInv
    BY DEF GatewayInv
  <1>2. GatewayTypeOK'
    <2>1. SubmitTypes' /\ ApprovalTypes' /\ LogTypes' /\ OtherTypes'
      BY <1>1, SubmitStep, ApprovalStep, LogStep, OtherStep
    <2> QED
      BY <2>1 DEF GatewayTypeOK, SubmitTypes, ApprovalTypes, LogTypes, OtherTypes
  <1>3. AuthorityInv'
    BY <1>1, SubmitInvStep, PendingStep, CallInvStep, AuthorizedStep DEF AuthorityInv
  <1>4. Once' /\ DeferredIsKept' /\ RetryInv'
    BY <1>1, <1>2, OnceStep, DeferredStep, RetryStep
  <1> QED
    BY <1>2, <1>3, <1>4 DEF GatewayInv

LEMMA GatewayInvariant == Spec => []GatewayInv
  BY GatewayInvInit, GatewayInvStep, PTL DEF Spec

\* Every reachable state of the gate is well typed, and its cache is over its
\* capacity only while a thread has still to trim it (commands.py:112-115).
THEOREM GatewayTypeCorrect == Spec => []GatewayTypeOK
  <1>1. GatewayInv => GatewayTypeOK
    BY DEF GatewayInv
  <1> QED
    BY <1>1, GatewayInvariant, PTL

\* Nothing reaches a module above the ceiling of its path, and nothing above
\* the authority of who asks without a grant of another human, whatever the
\* threads of the API do at once (policy.py:61-90).
THEOREM AuthoritySafe == Spec => []Authorized
  <1>1. GatewayInv => Authorized
    BY DEF GatewayInv, AuthorityInv
  <1> QED
    BY <1>1, GatewayInvariant, PTL

\* A request has one outcome at most and waits where somebody decides it until it
\* has one, whoever submits, approves, denies and expires, as long as no two
\* decisions of one approval overlap (authority/__init__.py:52-136).
THEOREM OutcomeSafe == Spec => []OutcomeInv
  <1>1. GatewayInv => OutcomeInv
    BY OnceIs DEF GatewayInv, OutcomeInv
  <1> QED
    BY <1>1, GatewayInvariant, PTL

\* Retries that come one after the other are told of the same command, whatever
\* threads with other keys submit, fill and trim meanwhile.  Not of a key with
\* which two threads overlapped, whose dispatch timed out, whose entry was
\* evicted, or that was used before a restart (commands.py:108-116).
THEOREM RetriesSafe == Spec => []SameAnswer
  <1>1. GatewayInv => SameAnswer
    BY RetryAgrees DEF GatewayInv, SameAnswer
  <1> QED
    BY <1>1, GatewayInvariant, PTL
==============================================================================
