----------------------------- MODULE EventStream -----------------------------
(***************************************************************************)
(* GET /v1/events: the server-sent-event stream of the hub (_sse in        *)
(* uii/hub/api.py) over the evidence store, and a client that reconnects   *)
(* with the id of the last event it saw.                                   *)
(*                                                                         *)
(* A handler subscribes first, then sends the stored envelopes after the   *)
(* client's id, at most BacklogLimit of them, then forwards its queue for  *)
(* ever.  Clients without a kind filter; one subscriber queue per client.  *)
(***************************************************************************)
EXTENDS EvidenceStore, FiniteSetsExt

CONSTANTS
  BacklogLimit,  \* rows the backlog query returns at most (500 in the code)
  MaxHangups     \* bound: connections that the client or the network drops

ASSUME StreamAssumption == BacklogLimit \in Nat \ {0} /\ MaxHangups \in Nat

VARIABLES
  mode,      \* what the handler of each client is doing
  lastId,    \* the id of the last event the client has seen
  got,       \* the sequence numbers the client has been sent
  missed,    \* clients whose queue was full at a publish, or whose backlog
             \* was cut at the limit
  hangups

clientVars == <<mode, lastId, got, missed, hangups>>
streamVars == <<vars, clientVars>>

StreamInit ==
  /\ Init
  /\ mode = [c \in Queue |-> "off"]
  /\ lastId = [c \in Queue |-> 0]
  /\ got = [c \in Queue |-> {}]
  /\ missed = {}
  /\ hangups = 0

------------------------------------------------------------------------------
\* The handler subscribes before it reads the store.
Connect(c) ==
  /\ mode[c] = "off"
  /\ Subscribe(c)
  /\ mode' = [mode EXCEPT ![c] = "backlog"]
  /\ UNCHANGED <<lastId, got, missed, hangups>>

\* Mutant: the query begins one row too late.
AfterNext(c) == lastId[c] + 2

FirstRow(c) == lastId[c] + 1

Newest(c) == Min({Len(db), lastId[c] + BacklogLimit})

\* Mutant: an envelope without a number is written like any other.
NothingUnnumbered(c) == {}

\* The rows of the backlog query; reading takes no lock, and a row whose body
\* has no "sequence" yet raises KeyError in _sse_write.
Unnumbered(c) == {i \in FirstRow(c)..Newest(c) : db[i].sequence = 0}

\* The rows that can be written before a frame fails.
Writable(c) ==
  LET bad == Unnumbered(c)
  IN  FirstRow(c)..(IF bad = {} THEN Newest(c) ELSE Min(bad) - 1)

Send(c, rows) ==
  /\ got' = [got EXCEPT ![c] = @ \cup rows]
  /\ lastId' = [lastId EXCEPT ![c] = IF rows = {} THEN @ ELSE Max(rows)]

Backlog(c) ==
  /\ mode[c] = "backlog"
  /\ Send(c, Writable(c))
  /\ mode' = [mode EXCEPT ![c] = IF Unnumbered(c) = {} THEN "live" ELSE "closing"]
  /\ missed' = IF Len(db) > Newest(c) THEN missed \cup {c} ELSE missed
  /\ UNCHANGED <<vars, hangups>>

\* One event from the queue to the client.
Forward(c) ==
  /\ mode[c] = "live"
  /\ Take(c)
  /\ Send(c, {Head(queues[c])})
  /\ UNCHANGED <<mode, missed, hangups>>

\* The connection breaks: while the backlog is written, after some of its
\* frames; while live, between two events.
Hangup(c) ==
  /\ mode[c] \in {"backlog", "live"}
  /\ hangups < MaxHangups
  /\ hangups' = hangups + 1
  /\ IF mode[c] = "backlog"
     THEN \E n \in Writable(c) \cup {lastId[c]} : Send(c, Writable(c) \cap 1..n)
     ELSE UNCHANGED <<lastId, got>>
  /\ mode' = [mode EXCEPT ![c] = "closing"]
  /\ UNCHANGED <<vars, missed>>

\* Mutant: a handler that ends keeps its queue subscribed.
CloseLeaks(c) ==
  /\ mode[c] = "closing"
  /\ mode' = [mode EXCEPT ![c] = "off"]
  /\ UNCHANGED <<vars, lastId, got, missed, hangups>>

\* The handler's "finally".
Close(c) ==
  /\ mode[c] = "closing"
  /\ Unsubscribe(c)
  /\ mode' = [mode EXCEPT ![c] = "off"]
  /\ UNCHANGED <<lastId, got, missed, hangups>>

\* The steps of the store, with the losses of a publish written down.
Full == {c \in DOMAIN queues : Len(queues[c]) = QueueCap}

StoreStep ==
  /\ \E t \in Thread :
       \/ Append_(t) /\ missed' = IF pc[t] = "publish" THEN missed \cup Full ELSE missed
       \/ WriteFails(t) /\ UNCHANGED missed
  /\ UNCHANGED <<mode, lastId, got, hangups>>

\* A restart of the hub ends every connection; clients keep what they saw.
Restart ==
  /\ Reopen
  /\ mode' = [c \in Queue |-> "off"]
  /\ UNCHANGED <<lastId, got, missed, hangups>>

StreamNext ==
  \/ StoreStep
  \/ Restart
  \/ \E c \in Queue : Connect(c) \/ Backlog(c) \/ Forward(c) \/ Hangup(c) \/ Close(c)

StreamSpec == StreamInit /\ [][StreamNext]_streamVars

\* Threads finish what they began, handlers are scheduled, and a client whose
\* connection ended connects again.
StreamFairness ==
  /\ \A t \in Thread : WF_streamVars(Append_(t) /\ StoreStep)
  /\ \A c \in Queue : WF_streamVars(Connect(c) \/ Backlog(c) \/ Forward(c) \/ Close(c))

FairStreamSpec == StreamSpec /\ StreamFairness

------------------------------------------------------------------------------
StreamTypeOK ==
  /\ mode \in [Queue -> {"off", "backlog", "live", "closing"}]
  /\ lastId \in [Queue -> Nat]
  /\ got \in [Queue -> SUBSET Nat]
  /\ missed \subseteq Queue
  /\ \A c \in Queue : mode[c] # "off" <=> c \in DOMAIN queues

\* Subscribing before querying leaves no hole between the backlog and the live
\* events: a client that lost nothing to a full queue or to the backlog's limit
\* has everything before anything it has seen, across reconnects and restarts, as
\* long as no write has failed (a failed commit may leave a row that the next one
\* commits and that is never offered to the queues).
GapFree ==
  faults = 0 => \A c \in Queue \ missed : \A n \in got[c] : 1..n \subseteq got[c]

\* Only committed envelopes are ever shown to a client, whatever happens to the
\* hub afterwards.
ShownIsCommitted == \A c \in Queue : got[c] \subseteq 1..Len(disk)

\* The id a client comes back with is one it was shown.
LastIsShown == \A c \in Queue : lastId[c] = 0 \/ lastId[c] \in got[c]

\* A number is given to a row only when the row is committed: so that a row that
\* can be written to a client can be lost no more.
NumberedIsCommitted == \A i \in 1..Len(db) : db[i].sequence # 0 => i <= Len(disk)

\* No queue outgrows its capacity.
QueuesBounded == \A q \in DOMAIN queues : Len(queues[q]) <= QueueCap

\* The rows that have been offered to the queues, or will never be: all of them
\* but the one an append is still about.
Published == IF \E t \in Thread : pc[t] \in Writing THEN Len(db) - 1 ELSE Len(db)

\* Nothing is missing in the queue of a handler up to what was published last.
Ends(queue) == \A i \in 1..Len(queue) : queue[i] = Published - Len(queue) + i

\* What a client has seen is all of the log up to a place n, and while its handler
\* is live the queue has what follows.
Caught(c) ==
  /\ mode[c] \in {"backlog", "live"} => Ends(queues[c])
  /\ \E n \in 0..Len(disk) :
       /\ got[c] = 1..n
       /\ lastId[c] <= n
       /\ mode[c] = "live" => Published - Len(queues[c]) <= n

NoHoles == faults = 0 => \A c \in Queue \ missed : Caught(c)

\* The types of the state, what a client has been shown, and what is still on its
\* way to it: each client that is connected has a queue of the store, and no other.
StreamInv ==
  /\ StreamTypeOK
  /\ ShownIsCommitted
  /\ LastIsShown
  /\ NumberedIsCommitted
  /\ QueuesBounded
  /\ NoHoles

\* An envelope that is committed, with all those before it numbered, reaches
\* every client that keeps reconnecting, unless it was lost to a limit.  (After
\* a failed commit an envelope can become durable without being published.)
Delivered ==
  \A c \in Queue, n \in 1..MaxAppends :
    (n <= Len(disk) /\ \A i \in 1..n : disk[i].sequence = i)
      ~> (n \in got[c] \/ c \in missed \/ faults > 0)
==============================================================================
