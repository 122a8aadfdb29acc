---------------------------- MODULE EvidenceStore ----------------------------
(***************************************************************************)
(* The evidence store of the hub (uii/hub/evidence.py): append() with its  *)
(* two SQLite transactions, the in-memory head of the hash chain, the      *)
(* fan-out to bounded subscriber queues, and what a crash of the process   *)
(* or a failing write leaves behind.                                       *)
(*                                                                         *)
(* append() holds the store's lock for its whole critical section, but     *)
(* the section is not atomic to the outside: readers use the connection    *)
(* without the lock, the process can die between its steps, and each       *)
(* SQLite call can raise.  Every step that can be separated is an action   *)
(* of its own.                                                             *)
(***************************************************************************)
EXTENDS Integers, Sequences, FiniteSets

CONSTANTS
  Thread,      \* threads of the hub that call append()
  NoThread,    \* the lock's value when nobody holds it
  Queue,       \* subscriber queues that subscribe() can hand out
  QueueCap,    \* capacity of a subscriber queue (1000 in the code)
  MaxAppends,  \* bound: calls of append() that reach the critical section
  MaxCrashes,  \* bound: deaths of the hub process
  MaxFaults    \* bound: SQLite calls that raise

ASSUME ThreadAssumption == NoThread \notin Thread
ASSUME BoundAssumption ==
  /\ QueueCap \in Nat \ {0}
  /\ MaxAppends \in Nat
  /\ MaxCrashes \in Nat
  /\ MaxFaults \in Nat

VARIABLES
  db,        \* the rows as the shared connection sees them
  disk,      \* the rows that are committed: what a restart finds
  prevHash,  \* _prev_hash, the head of the chain in memory
  lock,      \* the holder of _lock
  pc,        \* where each thread is in append()
  own,       \* the envelope each thread is appending
  queues,    \* the subscribers: a queue of sequence numbers for each
  minted,    \* how many envelopes have been created
  crashes,   \* how often the process has died
  faults     \* how many SQLite calls have raised

vars == <<db, disk, prevHash, lock, pc, own, queues, minted, crashes, faults>>

------------------------------------------------------------------------------
(***************************************************************************)
(* Envelopes and the chain.  An envelope is known by its identifier.  A    *)
(* SHA-256 digest of (previous digest + payload) stands for the sequence   *)
(* of payloads hashed into it, so distinct histories have distinct digests *)
(* (no collisions).  sequence = 0 says that the stored body has no         *)
(* "sequence" key.                                                         *)
(***************************************************************************)
Hash == Seq(Nat)
Genesis == <<>>
Digest(h, id) == Append(h, id)

Row == [id : Nat, prev : Hash, hash : Hash, sequence : Nat]

NoEnvelope == [id |-> 0, prev |-> Genesis, hash |-> Genesis, sequence |-> 0]

\* Mutant: every store starts a chain of its own.
FreshHead(log) == Genesis

\* What __init__ reloads: the hash of the row with the highest seq.
LastHash(log) == IF log = <<>> THEN Genesis ELSE log[Len(log)].hash

Init ==
  /\ db = <<>>
  /\ disk = <<>>
  /\ prevHash = LastHash(disk)
  /\ lock = NoThread
  /\ pc = [t \in Thread |-> "idle"]
  /\ own = [t \in Thread |-> NoEnvelope]
  /\ queues = [q \in {} |-> <<>>]
  /\ minted = 0
  /\ crashes = 0
  /\ faults = 0

------------------------------------------------------------------------------
(***************************************************************************)
(* append(), step by step.                                                 *)
(***************************************************************************)

\* Mutant: nobody waits for the lock.
LockIgnored == TRUE

LockFree == lock = NoThread

\* Take the lock; compute the digest over the head as it is now.
Enter(t) ==
  /\ pc[t] = "idle"
  /\ LockFree
  /\ minted < MaxAppends
  /\ lock' = t
  /\ minted' = minted + 1
  /\ own' = [own EXCEPT ![t] = [id |-> minted', prev |-> prevHash,
                                hash |-> Digest(prevHash, minted'), sequence |-> 0]]
  /\ pc' = [pc EXCEPT ![t] = "insert"]
  /\ UNCHANGED <<db, disk, prevHash, queues, crashes, faults>>

\* INSERT: the row is visible on the connection, not yet durable, and its
\* body does not carry its number.
Insert(t) ==
  /\ pc[t] = "insert"
  /\ db' = Append(db, own[t])
  /\ pc' = [pc EXCEPT ![t] = "commit"]
  /\ UNCHANGED <<disk, prevHash, lock, own, queues, minted, crashes, faults>>

Commit(t) ==
  /\ pc[t] = "commit"
  /\ disk' = db
  /\ pc' = [pc EXCEPT ![t] = "number"]
  /\ UNCHANGED <<db, prevHash, lock, own, queues, minted, crashes, faults>>

\* Mutant: the UPDATE has no WHERE.
NumberEverywhere(t) ==
  /\ pc[t] = "number"
  /\ own' = [own EXCEPT ![t].sequence = Len(db)]
  /\ db' = [i \in DOMAIN db |-> [db[i] EXCEPT !.sequence = Len(db)]]
  /\ pc' = [pc EXCEPT ![t] = "commit number"]
  /\ UNCHANGED <<disk, prevHash, lock, queues, minted, crashes, faults>>

\* env["sequence"] = lastrowid, and UPDATE of the body of that row.
Number(t) ==
  /\ pc[t] = "number"
  /\ own' = [own EXCEPT ![t].sequence = Len(db)]
  /\ db' = [db EXCEPT ![Len(db)].sequence = Len(db)]
  /\ pc' = [pc EXCEPT ![t] = "commit number"]
  /\ UNCHANGED <<disk, prevHash, lock, queues, minted, crashes, faults>>

CommitNumber(t) ==
  /\ pc[t] = "commit number"
  /\ disk' = db
  /\ pc' = [pc EXCEPT ![t] = "publish"]
  /\ UNCHANGED <<db, prevHash, lock, own, queues, minted, crashes, faults>>

\* Mutant: the digest is computed, but the head stays where it was.
HeadKept(t) == prevHash

HeadAfter(t) == own[t].hash

\* Mutant: an append that raises has moved the head already.
HeadMovedOnError(t) == own[t].hash

HeadAfterError(t) == prevHash

\* Mutant: the newest event goes first.
OfferFirst(queue, n) == IF Len(queue) < QueueCap THEN <<n>> \o queue ELSE queue

\* put_nowait(): a full queue loses the envelope, silently.
Offer(queue, n) == IF Len(queue) < QueueCap THEN Append(queue, n) ELSE queue

\* Move the head, offer the envelope to every subscriber, leave the lock.
Publish(t) ==
  /\ pc[t] = "publish"
  /\ prevHash' = HeadAfter(t)
  /\ queues' = [q \in DOMAIN queues |-> Offer(queues[q], own[t].sequence)]
  /\ lock' = NoThread
  /\ own' = [own EXCEPT ![t] = NoEnvelope]
  /\ pc' = [pc EXCEPT ![t] = "idle"]
  /\ UNCHANGED <<db, disk, minted, crashes, faults>>

\* A call of SQLite raises (disk full, I/O error, busy).  The exception
\* leaves append() through the "with", so the lock is free again and the head
\* has not moved.  SQLite either keeps the open transaction, which the next
\* commit completes, or rolls it back.
WriteFails(t) ==
  /\ pc[t] \in {"insert", "commit", "number", "commit number"}
  /\ faults < MaxFaults
  /\ faults' = faults + 1
  /\ db' \in {db, disk}
  /\ lock' = NoThread
  /\ own' = [own EXCEPT ![t] = NoEnvelope]
  /\ pc' = [pc EXCEPT ![t] = "idle"]
  /\ prevHash' = HeadAfterError(t)
  /\ UNCHANGED <<disk, queues, minted, crashes>>

------------------------------------------------------------------------------
(***************************************************************************)
(* Subscribers.                                                            *)
(***************************************************************************)
Subscribe(q) ==
  /\ q \notin DOMAIN queues
  /\ LockFree
  /\ queues' = [x \in DOMAIN queues \cup {q} |-> IF x = q THEN <<>> ELSE queues[x]]
  /\ UNCHANGED <<db, disk, prevHash, lock, pc, own, minted, crashes, faults>>

Unsubscribe(q) ==
  /\ q \in DOMAIN queues
  /\ LockFree
  /\ queues' = [x \in DOMAIN queues \ {q} |-> queues[x]]
  /\ UNCHANGED <<db, disk, prevHash, lock, pc, own, minted, crashes, faults>>

\* The consumer takes the oldest entry; this needs no lock.
Take(q) ==
  /\ q \in DOMAIN queues
  /\ queues[q] # <<>>
  /\ queues' = [queues EXCEPT ![q] = Tail(@)]
  /\ UNCHANGED <<db, disk, prevHash, lock, pc, own, minted, crashes, faults>>

------------------------------------------------------------------------------
(***************************************************************************)
(* The process dies and is started again: what is not committed is rolled  *)
(* back, the head is read from the last row, threads and queues are gone.  *)
(***************************************************************************)
Reopen ==
  /\ crashes < MaxCrashes
  /\ crashes' = crashes + 1
  /\ db' = disk
  /\ prevHash' = LastHash(disk)
  /\ lock' = NoThread
  /\ pc' = [t \in Thread |-> "idle"]
  /\ own' = [t \in Thread |-> NoEnvelope]
  /\ queues' = [q \in {} |-> <<>>]
  /\ UNCHANGED <<disk, minted, faults>>

Append_(t) ==
  \/ Enter(t)
  \/ Insert(t)
  \/ Commit(t)
  \/ Number(t)
  \/ CommitNumber(t)
  \/ Publish(t)

Next ==
  \/ \E t \in Thread : Append_(t) \/ WriteFails(t)
  \/ \E q \in Queue : Subscribe(q) \/ Unsubscribe(q) \/ Take(q)
  \/ Reopen

Spec == Init /\ [][Next]_vars

------------------------------------------------------------------------------
(***************************************************************************)
(* Properties.                                                             *)
(***************************************************************************)
Steps == {"idle", "insert", "commit", "number", "commit number", "publish"}

\* The types of the state of the store and of its threads.
TypeOK ==
  /\ db \in Seq(Row)
  /\ disk \in Seq(Row)
  /\ prevHash \in Hash
  /\ lock \in Thread \cup {NoThread}
  /\ pc \in [Thread -> Steps]
  /\ own \in [Thread -> Row]
  /\ DOMAIN queues \subseteq Queue
  /\ \A q \in DOMAIN queues : queues[q] \in Seq(Nat)
  /\ minted \in Nat
  /\ crashes \in Nat
  /\ faults \in Nat

\* Row i continues the row before it, and its digest covers its own payload.
LinkedAt(log, i) ==
  /\ log[i].prev = IF i = 1 THEN Genesis ELSE log[i - 1].hash
  /\ log[i].hash = Digest(log[i].prev, log[i].id)

Linked(log) == \A i \in 1..Len(log) : LinkedAt(log, i)

\* "hash-chained" (evidence.py:3): as long as no write has failed, the
\* committed rows form one chain from genesis, at every step of every append
\* and across every crash and restart in between.
ChainLinked == faults = 0 => Linked(db) /\ Linked(disk)

Breaks(log) == {i \in 1..Len(log) : ~ LinkedAt(log, i)}

\* A write that fails costs the chain at most one break: the rows appended
\* after it still cover their own payload and the row they were built on.
BreaksBounded ==
  /\ Cardinality(Breaks(disk)) <= faults
  /\ \A i \in 1..Len(disk) : disk[i].hash = Digest(disk[i].prev, disk[i].id)

\* The head in memory is always the digest of a committed row (or genesis),
\* so that nothing is ever chained to a row that a crash or a rollback took
\* back.
HeadIsCommitted ==
  prevHash = Genesis \/ \E i \in 1..Len(disk) : disk[i].hash = prevHash

\* The entries of a queue are committed and numbered, in the order of the log.
Faithful(s) ==
  /\ \A i \in 1..Len(s) : s[i] \in 1..Len(disk) /\ disk[s[i]].sequence = s[i]
  /\ \A i, j \in 1..Len(s) : i < j => s[i] < s[j]

\* What a subscriber finds in its queue is committed, numbered, and in the
\* order of the log: a live event never shows a row that a crash can take back,
\* and a queue that overflowed has holes but no disorder.
FanOutFaithful == \A q \in DOMAIN queues : Faithful(queues[q])

\* The store implements the append-only log: what is committed keeps its place
\* and its identity through appends, failures and restarts.
Log == INSTANCE EvidenceLog WITH
  log <- [i \in 1..Len(disk) |-> disk[i].id],
  sequenced <- {i \in 1..Len(disk) : disk[i].sequence = i}

LogSpec == Log!Spec

(***************************************************************************)
(* The inductive invariant behind these properties.                        *)
(***************************************************************************)
Writing == {"commit", "number", "commit number", "publish"}

\* A thread is inside append() exactly when it holds the lock.
Exclusive == \A t \in Thread : pc[t] # "idle" <=> lock = t

\* A row of the connection and the committed row in the same place.
SameRow(i) ==
  /\ disk[i].id = db[i].id
  /\ disk[i].prev = db[i].prev
  /\ disk[i].hash = db[i].hash
  /\ disk[i].sequence = i => db[i].sequence = i

\* The committed rows are the first rows of the connection.
PrefixInv ==
  /\ Len(disk) <= Len(db)
  /\ \A i \in 1..Len(disk) : SameRow(i) /\ disk[i].sequence \in {0, i}

\* Rows cover their payload, know no number but their own, and are in the
\* order in which the envelopes were created.
BodyInv(rows) ==
  /\ \A i \in 1..Len(rows) :
       /\ rows[i].sequence \in {0, i}
       /\ rows[i].hash = Digest(rows[i].prev, rows[i].id)
       /\ rows[i].id <= minted
  /\ \A i, j \in 1..Len(rows) : i < j => rows[i].id < rows[j].id

\* The envelope a thread is appending continues the head; before the INSERT it
\* is newer than every row, after it it is the last row.
OwnInv(t) ==
  /\ pc[t] # "idle" =>
       /\ own[t].id = minted
       /\ own[t].prev = prevHash
       /\ own[t].hash = Digest(own[t].prev, own[t].id)
  /\ pc[t] = "insert" =>
       /\ own[t].sequence = 0
       /\ \A i \in 1..Len(db) : db[i].id < own[t].id
  /\ pc[t] \in Writing =>
       /\ Len(db) > 0
       /\ db[Len(db)].id = own[t].id
       /\ db[Len(db)].prev = own[t].prev
       /\ db[Len(db)].hash = own[t].hash

\* What is committed at each step of append().
CommitInv(t) ==
  /\ pc[t] = "number" => disk = db
  /\ pc[t] = "commit number" => Len(disk) = Len(db)
  /\ pc[t] = "publish" => disk = db
  /\ pc[t] \in {"commit number", "publish"} =>
       own[t].sequence = Len(db) /\ db[Len(db)].sequence = Len(db)

RowsInv == PrefixInv /\ BodyInv(db) /\ \A t \in Thread : OwnInv(t) /\ CommitInv(t)

\* Without a failed write the head is the digest of the last row, except that
\* the row being appended is already there and the head is still before it.
HeadInv ==
  faults = 0 =>
    ((\A t \in Thread : pc[t] \notin Writing) => prevHash = LastHash(db))

\* The head does not lead on from the last row: the next append breaks the chain.
Behind == (\A t \in Thread : pc[t] \notin Writing) /\ prevHash # LastHash(db)

\* The breaks there are, and the one to come, are paid for by failed writes.
BreakInv == Cardinality(Breaks(db)) + (IF Behind THEN 1 ELSE 0) <= faults

\* What append() keeps at every step, whatever fails: its lock, its rows, and what
\* the head owes the last of them.
IInv == TypeOK /\ Exclusive /\ RowsInv /\ ChainLinked /\ HeadInv /\ BreakInv
==============================================================================
