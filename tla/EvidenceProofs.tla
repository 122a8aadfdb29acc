---------------------------- MODULE EvidenceProofs ----------------------------
(***************************************************************************)
(* Theorems about the evidence store, the event stream and the bundles,    *)
(* for any number of threads, subscribers, clients, appends, crashes and   *)
(* failing writes.                                                         *)
(*                                                                         *)
(* The steps of the stream and of a bundle are steps of the store, or      *)
(* leave it alone, so that its theorems hold of both.  What is added is    *)
(* what a client has been shown and what its queue holds for it, and what  *)
(* a bundle has taken from the log so far.                                 *)
(***************************************************************************)
EXTENDS EventStream, Export, SequenceTheorems, FiniteSetTheorems, WellFoundedInduction, TLAPS

------------------------------------------------------------------------------
(***************************************************************************)
(* Lemmas about the operators.                                             *)
(***************************************************************************)

\* The digest of a chain extended by one envelope is again a digest.
LEMMA DigestType ==
  ASSUME NEW h \in Hash, NEW id \in Nat
  PROVE  Digest(h, id) \in Hash
  BY DEF Hash, Digest

\* The head that a store reads from its rows is a digest.
LEMMA LastHashType ==
  ASSUME NEW log \in Seq(Row)
  PROVE  LastHash(log) \in Hash
<1>1. CASE log = <<>>
  BY <1>1 DEF LastHash, Genesis, Hash
<1>2. CASE log # <<>>
  <2>1. Len(log) \in 1..Len(log)
    BY <1>2, EmptySeq, LenProperties
  <2>2. log[Len(log)] \in Row
    BY <2>1, ElementOfSeq
  <2>3. QED
    BY <1>2, <2>2 DEF LastHash, Row
<1>3. QED
  BY <1>1, <1>2

\* Offering an envelope to a queue keeps the queue a sequence of numbers.
LEMMA OfferType ==
  ASSUME NEW q \in Seq(Nat), NEW n \in Nat
  PROVE  Offer(q, n) \in Seq(Nat)
  BY DEF Offer

\* A thread outside of append() holds an envelope of the right type.
LEMMA NoEnvelopeType == NoEnvelope \in Row
  BY DEF NoEnvelope, Row, Genesis, Hash

------------------------------------------------------------------------------
(***************************************************************************)
(* Type correctness.                                                       *)
(***************************************************************************)

LEMMA InitType == Init => TypeOK
<1> SUFFICES ASSUME Init
             PROVE  TypeOK
  OBVIOUS
<1>1. db \in Seq(Row) /\ disk \in Seq(Row)
  BY DEF Init
<1>2. prevHash \in Hash
  BY <1>1, LastHashType DEF Init
<1>3. own \in [Thread -> Row]
  BY NoEnvelopeType DEF Init
<1>4. QED
  BY <1>1, <1>2, <1>3 DEF Init, TypeOK, Steps

\* Every step keeps the types.
LEMMA TypeStep == TypeOK /\ [Next]_vars => TypeOK'
<1> SUFFICES ASSUME TypeOK, [Next]_vars
             PROVE  TypeOK'
  OBVIOUS
<1> USE DEF TypeOK
<1>1. ASSUME NEW t \in Thread, Enter(t)
      PROVE  TypeOK'
  <2>1. minted' \in Nat
    BY <1>1 DEF Enter
  <2>2. Digest(prevHash, minted') \in Hash
    BY <2>1, DigestType
  <2>3. [id |-> minted', prev |-> prevHash,
         hash |-> Digest(prevHash, minted'), sequence |-> 0] \in Row
    BY <2>1, <2>2 DEF Row
  <2>4. QED
    BY <1>1, <2>1, <2>3 DEF Enter, Steps
<1>2. ASSUME NEW t \in Thread, Insert(t)
      PROVE  TypeOK'
  <2>1. own[t] \in Row
    OBVIOUS
  <2>2. db' \in Seq(Row)
    BY <1>2, <2>1 DEF Insert
  <2>3. pc' \in [Thread -> Steps]
    BY <1>2 DEF Insert, Steps
  <2>4. QED
    BY <1>2, <2>2, <2>3 DEF Insert
<1>3. ASSUME NEW t \in Thread, Commit(t)
      PROVE  TypeOK'
  BY <1>3 DEF Commit, Steps
<1>4. ASSUME NEW t \in Thread, Number(t)
      PROVE  TypeOK'
  <2>1. own' \in [Thread -> Row]
    <3>1. Len(db) \in Nat
      BY LenProperties
    <3>2. QED
      BY <1>4, <3>1 DEF Number, Row
  <2>2. db' \in Seq(Row)
    <3>1. Len(db) \in Nat /\ db \in [1..Len(db) -> Row]
      BY LenProperties
    <3>2. \A r \in Row : [r EXCEPT !.sequence = Len(db)] \in Row
      BY <3>1 DEF Row
    <3>3. db' \in [1..Len(db) -> Row]
      BY <1>4, <3>1, <3>2 DEF Number
    <3>4. QED
      BY <3>1, <3>3, SeqDef
  <2>3. QED
    BY <1>4, <2>1, <2>2 DEF Number, Steps
<1>5. ASSUME NEW t \in Thread, CommitNumber(t)
      PROVE  TypeOK'
  BY <1>5 DEF CommitNumber, Steps
<1>6. ASSUME NEW t \in Thread, Publish(t)
      PROVE  TypeOK'
  <2>1. own[t] \in Row
    OBVIOUS
  <2>2. \A q \in DOMAIN queues' : queues'[q] \in Seq(Nat)
    BY <1>6, <2>1, OfferType DEF Publish, Row
  <2>3. prevHash' \in Hash
    BY <1>6, <2>1 DEF Publish, HeadAfter, Row
  <2>4. own' \in [Thread -> Row]
    BY <1>6, NoEnvelopeType DEF Publish
  <2>5. pc' \in [Thread -> Steps] /\ DOMAIN queues' = DOMAIN queues
    BY <1>6 DEF Publish, Steps
  <2>6. lock' = NoThread /\ UNCHANGED <<db, disk, minted, crashes, faults>>
    BY <1>6 DEF Publish
  <2>7. QED
    BY <2>2, <2>3, <2>4, <2>5, <2>6
<1>7. ASSUME NEW t \in Thread, WriteFails(t)
      PROVE  TypeOK'
  <2>1. own' \in [Thread -> Row]
    BY <1>7, NoEnvelopeType DEF WriteFails
  <2>2. db' \in Seq(Row)
    BY <1>7 DEF WriteFails
  <2>3. pc' \in [Thread -> Steps]
    BY <1>7 DEF WriteFails, Steps
  <2>4. lock' = NoThread
    BY <1>7 DEF WriteFails
  <2>7. faults' \in Nat
    <3>1. faults' = faults + 1
      BY <1>7 DEF WriteFails
    <3>2. QED
      BY <3>1
  <2>8. prevHash' = prevHash
    BY <1>7 DEF WriteFails, HeadAfterError
  <2>5. UNCHANGED <<disk, queues, minted, crashes>>
    BY <1>7 DEF WriteFails
  <2>6. QED
    BY <2>1, <2>2, <2>3, <2>4, <2>5, <2>7, <2>8
<1>8. ASSUME NEW q \in Queue, Subscribe(q) \/ Unsubscribe(q) \/ Take(q)
      PROVE  TypeOK'
  <2>1. CASE Subscribe(q)
    BY <2>1 DEF Subscribe
  <2>2. CASE Unsubscribe(q)
    BY <2>2 DEF Unsubscribe
  <2>3. CASE Take(q)
    <3>1. Tail(queues[q]) \in Seq(Nat)
      BY <2>3, HeadTailProperties DEF Take
    <3>2. QED
      BY <2>3, <3>1 DEF Take
  <2>4. QED
    BY <1>8, <2>1, <2>2, <2>3
<1>9. CASE Reopen
  <2>1. LastHash(disk) \in Hash
    BY LastHashType
  <2>2. own' \in [Thread -> Row]
    BY <1>9, NoEnvelopeType DEF Reopen
  <2>3. DOMAIN queues' \subseteq Queue /\ \A q \in DOMAIN queues' : queues'[q] \in Seq(Nat)
    BY <1>9 DEF Reopen
  <2>4. pc' \in [Thread -> Steps] /\ lock' \in Thread \cup {NoThread}
    BY <1>9 DEF Reopen, Steps
  <2>5. db' \in Seq(Row) /\ disk' \in Seq(Row) /\ prevHash' \in Hash
    BY <1>9, <2>1 DEF Reopen
  <2>6. crashes' \in Nat /\ minted' \in Nat /\ faults' \in Nat
    BY <1>9 DEF Reopen
  <2>7. QED
    BY <2>2, <2>3, <2>4, <2>5, <2>6
<1>10. CASE UNCHANGED vars
  BY <1>10 DEF vars
<1>11. QED
  BY <1>1, <1>2, <1>3, <1>4, <1>5, <1>6, <1>7, <1>8, <1>9, <1>10 DEF Next, Append_

\* Every state of the store is well typed.
THEOREM TypeCorrect == Spec => []TypeOK
  BY InitType, TypeStep, PTL DEF Spec

------------------------------------------------------------------------------
(***************************************************************************)
(* The inductive invariant.                                                *)
(***************************************************************************)

\* The lock excludes: a thread between its first and its last step is the
\* holder.
LEMMA ExclusiveStep == TypeOK /\ Exclusive /\ [Next]_vars => Exclusive'
<1> SUFFICES ASSUME TypeOK, Exclusive, [Next]_vars
             PROVE  Exclusive'
  OBVIOUS
<1>1. pc \in [Thread -> Steps] /\ NoThread \notin Thread
  BY ThreadAssumption DEF TypeOK
<1>2. ASSUME NEW t \in Thread, Append_(t) \/ WriteFails(t)
      PROVE  Exclusive'
  <2>1. CASE Enter(t)
    BY <1>1, <2>1 DEF Exclusive, Enter, LockFree
  <2>2. CASE Insert(t) \/ Commit(t) \/ Number(t) \/ CommitNumber(t)
    <3>1. lock' = lock /\ pc[t] # "idle" /\ pc' = [pc EXCEPT ![t] = pc'[t]] /\ pc'[t] # "idle"
      BY <1>1, <2>2 DEF Insert, Commit, Number, CommitNumber
    <3>2. QED
      BY <1>1, <3>1 DEF Exclusive
  <2>3. CASE Publish(t) \/ WriteFails(t)
    <3>1. lock' = NoThread /\ pc[t] # "idle" /\ pc' = [pc EXCEPT ![t] = "idle"]
      BY <1>1, <2>3 DEF Publish, WriteFails
    <3>2. QED
      BY <1>1, <3>1 DEF Exclusive
  <2>4. QED
    BY <1>2, <2>1, <2>2, <2>3 DEF Append_
<1>3. ASSUME NEW q \in Queue, Subscribe(q) \/ Unsubscribe(q) \/ Take(q)
      PROVE  Exclusive'
  BY <1>3 DEF Exclusive, Subscribe, Unsubscribe, Take
<1>4. CASE Reopen
  BY <1>1, <1>4 DEF Exclusive, Reopen
<1>5. CASE UNCHANGED vars
  BY <1>5 DEF Exclusive, vars
<1>6. QED
  BY <1>2, <1>3, <1>4, <1>5 DEF Next

\* What the types say of the rows, in the form the steps below use.
LEMMA RowTypes ==
  ASSUME TypeOK
  PROVE  /\ Len(db) \in Nat /\ Len(disk) \in Nat /\ minted \in Nat
         /\ \A i \in 1..Len(db) : db[i] \in Row
         /\ \A i \in 1..Len(disk) : disk[i] \in Row
         /\ \A t \in Thread : own[t] \in Row
<1>1. db \in Seq(Row) /\ disk \in Seq(Row)
  BY DEF TypeOK
<1>2. \A i \in 1..Len(db) : db[i] \in Row
  BY <1>1, ElementOfSeq
<1>3. \A i \in 1..Len(disk) : disk[i] \in Row
  BY <1>1, ElementOfSeq
<1>4. QED
  BY <1>1, <1>2, <1>3, LenProperties DEF TypeOK

\* The committed rows are themselves a well-formed table.
LEMMA DiskBody ==
  ASSUME TypeOK, PrefixInv, BodyInv(db)
  PROVE  BodyInv(disk)
<1>1. Len(disk) \in Nat /\ Len(db) \in Nat
  BY RowTypes
<1>2. \A i \in 1..Len(disk) : i \in 1..Len(db) /\ SameRow(i) /\ disk[i].sequence \in {0, i}
  BY <1>1 DEF PrefixInv
<1>3. ASSUME NEW i \in 1..Len(disk)
      PROVE  /\ disk[i].sequence \in {0, i}
             /\ disk[i].hash = Digest(disk[i].prev, disk[i].id)
             /\ disk[i].id <= minted
  BY <1>2 DEF BodyInv, SameRow
<1>4. ASSUME NEW i \in 1..Len(disk), NEW j \in 1..Len(disk), i < j
      PROVE  disk[i].id < disk[j].id
  BY <1>2, <1>4 DEF BodyInv, SameRow
<1>5. QED
  BY <1>3, <1>4 DEF BodyInv

\* While one thread holds the lock the others are idle.
LEMMA OthersIdle ==
  ASSUME Exclusive, NEW t \in Thread, pc[t] # "idle"
  PROVE  \A u \in Thread \ {t} : pc[u] = "idle"
  BY DEF Exclusive

\* append() keeps the rows in order.
LEMMA EnterKeepsRows ==
  ASSUME TypeOK, Exclusive, RowsInv, NEW t \in Thread, Enter(t)
  PROVE  RowsInv'
<1>1. /\ db' = db /\ disk' = disk /\ prevHash' = prevHash /\ minted' = minted + 1
      /\ pc' = [pc EXCEPT ![t] = "insert"]
      /\ own'[t] = [id |-> minted', prev |-> prevHash,
                    hash |-> Digest(prevHash, minted'), sequence |-> 0]
  BY DEF Enter, TypeOK
<1>2. \A u \in Thread : pc[u] = "idle"
  BY ThreadAssumption DEF Enter, LockFree, Exclusive
<1>3. PrefixInv'
  BY <1>1 DEF RowsInv, PrefixInv, SameRow
<1>4. \A i \in 1..Len(db) : db[i].id \in Nat /\ db[i].id <= minted
  BY RowTypes DEF RowsInv, BodyInv, Row
<1>5. BodyInv(db)'
  BY <1>1, <1>4, RowTypes DEF RowsInv, BodyInv
<1>6. OwnInv(t)' /\ CommitInv(t)'
  <2>1. pc'[t] = "insert"
    BY <1>1 DEF TypeOK
  <2>2. \A i \in 1..Len(db') : db'[i].id < own'[t].id
    BY <1>1, <1>4, RowTypes
  <2>3. /\ own'[t].id = minted' /\ own'[t].prev = prevHash' /\ own'[t].sequence = 0
        /\ own'[t].hash = Digest(own'[t].prev, own'[t].id)
    BY <1>1
  <2>4. QED
    BY <2>1, <2>2, <2>3 DEF OwnInv, CommitInv, Writing
<1>7. ASSUME NEW u \in Thread \ {t}
      PROVE  OwnInv(u)' /\ CommitInv(u)'
  <2>1. pc'[u] = "idle"
    BY <1>1, <1>2 DEF TypeOK
  <2>2. QED
    BY <2>1 DEF OwnInv, CommitInv, Writing
<1>8. QED
  BY <1>3, <1>5, <1>6, <1>7 DEF RowsInv

\* The INSERT of append() (evidence.py:79) keeps what is said of the rows.
LEMMA InsertKeepsRows ==
  ASSUME TypeOK, Exclusive, RowsInv, NEW t \in Thread, Insert(t)
  PROVE  RowsInv'
<1>1. /\ disk' = disk /\ prevHash' = prevHash /\ minted' = minted /\ own' = own
      /\ pc[t] = "insert" /\ pc'[t] = "commit"
      /\ \A u \in Thread \ {t} : pc'[u] = pc[u]
  BY DEF Insert, TypeOK
<1>2. own[t] \in Row /\ Len(db) \in Nat /\ Len(disk) \in Nat /\ minted \in Nat
  BY RowTypes
<1>3. /\ Len(db') = Len(db) + 1
      /\ \A i \in 1..Len(db) : db'[i] = db[i]
      /\ db'[Len(db) + 1] = own[t]
  BY <1>2 DEF Insert, TypeOK
<1>4. /\ own[t].sequence = 0 /\ own[t].id = minted
      /\ own[t].hash = Digest(own[t].prev, own[t].id)
      /\ own[t].prev = prevHash
      /\ \A i \in 1..Len(db) : db[i].id < own[t].id
  BY <1>1 DEF RowsInv, OwnInv
<1>5. PrefixInv'
  <2>1. Len(disk') <= Len(db')
    BY <1>1, <1>2, <1>3 DEF RowsInv, PrefixInv
  <2>2. ASSUME NEW i \in 1..Len(disk)
        PROVE  SameRow(i)' /\ disk'[i].sequence \in {0, i}
    <3>1. i \in 1..Len(db) /\ SameRow(i) /\ disk[i].sequence \in {0, i}
      BY <1>2 DEF RowsInv, PrefixInv
    <3>2. QED
      BY <1>1, <1>3, <3>1 DEF SameRow
  <2>3. QED
    BY <1>1, <2>1, <2>2 DEF PrefixInv
<1>6. BodyInv(db)'
  <2>1. ASSUME NEW i \in 1..Len(db')
        PROVE  /\ db'[i].sequence \in {0, i}
               /\ db'[i].hash = Digest(db'[i].prev, db'[i].id)
               /\ db'[i].id <= minted'
    <3>1. CASE i \in 1..Len(db)
      BY <1>1, <1>3, <3>1 DEF RowsInv, BodyInv
    <3>2. CASE i = Len(db) + 1
      BY <1>1, <1>2, <1>3, <1>4, <3>2
    <3>3. QED
      BY <1>2, <1>3, <3>1, <3>2
  <2>2. ASSUME NEW i \in 1..Len(db'), NEW j \in 1..Len(db'), i < j
        PROVE  db'[i].id < db'[j].id
    <3>1. i \in 1..Len(db)
      BY <1>2, <1>3, <2>2
    <3>2. CASE j \in 1..Len(db)
      BY <1>3, <2>2, <3>1, <3>2 DEF RowsInv, BodyInv
    <3>3. CASE j = Len(db) + 1
      BY <1>3, <1>4, <3>1, <3>3
    <3>4. QED
      BY <1>2, <1>3, <3>2, <3>3
  <2>3. QED
    BY <2>1, <2>2 DEF BodyInv
<1>7. OwnInv(t)' /\ CommitInv(t)'
  <2>1. Len(db') > 0 /\ db'[Len(db')] = own'[t]
    BY <1>1, <1>2, <1>3
  <2>2. QED
    BY <1>1, <1>4, <2>1 DEF OwnInv, CommitInv, Writing
<1>8. ASSUME NEW u \in Thread \ {t}
      PROVE  OwnInv(u)' /\ CommitInv(u)'
  <2>1. pc'[u] = "idle"
    BY <1>1, OthersIdle
  <2>2. QED
    BY <2>1 DEF OwnInv, CommitInv, Writing
<1>9. QED
  BY <1>5, <1>6, <1>7, <1>8 DEF RowsInv

\* A commit makes the committed rows those of the connection.
LEMMA SameRows ==
  ASSUME TypeOK, BodyInv(db), disk' = db, db' = db
  PROVE  PrefixInv'
<1>1. Len(db) \in Nat
  BY RowTypes
<1>2. \A i \in 1..Len(db) : db[i].sequence \in {0, i}
  BY DEF BodyInv
<1>3. \A i \in 1..Len(db) : SameRow(i)'
  BY DEF SameRow
<1>4. QED
  BY <1>1, <1>2, <1>3 DEF PrefixInv

\* So do its two commits (85, 89).
LEMMA CommitKeepsRows ==
  ASSUME TypeOK, Exclusive, RowsInv, NEW t \in Thread, Commit(t) \/ CommitNumber(t)
  PROVE  RowsInv'
<1>1. /\ disk' = db /\ db' = db /\ prevHash' = prevHash /\ minted' = minted /\ own' = own
      /\ pc[t] \in {"commit", "commit number"} /\ pc'[t] \in {"number", "publish"}
      /\ pc'[t] = "publish" => pc[t] = "commit number"
      /\ \A u \in Thread \ {t} : pc'[u] = pc[u]
  BY DEF Commit, CommitNumber, TypeOK
<1>2. PrefixInv'
  BY <1>1, SameRows DEF RowsInv
<1>3. BodyInv(db)'
  BY <1>1 DEF RowsInv, BodyInv
<1>4. OwnInv(t)' /\ CommitInv(t)'
  BY <1>1 DEF RowsInv, OwnInv, CommitInv, Writing
<1>5. ASSUME NEW u \in Thread \ {t}
      PROVE  OwnInv(u)' /\ CommitInv(u)'
  <2>1. pc'[u] = "idle"
    BY <1>1, OthersIdle
  <2>2. QED
    BY <2>1 DEF OwnInv, CommitInv, Writing
<1>6. QED
  BY <1>2, <1>3, <1>4, <1>5 DEF RowsInv

\* And the UPDATE that gives the row its number (86-88).
LEMMA NumberKeepsRows ==
  ASSUME TypeOK, Exclusive, RowsInv, NEW t \in Thread, Number(t)
  PROVE  RowsInv'
<1>1. /\ disk' = disk /\ prevHash' = prevHash /\ minted' = minted
      /\ pc[t] = "number" /\ pc'[t] = "commit number"
      /\ \A u \in Thread \ {t} : pc'[u] = pc[u]
  BY DEF Number, TypeOK
<1>2. Len(db) \in Nat /\ Len(db) > 0 /\ disk = db
  BY <1>1, RowTypes DEF RowsInv, OwnInv, CommitInv, Writing
<1>3. db[Len(db)] \in Row /\ own[t] \in Row
  BY <1>2, RowTypes
<1>4. /\ Len(db') = Len(db)
      /\ \A i \in 1..Len(db) : db'[i] = IF i = Len(db)
                                        THEN [db[i] EXCEPT !.sequence = Len(db)]
                                        ELSE db[i]
  <2>1. [db[Len(db)] EXCEPT !.sequence = Len(db)] \in Row
    BY <1>2, <1>3 DEF Row
  <2>2. db' = [db EXCEPT ![Len(db)] = [db[Len(db)] EXCEPT !.sequence = Len(db)]]
    BY DEF Number
  <2>3. db \in Seq(Row) /\ Len(db) \in 1..Len(db)
    BY <1>2 DEF TypeOK
  <2>4. QED
    BY <2>1, <2>2, <2>3, ExceptSeq
<1>5. \A i \in 1..Len(db) :
        /\ db'[i].id = db[i].id /\ db'[i].prev = db[i].prev /\ db'[i].hash = db[i].hash
        /\ db'[i].sequence = IF i = Len(db) THEN Len(db) ELSE db[i].sequence
  BY <1>2, <1>3, <1>4, RowTypes DEF Row
<1>6. /\ own'[t].id = own[t].id /\ own'[t].prev = own[t].prev
      /\ own'[t].hash = own[t].hash /\ own'[t].sequence = Len(db)
  BY <1>3 DEF Number, TypeOK, Row
<1>7. PrefixInv'
  <2>1. ASSUME NEW i \in 1..Len(db)
        PROVE  SameRow(i)' /\ disk'[i].sequence \in {0, i}
    <3>1. db[i].sequence \in {0, i}
      BY DEF RowsInv, BodyInv
    <3>2. QED
      BY <1>1, <1>2, <1>5, <3>1 DEF SameRow
  <2>2. Len(disk') = Len(db) /\ Len(db') = Len(db)
    BY <1>1, <1>2, <1>4
  <2>3. QED
    BY <1>2, <2>1, <2>2 DEF PrefixInv
<1>8. BodyInv(db)'
  <2>1. \A i \in 1..Len(db) : db'[i].sequence \in {0, i}
    BY <1>2, <1>5 DEF RowsInv, BodyInv
  <2>2. QED
    BY <1>1, <1>4, <1>5, <2>1 DEF RowsInv, BodyInv
<1>9. OwnInv(t)' /\ CommitInv(t)'
  <2>1. /\ own[t].id = minted /\ own[t].prev = prevHash
        /\ own[t].hash = Digest(own[t].prev, own[t].id)
        /\ db[Len(db)].id = own[t].id /\ db[Len(db)].prev = own[t].prev
        /\ db[Len(db)].hash = own[t].hash
    BY <1>1 DEF RowsInv, OwnInv, Writing
  <2>2. Len(db) \in 1..Len(db)
    BY <1>2
  <2>3. OwnInv(t)'
    BY <1>1, <1>2, <1>4, <1>5, <1>6, <2>1, <2>2 DEF OwnInv, Writing
  <2>4. CommitInv(t)'
    BY <1>1, <1>2, <1>4, <1>5, <1>6, <2>2 DEF CommitInv
  <2>5. QED
    BY <2>3, <2>4
<1>10. ASSUME NEW u \in Thread \ {t}
       PROVE  OwnInv(u)' /\ CommitInv(u)'
  <2>1. pc'[u] = "idle"
    BY <1>1, OthersIdle
  <2>2. QED
    BY <2>1 DEF OwnInv, CommitInv, Writing
<1>11. QED
  BY <1>7, <1>8, <1>9, <1>10 DEF RowsInv

\* A step that leaves every thread idle and the rows as they are, or as they
\* were last committed.
LEMMA IdleKeepsRows ==
  ASSUME TypeOK, RowsInv, minted' = minted, disk' = disk, db' \in {db, disk},
         \A t \in Thread : pc'[t] = "idle"
  PROVE  RowsInv'
<1>1. \A t \in Thread : OwnInv(t)' /\ CommitInv(t)'
  BY DEF OwnInv, CommitInv, Writing
<1>2. CASE db' = db
  <2>1. PrefixInv' /\ BodyInv(db)'
    BY <1>2 DEF RowsInv, PrefixInv, SameRow, BodyInv
  <2>2. QED
    BY <1>1, <2>1 DEF RowsInv
<1>3. CASE db' = disk
  <2>1. BodyInv(disk)
    BY DiskBody DEF RowsInv
  <2>2. BodyInv(db)'
    BY <1>3, <2>1 DEF BodyInv
  <2>3. PrefixInv'
    <3>1. Len(disk) \in Nat
      BY RowTypes
    <3>2. \A i \in 1..Len(disk) : SameRow(i)'
      BY <1>3 DEF SameRow
    <3>3. \A i \in 1..Len(disk) : disk[i].sequence \in {0, i}
      BY <2>1 DEF BodyInv
    <3>4. QED
      BY <1>3, <3>1, <3>2, <3>3 DEF PrefixInv
  <2>4. QED
    BY <1>1, <2>2, <2>3 DEF RowsInv
<1>4. QED
  BY <1>2, <1>3

\* Every step of the store keeps what is said of the rows.
LEMMA RowsStep == TypeOK /\ Exclusive /\ RowsInv /\ [Next]_vars => RowsInv'
<1> SUFFICES ASSUME TypeOK, Exclusive, RowsInv, [Next]_vars
             PROVE  RowsInv'
  OBVIOUS
<1>1. ASSUME NEW t \in Thread, Append_(t) \/ WriteFails(t)
      PROVE  RowsInv'
  <2>1. CASE Publish(t) \/ WriteFails(t)
    <3>1. /\ minted' = minted /\ disk' = disk /\ db' \in {db, disk}
          /\ pc[t] # "idle" /\ pc' = [pc EXCEPT ![t] = "idle"]
      BY <2>1 DEF Publish, WriteFails
    <3>2. \A u \in Thread : pc'[u] = "idle"
      BY <3>1, OthersIdle DEF TypeOK
    <3>3. QED
      BY <3>1, <3>2, IdleKeepsRows
  <2>2. QED
    BY <1>1, <2>1, EnterKeepsRows, InsertKeepsRows, CommitKeepsRows, NumberKeepsRows DEF Append_
<1>2. CASE Reopen
  <2>1. /\ minted' = minted /\ disk' = disk /\ db' \in {db, disk}
        /\ \A t \in Thread : pc'[t] = "idle"
    BY <1>2 DEF Reopen
  <2>2. QED
    BY <2>1, IdleKeepsRows
<1>3. ASSUME UNCHANGED <<db, disk, prevHash, pc, own, minted>>
      PROVE  RowsInv'
  BY <1>3 DEF RowsInv, PrefixInv, SameRow, BodyInv, OwnInv, CommitInv, Writing
<1>4. ASSUME NEW q \in Queue, Subscribe(q) \/ Unsubscribe(q) \/ Take(q)
      PROVE  RowsInv'
  BY <1>3, <1>4 DEF Subscribe, Unsubscribe, Take
<1>5. CASE UNCHANGED vars
  BY <1>3, <1>5 DEF vars
<1>6. QED
  BY <1>1, <1>2, <1>4, <1>5 DEF Next

------------------------------------------------------------------------------
(***************************************************************************)
(* The chain.                                                              *)
(***************************************************************************)
ChainInv == ChainLinked /\ HeadInv

\* A row that is inserted continues the chain.
LEMMA InsertKeepsChain ==
  ASSUME TypeOK, Exclusive, RowsInv, ChainInv, NEW t \in Thread, Insert(t)
  PROVE  ChainInv'
<1> SUFFICES ASSUME faults = 0
             PROVE  Linked(db') /\ Linked(disk') /\ \E u \in Thread : pc'[u] \in Writing
  <2>1. faults' = faults
    BY DEF Insert
  <2>2. QED
    BY <2>1 DEF ChainInv, ChainLinked, HeadInv
<1>1. disk' = disk /\ pc[t] = "insert" /\ pc'[t] = "commit"
  BY DEF Insert, TypeOK
<1>2. own[t] \in Row /\ Len(db) \in Nat
  BY RowTypes
<1>3. /\ Len(db') = Len(db) + 1
      /\ \A i \in 1..Len(db) : db'[i] = db[i]
      /\ db'[Len(db) + 1] = own[t]
  BY <1>2 DEF Insert, TypeOK
<1>4. own[t].prev = LastHash(db)
  <2>1. \A u \in Thread : pc[u] \notin Writing
    BY <1>1, OthersIdle DEF Writing
  <2>2. own[t].prev = prevHash
    BY <1>1 DEF RowsInv, OwnInv
  <2>3. QED
    BY <2>1, <2>2 DEF ChainInv, HeadInv
<1>5. own[t].hash = Digest(own[t].prev, own[t].id)
  BY <1>1 DEF RowsInv, OwnInv
<1>6. ASSUME NEW i \in 1..Len(db')
      PROVE  LinkedAt(db', i)
  <2>1. CASE i \in 1..Len(db)
    <3>1. LinkedAt(db, i)
      BY <2>1 DEF ChainInv, ChainLinked, Linked
    <3>2. i # 1 => i - 1 \in 1..Len(db)
      BY <1>2, <2>1
    <3>3. QED
      BY <1>3, <2>1, <3>1, <3>2 DEF LinkedAt
  <2>2. CASE i = Len(db) + 1
    <3>1. db'[i] = own[t]
      BY <1>3, <2>2
    <3>2. CASE Len(db) = 0
      <4>1. i = 1
        BY <2>2, <3>2
      <4>2. db = <<>>
        BY <3>2, EmptySeq DEF TypeOK
      <4>3. own[t].prev = Genesis
        BY <1>4, <4>2 DEF LastHash
      <4>4. QED
        BY <1>5, <3>1, <4>1, <4>3 DEF LinkedAt
    <3>3. CASE Len(db) # 0
      <4>1. i # 1 /\ i - 1 = Len(db) /\ i - 1 \in 1..Len(db)
        BY <1>2, <2>2, <3>3
      <4>2. db # <<>>
        BY <3>3
      <4>3. own[t].prev = db'[i - 1].hash
        BY <1>3, <1>4, <4>1, <4>2 DEF LastHash
      <4>4. QED
        BY <1>5, <3>1, <4>1, <4>3 DEF LinkedAt
    <3>4. QED
      BY <3>2, <3>3
  <2>3. QED
    BY <1>2, <1>3, <2>1, <2>2
<1>7. Linked(db')
  BY <1>6 DEF Linked
<1>8. Linked(disk')
  BY <1>1 DEF ChainInv, ChainLinked
<1>9. \E u \in Thread : pc'[u] \in Writing
  BY <1>1 DEF Writing
<1>10. QED
  BY <1>7, <1>8, <1>9

\* Writing the number into the body leaves the chain as it is.
LEMMA NumberKeepsChain ==
  ASSUME TypeOK, Exclusive, RowsInv, ChainInv, NEW t \in Thread, Number(t)
  PROVE  ChainInv'
<1>1. faults' = faults /\ disk' = disk /\ pc[t] = "number" /\ pc'[t] = "commit number"
  BY DEF Number, TypeOK
<1>2. Len(db) \in Nat /\ Len(db) > 0 /\ db \in Seq(Row)
  BY <1>1, RowTypes DEF RowsInv, OwnInv, Writing, TypeOK
<1>3. Len(db') = Len(db) /\ \A i \in 1..Len(db) : /\ db'[i].id = db[i].id
                                                  /\ db'[i].prev = db[i].prev
                                                  /\ db'[i].hash = db[i].hash
  <2>1. \A i \in 1..Len(db) : db[i] \in Row
    BY RowTypes
  <2>2. [db[Len(db)] EXCEPT !.sequence = Len(db)] \in Row
    BY <1>2, <2>1 DEF Row
  <2>3. db' = [db EXCEPT ![Len(db)] = [db[Len(db)] EXCEPT !.sequence = Len(db)]]
    BY DEF Number
  <2>4. /\ Len(db') = Len(db)
        /\ \A i \in 1..Len(db) : db'[i] = IF i = Len(db)
                                          THEN [db[Len(db)] EXCEPT !.sequence = Len(db)]
                                          ELSE db[i]
    BY <1>2, <2>2, <2>3, ExceptSeq
  <2>5. QED
    BY <2>1, <2>4 DEF Row
<1>4. Linked(db) => Linked(db')
  <2>1. ASSUME Linked(db), NEW i \in 1..Len(db)
        PROVE  LinkedAt(db', i)
    <3>1. LinkedAt(db, i) /\ (i # 1 => i - 1 \in 1..Len(db))
      BY <1>2, <2>1 DEF Linked
    <3>2. QED
      BY <1>3, <3>1 DEF LinkedAt
  <2>2. QED
    BY <1>3, <2>1 DEF Linked
<1>5. QED
  BY <1>1, <1>4 DEF ChainInv, ChainLinked, HeadInv, Writing

\* After a publish the head is the digest of the last row.
LEMMA PublishKeepsChain ==
  ASSUME TypeOK, Exclusive, RowsInv, ChainInv, NEW t \in Thread, Publish(t)
  PROVE  ChainInv'
<1>1. /\ db' = db /\ disk' = disk /\ faults' = faults /\ pc[t] = "publish"
      /\ prevHash' = own[t].hash
  BY DEF Publish, HeadAfter
<1>2. Len(db) > 0 /\ db[Len(db)].hash = own[t].hash
  BY <1>1 DEF RowsInv, OwnInv, Writing
<1>3. LastHash(db) = own[t].hash
  <2>1. db # <<>>
    BY <1>2
  <2>2. QED
    BY <1>2, <2>1 DEF LastHash
<1>4. QED
  BY <1>1, <1>3 DEF ChainInv, ChainLinked, HeadInv

\* Every step of the store keeps the chain.
LEMMA ChainStep == TypeOK /\ Exclusive /\ RowsInv /\ ChainInv /\ [Next]_vars => ChainInv'
<1> SUFFICES ASSUME TypeOK, Exclusive, RowsInv, ChainInv, [Next]_vars
             PROVE  ChainInv'
  OBVIOUS
<1>1. ASSUME NEW t \in Thread, Append_(t) \/ WriteFails(t)
      PROVE  ChainInv'
  <2>1. CASE Enter(t)
    <3>1. db' = db /\ disk' = disk /\ prevHash' = prevHash /\ faults' = faults
      BY <2>1 DEF Enter
    <3>2. \A u \in Thread : pc[u] \notin Writing
      BY <2>1, ThreadAssumption DEF Enter, LockFree, Exclusive, Writing
    <3>3. QED
      BY <3>1, <3>2 DEF ChainInv, ChainLinked, HeadInv
  <2>2. CASE Commit(t) \/ CommitNumber(t)
    <3>1. db' = db /\ disk' = db /\ prevHash' = prevHash /\ faults' = faults /\ pc'[t] \in Writing
      BY <2>2 DEF Commit, CommitNumber, Writing, TypeOK
    <3>2. QED
      BY <3>1 DEF ChainInv, ChainLinked, HeadInv
  <2>3. CASE WriteFails(t)
    <3>1. faults' = faults + 1 /\ faults \in Nat
      BY <2>3 DEF WriteFails, TypeOK
    <3>2. faults' # 0
      BY <3>1
    <3>3. QED
      BY <3>2 DEF ChainInv, ChainLinked, HeadInv
  <2>4. QED
    BY <1>1, <2>1, <2>2, <2>3, InsertKeepsChain, NumberKeepsChain, PublishKeepsChain DEF Append_
<1>2. CASE Reopen
  <2>1. db' = disk /\ disk' = disk /\ prevHash' = LastHash(disk) /\ faults' = faults
    BY <1>2 DEF Reopen
  <2>2. QED
    BY <2>1 DEF ChainInv, ChainLinked, HeadInv
<1>3. ASSUME UNCHANGED <<db, disk, prevHash, pc, faults>>
      PROVE  ChainInv'
  BY <1>3 DEF ChainInv, ChainLinked, HeadInv
<1>4. ASSUME NEW q \in Queue, Subscribe(q) \/ Unsubscribe(q) \/ Take(q)
      PROVE  ChainInv'
  BY <1>3, <1>4 DEF Subscribe, Unsubscribe, Take
<1>5. CASE UNCHANGED vars
  BY <1>3, <1>5 DEF vars
<1>6. QED
  BY <1>1, <1>2, <1>4, <1>5 DEF Next

------------------------------------------------------------------------------
(***************************************************************************)
(* The breaks of the chain.                                                *)
(***************************************************************************)

LEMMA BreaksFinite ==
  ASSUME NEW log \in Seq(Row)
  PROVE  IsFiniteSet(Breaks(log)) /\ Cardinality(Breaks(log)) \in Nat
<1>1. Len(log) \in Nat /\ Breaks(log) \in SUBSET (1..Len(log))
  BY LenProperties DEF Breaks
<1>2. IsFiniteSet(1..Len(log))
  BY <1>1, FS_Interval
<1>3. QED
  BY <1>1, <1>2, FS_Subset, FS_CardinalityType

\* Rows that keep their links, from the first on, break no more often.
LEMMA BreaksShrink ==
  ASSUME NEW a \in Seq(Row), NEW b \in Seq(Row), Len(b) <= Len(a),
         \A i \in 1..Len(b) : a[i].id = b[i].id /\ a[i].prev = b[i].prev /\ a[i].hash = b[i].hash
  PROVE  Cardinality(Breaks(b)) <= Cardinality(Breaks(a))
<1>1. Len(a) \in Nat /\ Len(b) \in Nat
  BY LenProperties
<1>2. ASSUME NEW i \in 1..Len(b), LinkedAt(a, i)
      PROVE  LinkedAt(b, i)
  <2>1. i # 1 => i - 1 \in 1..Len(b)
    BY <1>1
  <2>2. QED
    BY <1>2, <2>1 DEF LinkedAt
<1>3. Breaks(b) \in SUBSET Breaks(a)
  BY <1>1, <1>2 DEF Breaks
<1>4. QED
  BY <1>3, BreaksFinite, FS_Subset

\* One more row is one more break, and none if it continues the last row.
LEMMA BreaksGrow ==
  ASSUME NEW log \in Seq(Row), NEW row \in Row, row.hash = Digest(row.prev, row.id)
  PROVE  Cardinality(Breaks(Append(log, row)))
           <= Cardinality(Breaks(log)) + (IF row.prev = LastHash(log) THEN 0 ELSE 1)
<1> DEFINE longer == Append(log, row)
           n == Len(log) + 1
<1>1. /\ Len(log) \in Nat /\ Len(longer) = n /\ longer \in Seq(Row) /\ longer[n] = row
      /\ \A i \in 1..Len(log) : longer[i] = log[i]
  BY LenProperties
<1>2. ASSUME NEW i \in 1..Len(log), LinkedAt(log, i)
      PROVE  LinkedAt(longer, i)
  <2>1. i # 1 => i - 1 \in 1..Len(log)
    BY <1>1
  <2>2. QED
    BY <1>1, <1>2, <2>1 DEF LinkedAt
<1>3. Breaks(longer) \in SUBSET (Breaks(log) \cup {n})
  BY <1>1, <1>2 DEF Breaks
<1>4. ASSUME row.prev = LastHash(log)
      PROVE  LinkedAt(longer, n)
  <2>1. CASE log = <<>>
    BY <1>1, <1>4, <2>1, EmptySeq DEF LinkedAt, LastHash
  <2>2. CASE log # <<>>
    <3>1. n # 1 /\ n - 1 = Len(log) /\ Len(log) \in 1..Len(log)
      BY <1>1, <2>2, EmptySeq
    <3>2. QED
      BY <1>1, <1>4, <2>2, <3>1 DEF LinkedAt, LastHash
  <2>3. QED
    BY <2>1, <2>2
<1>5. /\ IsFiniteSet(Breaks(log)) /\ Cardinality(Breaks(log)) \in Nat
      /\ IsFiniteSet(Breaks(longer)) /\ Cardinality(Breaks(longer)) \in Nat
  BY <1>1, BreaksFinite
<1>6. CASE row.prev = LastHash(log)
  <2>1. Breaks(longer) \in SUBSET Breaks(log)
    BY <1>3, <1>4, <1>6 DEF Breaks
  <2>2. Cardinality(Breaks(longer)) <= Cardinality(Breaks(log))
    BY <1>5, <2>1, FS_Subset
  <2>3. QED
    BY <1>5, <1>6, <2>2
<1>7. CASE row.prev # LastHash(log)
  <2>1. /\ IsFiniteSet(Breaks(log) \cup {n})
        /\ Cardinality(Breaks(log) \cup {n}) = IF n \in Breaks(log) THEN Cardinality(Breaks(log))
                                               ELSE Cardinality(Breaks(log)) + 1
    BY <1>5, FS_AddElement
  <2>2. Cardinality(Breaks(longer)) <= Cardinality(Breaks(log) \cup {n})
    BY <1>3, <2>1, FS_Subset
  <2>3. QED
    BY <1>5, <1>7, <2>1, <2>2
<1>8. QED
  BY <1>6, <1>7

\* append() pays for every break with a failed write.
LEMMA BreakStep == TypeOK /\ TypeOK' /\ Exclusive /\ RowsInv /\ BreakInv /\ [Next]_vars => BreakInv'
<1> SUFFICES ASSUME TypeOK, TypeOK', Exclusive, RowsInv, BreakInv, [Next]_vars
             PROVE  BreakInv'
  OBVIOUS
<1> DEFINE cost == Cardinality(Breaks(db))
<1>0. /\ db \in Seq(Row) /\ db' \in Seq(Row) /\ disk \in Seq(Row) /\ faults \in Nat
      /\ cost \in Nat /\ cost' \in Nat
  BY BreaksFinite DEF TypeOK
<1>1. ASSUME Len(db') <= Len(db),
             \A i \in 1..Len(db') : /\ db[i].id = db'[i].id
                                    /\ db[i].prev = db'[i].prev
                                    /\ db[i].hash = db'[i].hash
      PROVE  cost' <= cost
  BY <1>0, <1>1, BreaksShrink
<1>2. Len(db) \in Nat /\ Len(disk) \in Nat /\ cost <= faults
  BY <1>0, RowTypes DEF BreakInv
<1>3. db' \in {db, disk} => cost' <= cost
  BY <1>0, <1>1, <1>2 DEF RowsInv, PrefixInv, SameRow
<1>4. ASSUME UNCHANGED <<db, prevHash, pc, faults>>
      PROVE  BreakInv'
  BY <1>4 DEF BreakInv, Behind
<1>5. ASSUME NEW t \in Thread, Enter(t)
      PROVE  BreakInv'
  <2>1. /\ db' = db /\ prevHash' = prevHash /\ faults' = faults
        /\ pc' = [pc EXCEPT ![t] = "insert"]
    BY <1>5 DEF Enter
  <2>2. \A u \in Thread : pc[u] \notin Writing
    BY <1>5, ThreadAssumption DEF Enter, LockFree, Exclusive, Writing
  <2>3. Behind' => Behind
    BY <2>1, <2>2 DEF Behind
  <2>4. QED
    BY <1>0, <2>1, <2>3 DEF BreakInv
<1>6. ASSUME NEW t \in Thread, Insert(t)
      PROVE  BreakInv'
  <2>1. /\ db' = Append(db, own[t]) /\ prevHash' = prevHash /\ faults' = faults
        /\ pc[t] = "insert" /\ pc'[t] \in Writing /\ own[t] \in Row
    BY <1>6, RowTypes DEF Insert, Writing, TypeOK
  <2>2. own[t].prev = prevHash /\ own[t].hash = Digest(own[t].prev, own[t].id)
    BY <2>1 DEF RowsInv, OwnInv
  <2>3. \A u \in Thread : pc[u] \notin Writing
    BY <2>1, OthersIdle DEF Writing
  <2>4. cost' <= cost + (IF own[t].prev = LastHash(db) THEN 0 ELSE 1)
    BY <1>0, <2>1, <2>2, BreaksGrow
  <2>5. cost + (IF own[t].prev = LastHash(db) THEN 0 ELSE 1) <= faults
    BY <1>0, <2>2, <2>3 DEF BreakInv, Behind
  <2>6. ~Behind'
    BY <2>1 DEF Behind
  <2>7. QED
    BY <1>0, <2>1, <2>4, <2>5, <2>6 DEF BreakInv
<1>7. ASSUME NEW t \in Thread, Commit(t) \/ CommitNumber(t)
      PROVE  BreakInv'
  <2>1. db' = db /\ faults' = faults /\ pc'[t] \in Writing
    BY <1>7 DEF Commit, CommitNumber, Writing, TypeOK
  <2>2. ~Behind'
    BY <2>1 DEF Behind
  <2>3. QED
    BY <1>0, <1>2, <2>1, <2>2 DEF BreakInv
<1>8. ASSUME NEW t \in Thread, Number(t)
      PROVE  BreakInv'
  <2>1. faults' = faults /\ pc[t] = "number" /\ pc'[t] \in Writing
    BY <1>8 DEF Number, Writing, TypeOK
  <2>2. Len(db) > 0
    BY <2>1 DEF RowsInv, OwnInv, Writing
  <2>3. Len(db') = Len(db) /\ \A i \in 1..Len(db) : /\ db'[i].id = db[i].id
                                                    /\ db'[i].prev = db[i].prev
                                                    /\ db'[i].hash = db[i].hash
    <3>1. \A i \in 1..Len(db) : db[i] \in Row
      BY RowTypes
    <3>2. [db[Len(db)] EXCEPT !.sequence = Len(db)] \in Row
      BY <1>2, <2>2, <3>1 DEF Row
    <3>3. db' = [db EXCEPT ![Len(db)] = [db[Len(db)] EXCEPT !.sequence = Len(db)]]
      BY <1>8 DEF Number
    <3>4. /\ Len(db') = Len(db)
          /\ \A i \in 1..Len(db) : db'[i] = IF i = Len(db)
                                            THEN [db[Len(db)] EXCEPT !.sequence = Len(db)]
                                            ELSE db[i]
      BY <1>0, <1>2, <2>2, <3>2, <3>3, ExceptSeq
    <3>5. QED
      BY <3>1, <3>4 DEF Row
  <2>4. cost' <= cost
    BY <1>1, <1>2, <2>3
  <2>5. ~Behind'
    BY <2>1 DEF Behind
  <2>6. QED
    BY <1>0, <1>2, <2>1, <2>4, <2>5 DEF BreakInv
<1>9. ASSUME NEW t \in Thread, Publish(t)
      PROVE  BreakInv'
  <2>1. db' = db /\ faults' = faults /\ pc[t] = "publish" /\ prevHash' = own[t].hash
    BY <1>9 DEF Publish, HeadAfter
  <2>2. Len(db) > 0 /\ db[Len(db)].hash = own[t].hash
    BY <2>1 DEF RowsInv, OwnInv, Writing
  <2>3. db # <<>>
    BY <2>2, EmptySeq
  <2>4. ~Behind'
    BY <2>1, <2>2, <2>3 DEF Behind, LastHash
  <2>5. QED
    BY <1>0, <1>2, <2>1, <2>4 DEF BreakInv
<1>10. ASSUME NEW t \in Thread, WriteFails(t)
       PROVE  BreakInv'
  <2>1. db' \in {db, disk} /\ faults' = faults + 1
    BY <1>10 DEF WriteFails
  <2>2. cost' <= cost
    BY <1>3, <2>1
  <2>3. QED
    BY <1>0, <1>2, <2>1, <2>2 DEF BreakInv
<1>11. CASE Reopen
  <2>1. db' = disk /\ prevHash' = LastHash(disk) /\ faults' = faults
    BY <1>11 DEF Reopen
  <2>2. cost' <= cost /\ ~Behind'
    BY <1>3, <2>1 DEF Behind
  <2>3. QED
    BY <1>0, <1>2, <2>1, <2>2 DEF BreakInv
<1>12. ASSUME NEW q \in Queue, Subscribe(q) \/ Unsubscribe(q) \/ Take(q)
       PROVE  BreakInv'
  BY <1>4, <1>12 DEF Subscribe, Unsubscribe, Take
<1>13. CASE UNCHANGED vars
  BY <1>4, <1>13 DEF vars
<1>14. QED
  BY <1>5, <1>6, <1>7, <1>8, <1>9, <1>10, <1>11, <1>12, <1>13 DEF Next, Append_

\* The inductive invariant holds in every state.
THEOREM Invariant == Spec => []IInv
<1>1. Init => IInv
  <2> SUFFICES ASSUME Init
               PROVE  Exclusive /\ RowsInv /\ ChainInv /\ BreakInv /\ TypeOK
    BY DEF IInv, ChainInv
  <2>1. db = <<>> /\ disk = <<>> /\ Len(db) = 0 /\ Len(disk) = 0 /\ prevHash = LastHash(db)
    BY EmptySeq DEF Init
  <2>2. \A t \in Thread : pc[t] = "idle"
    BY DEF Init
  <2>3. Exclusive
    BY <2>2, ThreadAssumption DEF Init, Exclusive
  <2>4. RowsInv
    <3>1. PrefixInv /\ BodyInv(db)
      BY <2>1 DEF PrefixInv, BodyInv
    <3>2. \A t \in Thread : OwnInv(t) /\ CommitInv(t)
      BY <2>2 DEF OwnInv, CommitInv, Writing
    <3>3. QED
      BY <3>1, <3>2 DEF RowsInv
  <2>5. ChainInv
    BY <2>1 DEF ChainInv, ChainLinked, HeadInv, Linked
  <2>6. TypeOK
    BY InitType
  <2>7. BreakInv
    <3>1. Breaks(db) = {} /\ ~Behind /\ faults = 0
      BY <2>1 DEF Init, Breaks, Behind
    <3>2. QED
      BY <3>1, FS_EmptySet DEF BreakInv
  <2>8. QED
    BY <2>3, <2>4, <2>5, <2>6, <2>7
<1>2. IInv /\ [Next]_vars => IInv'
  BY TypeStep, ExclusiveStep, RowsStep, ChainStep, BreakStep DEF IInv, ChainInv
<1>3. QED
  BY <1>1, <1>2, PTL DEF Spec

\* As long as no write has failed, the rows form one chain from genesis, at
\* every step of every append and across every crash and restart.
THEOREM ChainSafe == Spec => []ChainLinked
<1>1. IInv => ChainLinked
  BY DEF IInv
<1>2. QED
  BY <1>1, Invariant, PTL

\* A write that fails costs the chain at most one break, however often writes
\* fail, the process dies and append() is called.
THEOREM BreaksPaidFor == Spec => []BreaksBounded
<1>1. IInv => BreaksBounded
  <2> SUFFICES ASSUME IInv
               PROVE  BreaksBounded
    OBVIOUS
  <2>1. TypeOK /\ PrefixInv /\ BodyInv(db) /\ BreakInv
    BY DEF IInv, RowsInv
  <2>2. db \in Seq(Row) /\ disk \in Seq(Row) /\ faults \in Nat
    BY <2>1 DEF TypeOK
  <2>3. Cardinality(Breaks(db)) \in Nat /\ Cardinality(Breaks(disk)) \in Nat
    BY <2>2, BreaksFinite
  <2>4. Cardinality(Breaks(disk)) <= Cardinality(Breaks(db))
    BY <2>1, <2>2, BreaksShrink DEF PrefixInv, SameRow
  <2>5. BodyInv(disk)
    BY <2>1, DiskBody
  <2>6. QED
    BY <2>1, <2>2, <2>3, <2>4, <2>5 DEF BreaksBounded, BreakInv, BodyInv
<1>2. QED
  BY <1>1, Invariant, PTL

------------------------------------------------------------------------------
(***************************************************************************)
(* The committed rows grow only at their end.                              *)
(***************************************************************************)

\* No step takes a committed row back, moves it, or changes its identity.
LEMMA DiskGrows ==
  ASSUME TypeOK, RowsInv, [Next]_vars
  PROVE  /\ Len(disk') >= Len(disk)
         /\ \A i \in 1..Len(disk) :
              /\ disk'[i].id = disk[i].id /\ disk'[i].prev = disk[i].prev
              /\ disk'[i].hash = disk[i].hash
              /\ disk[i].sequence = i => disk'[i].sequence = i
<1>1. Len(disk) \in Nat
  BY RowTypes
<1>2. CASE disk' = disk
  BY <1>1, <1>2
<1>3. CASE disk' = db
  BY <1>1, <1>3 DEF RowsInv, PrefixInv, SameRow
<1>4. disk' = disk \/ disk' = db
  BY DEF Next, Append_, Enter, Insert, Commit, Number, CommitNumber, Publish, WriteFails,
         Subscribe, Unsubscribe, Take, Reopen, vars
<1>5. QED
  BY <1>2, <1>3, <1>4

\* The head in memory is always the digest of a committed row, also after
\* failed writes, rollbacks and crashes: nothing is chained to a lost row.
THEOREM HeadSafe == Spec => []HeadIsCommitted
<1>1. Init => HeadIsCommitted
  BY DEF Init, HeadIsCommitted, LastHash
<1>2. IInv /\ HeadIsCommitted /\ [Next]_vars => HeadIsCommitted'
  <2> SUFFICES ASSUME IInv, HeadIsCommitted, [Next]_vars
               PROVE  HeadIsCommitted'
    OBVIOUS
  <2>0. TypeOK /\ RowsInv
    BY DEF IInv
  <2>1. CASE prevHash' = prevHash
    <3>1. CASE prevHash = Genesis
      BY <2>1, <3>1 DEF HeadIsCommitted
    <3>2. CASE \E i \in 1..Len(disk) : disk[i].hash = prevHash
      <4>1. PICK i \in 1..Len(disk) : disk[i].hash = prevHash
        BY <3>2
      <4>2. Len(disk) \in Nat /\ Len(disk') \in Nat
        BY <2>0, RowTypes, TypeStep, LenProperties DEF TypeOK
      <4>3. i \in 1..Len(disk') /\ disk'[i].hash = prevHash'
        BY <2>0, <2>1, <4>1, <4>2, DiskGrows
      <4>4. QED
        BY <4>3 DEF HeadIsCommitted
    <3>3. QED
      BY <3>1, <3>2 DEF HeadIsCommitted
  <2>2. ASSUME NEW t \in Thread, Publish(t)
        PROVE  HeadIsCommitted'
    <3>1. pc[t] = "publish" /\ disk' = disk /\ prevHash' = own[t].hash
      BY <2>2 DEF Publish, HeadAfter
    <3>2. disk = db /\ Len(db) > 0 /\ db[Len(db)].hash = own[t].hash
      BY <2>0, <3>1 DEF RowsInv, OwnInv, CommitInv, Writing
    <3>3. Len(disk') \in 1..Len(disk') /\ disk'[Len(disk')].hash = prevHash'
      BY <2>0, <3>1, <3>2, RowTypes
    <3>4. QED
      BY <3>3 DEF HeadIsCommitted
  <2>3. CASE Reopen
    <3>1. disk' = disk /\ prevHash' = LastHash(disk)
      BY <2>3 DEF Reopen
    <3>2. CASE disk = <<>>
      BY <3>1, <3>2 DEF LastHash, HeadIsCommitted
    <3>3. CASE disk # <<>>
      <4>1. Len(disk) \in 1..Len(disk)
        BY <2>0, <3>3, EmptySeq, RowTypes DEF TypeOK
      <4>2. disk[Len(disk)].hash = prevHash'
        BY <3>1, <3>3 DEF LastHash
      <4>3. QED
        BY <3>1, <4>1, <4>2 DEF HeadIsCommitted
    <3>4. QED
      BY <3>2, <3>3
  <2>4. prevHash' = prevHash \/ Reopen \/ \E t \in Thread : Publish(t)
    BY DEF Next, Append_, Enter, Insert, Commit, Number, CommitNumber, WriteFails,
           HeadAfterError, Subscribe, Unsubscribe, Take, vars
  <2>5. QED
    BY <2>1, <2>2, <2>3, <2>4
<1>3. QED
  BY <1>1, <1>2, Invariant, PTL DEF Spec

\* The store implements the append-only log.
THEOREM StoreImplementsLog == Spec => LogSpec
<1> DEFINE ids == [i \in 1..Len(disk) |-> disk[i].id]
           numbered == {i \in 1..Len(disk) : disk[i].sequence = i}
<1>1. Init => Log!Init
  <2> SUFFICES ASSUME Init
               PROVE  ids = <<>> /\ numbered = {}
    BY DEF Log!Init
  <2>1. disk = <<>> /\ Len(disk) = 0
    BY EmptySeq DEF Init
  <2>2. QED
    BY <2>1
<1>2. IInv /\ IInv' /\ [Next]_vars => [Log!Next]_Log!logVars
  <2> SUFFICES ASSUME IInv, IInv', [Next]_vars
               PROVE  Log!Next
    OBVIOUS
  <2>1. TypeOK /\ RowsInv /\ TypeOK' /\ RowsInv'
    BY DEF IInv
  <2>2. Len(disk) \in Nat /\ Len(disk') \in Nat /\ Len(disk) <= Len(disk')
    BY <2>1, RowTypes, DiskGrows, LenProperties DEF TypeOK
  <2>3. Len(ids) = Len(disk) /\ Len(ids') = Len(disk')
    BY <2>2
  <2>4. Log!Extends(ids', ids)
    BY <2>1, <2>2, <2>3, DiskGrows DEF Log!Extends
  <2>5. Log!NoRepeats(ids')
    <3>1. \A i, j \in 1..Len(disk') : i < j => disk'[i].id < disk'[j].id
      <4>1. \A i \in 1..Len(disk') : i \in 1..Len(db') /\ disk'[i].id = db'[i].id
        BY <2>1, <2>2, LenProperties DEF RowsInv, PrefixInv, SameRow, TypeOK
      <4>2. QED
        BY <2>1, <4>1 DEF RowsInv, BodyInv
    <3>2. \A i \in 1..Len(disk') : disk'[i].id \in Nat
      <4>1. disk' \in Seq(Row)
        BY <2>1 DEF TypeOK
      <4>2. \A i \in 1..Len(disk') : disk'[i] \in Row
        BY <4>1, ElementOfSeq
      <4>3. QED
        BY <4>2 DEF Row
    <3>3. \A i, j \in 1..Len(disk') : disk'[i].id = disk'[j].id => i = j
      BY <2>2, <3>1, <3>2
    <3>4. QED
      BY <2>2, <2>3, <3>3 DEF Log!NoRepeats
  <2>6. numbered \subseteq numbered' /\ numbered' \subseteq 1..Len(ids')
    BY <2>1, <2>2, <2>3, DiskGrows
  <2>7. QED
    BY <2>4, <2>5, <2>6 DEF Log!Next, Log!Record, Log!Number
<1>3. QED
  BY <1>1, <1>2, Invariant, PTL DEF Spec, LogSpec, Log!Spec

------------------------------------------------------------------------------
(***************************************************************************)
(* The subscriber queues.                                                  *)
(***************************************************************************)

\* Between the INSERT of a row and its publication no queue holds it.
Unpublished ==
  \A t \in Thread : pc[t] \in Writing =>
    \A q \in DOMAIN queues : \A i \in 1..Len(queues[q]) : queues[q][i] < Len(db)

QueueInv == FanOutFaithful /\ Unpublished

\* Committing more rows spoils no queue.
LEMMA FaithfulStays ==
  ASSUME TypeOK, TypeOK', RowsInv, [Next]_vars, NEW s \in Seq(Nat), Faithful(s)
  PROVE  Faithful(s)'
<1>1. Len(disk) \in Nat /\ Len(disk') \in Nat
  BY LenProperties DEF TypeOK
<1>2. Len(disk) <= Len(disk') /\ \A i \in 1..Len(disk) : disk[i].sequence = i => disk'[i].sequence = i
  BY <1>1, DiskGrows
<1>3. QED
  BY <1>1, <1>2 DEF Faithful

\* A queue that gets the row being published, or is full and does not.
LEMMA FaithfulOffer ==
  ASSUME TypeOK, RowsInv, NEW s \in Seq(Nat), Faithful(s),
         NEW n \in Nat, n = Len(disk), n > 0, disk[n].sequence = n,
         \A i \in 1..Len(s) : s[i] < n
  PROVE  Faithful(Offer(s, n))
<1>1. CASE Len(s) < QueueCap
  <2>1. Offer(s, n) = Append(s, n)
    BY <1>1 DEF Offer
  <2>2. Len(s) \in Nat
    BY LenProperties
  <2>3. /\ Len(Append(s, n)) = Len(s) + 1
        /\ \A i \in 1..Len(s) : Append(s, n)[i] = s[i]
        /\ Append(s, n)[Len(s) + 1] = n
    BY <2>2
  <2>4. \A i \in 1..Len(Append(s, n)) : i \in 1..Len(s) \/ i = Len(s) + 1
    BY <2>2, <2>3
  <2>5. n \in 1..Len(disk)
    OBVIOUS
  <2>6. \A i \in 1..Len(Append(s, n)) : /\ Append(s, n)[i] \in 1..Len(disk)
                                        /\ disk[Append(s, n)[i]].sequence = Append(s, n)[i]
    BY <2>3, <2>4, <2>5 DEF Faithful
  <2>7. ASSUME NEW i \in 1..Len(Append(s, n)), NEW j \in 1..Len(Append(s, n)), i < j
        PROVE  Append(s, n)[i] < Append(s, n)[j]
    <3>1. i \in 1..Len(s)
      BY <2>2, <2>3, <2>7
    <3>2. CASE j \in 1..Len(s)
      BY <2>3, <2>7, <3>1, <3>2 DEF Faithful
    <3>3. CASE j = Len(s) + 1
      BY <2>3, <3>1, <3>3
    <3>4. QED
      BY <2>4, <3>2, <3>3
  <2>8. QED
    BY <2>1, <2>6, <2>7 DEF Faithful
<1>2. CASE ~ (Len(s) < QueueCap)
  BY <1>2 DEF Offer
<1>3. QED
  BY <1>1, <1>2

\* A queue stays in order when a subscriber takes from it.
LEMMA FaithfulTail ==
  ASSUME NEW s \in Seq(Nat), s # <<>>, Faithful(s)
  PROVE  Faithful(Tail(s))
<1>1. /\ Len(Tail(s)) = Len(s) - 1 /\ Len(s) \in Nat
      /\ \A i \in 1..Len(Tail(s)) : Tail(s)[i] = s[i + 1] /\ i + 1 \in 1..Len(s)
  BY HeadTailProperties, LenProperties
<1>2. QED
  BY <1>1 DEF Faithful

\* Every step of the store keeps the queues faithful.
LEMMA QueueStep == IInv /\ IInv' /\ QueueInv /\ [Next]_vars => QueueInv'
<1> SUFFICES ASSUME IInv, IInv', QueueInv, [Next]_vars
             PROVE  QueueInv'
  OBVIOUS
<1>0. TypeOK /\ TypeOK' /\ Exclusive /\ RowsInv /\ pc \in [Thread -> Steps]
  BY DEF IInv, TypeOK
<1>1. Len(db) \in Nat /\ Len(disk) \in Nat /\ Len(disk) <= Len(db)
  BY <1>0, RowTypes DEF RowsInv, PrefixInv
<1>2. \A q \in DOMAIN queues : queues[q] \in Seq(Nat) /\ Faithful(queues[q])
  BY <1>0 DEF TypeOK, QueueInv, FanOutFaithful
<1>4. ASSUME queues' = queues
      PROVE  FanOutFaithful'
  <2>1. ASSUME NEW q \in DOMAIN queues
        PROVE  Faithful(queues[q])'
    <3>1. PICK s \in Seq(Nat) : s = queues[q] /\ Faithful(s)
      BY <1>2
    <3>2. Faithful(s)'
      BY <1>0, <3>1, FaithfulStays
    <3>3. QED
      BY <1>4, <3>1, <3>2 DEF Faithful
  <2>2. QED
    BY <1>4, <2>1 DEF FanOutFaithful
<1>5. ASSUME NEW t \in Thread, Enter(t) \/ Insert(t) \/ Commit(t) \/ Number(t) \/ CommitNumber(t)
      PROVE  QueueInv'
  <2>1. queues' = queues /\ pc[t] \in Steps /\ \A u \in Thread \ {t} : pc'[u] = pc[u]
    BY <1>0, <1>5 DEF Enter, Insert, Commit, Number, CommitNumber
  <2>2. \A u \in Thread : pc'[u] \in Writing => u = t
    <3>1. CASE Enter(t)
      BY <1>0, <2>1, <3>1, ThreadAssumption DEF Enter, LockFree, Exclusive, Writing
    <3>2. CASE pc[t] # "idle"
      BY <1>0, <2>1, <3>2, OthersIdle DEF Writing
    <3>3. QED
      BY <1>5, <3>1, <3>2 DEF Insert, Commit, Number, CommitNumber
  <2>3. CASE Enter(t)
    <3>1. pc'[t] = "insert"
      BY <1>0, <2>3 DEF Enter
    <3>2. QED
      BY <1>4, <2>1, <2>2, <3>1 DEF QueueInv, Unpublished, Writing
  <2>4. CASE Insert(t)
    <3>1. Len(db') = Len(db) + 1
      BY <1>0, <2>4, RowTypes DEF Insert, TypeOK
    <3>2. \A q \in DOMAIN queues : \A i \in 1..Len(queues[q]) : queues[q][i] \in 1..Len(disk)
      BY <1>2 DEF Faithful
    <3>3. \A q \in DOMAIN queues : \A i \in 1..Len(queues[q]) : queues[q][i] < Len(db')
      BY <1>1, <3>1, <3>2
    <3>4. QED
      BY <1>4, <2>1, <3>3 DEF QueueInv, Unpublished
  <2>5. CASE Commit(t) \/ Number(t) \/ CommitNumber(t)
    <3>1. pc[t] \in Writing
      BY <2>5 DEF Commit, Number, CommitNumber, Writing
    <3>2. Len(db') = Len(db)
      <4>1. CASE Commit(t) \/ CommitNumber(t)
        BY <4>1 DEF Commit, CommitNumber
      <4>2. CASE Number(t)
        <5>1. db \in Seq(Row) /\ db' \in Seq(Row) /\ DOMAIN db' = DOMAIN db
          BY <1>0, <4>2 DEF Number, TypeOK
        <5>2. QED
          BY <5>1, LenProperties
      <4>3. QED
        BY <2>5, <4>1, <4>2
    <3>3. QED
      BY <1>4, <2>1, <2>2, <3>1, <3>2 DEF QueueInv, Unpublished
  <2>6. QED
    BY <1>5, <2>3, <2>4, <2>5
<1>6. ASSUME NEW t \in Thread, Publish(t)
      PROVE  QueueInv'
  <2>1. /\ disk' = disk /\ pc[t] = "publish" /\ pc' = [pc EXCEPT ![t] = "idle"]
        /\ DOMAIN queues' = DOMAIN queues
        /\ \A q \in DOMAIN queues : queues'[q] = Offer(queues[q], own[t].sequence)
    BY <1>6 DEF Publish
  <2>2. \A u \in Thread : pc'[u] = "idle"
    BY <1>0, <2>1, OthersIdle
  <2>3. /\ own[t].sequence = Len(disk) /\ Len(disk) > 0 /\ Len(db) = Len(disk)
        /\ disk[Len(disk)].sequence = Len(disk)
    BY <1>0, <2>1 DEF RowsInv, OwnInv, CommitInv, Writing
  <2>4. ASSUME NEW q \in DOMAIN queues
        PROVE  Faithful(queues'[q])
    <3>1. \A i \in 1..Len(queues[q]) : queues[q][i] < Len(disk)
      BY <2>1, <2>3 DEF QueueInv, Unpublished, Writing
    <3>2. Faithful(Offer(queues[q], Len(disk)))
      BY <1>0, <1>1, <1>2, <2>3, <3>1, FaithfulOffer
    <3>3. QED
      BY <2>1, <2>3, <3>2
  <2>5. FanOutFaithful'
    BY <2>1, <2>4 DEF FanOutFaithful, Faithful
  <2>6. QED
    BY <2>2, <2>5 DEF QueueInv, Unpublished, Writing
<1>7. ASSUME NEW q \in Queue, Subscribe(q) \/ Unsubscribe(q) \/ Take(q)
      PROVE  QueueInv'
  <2>1. disk' = disk /\ db' = db /\ pc' = pc
    BY <1>7 DEF Subscribe, Unsubscribe, Take
  <2>2. \A x \in DOMAIN queues' :
          \/ queues'[x] = <<>>
          \/ x \in DOMAIN queues /\ queues'[x] = queues[x]
          \/ x \in DOMAIN queues /\ queues[x] # <<>> /\ queues'[x] = Tail(queues[x])
    BY <1>7 DEF Subscribe, Unsubscribe, Take
  <2>3. Faithful(<<>>)
    BY EmptySeq DEF Faithful
  <2>4. ASSUME NEW x \in DOMAIN queues'
        PROVE  Faithful(queues'[x])
    BY <1>2, <2>2, <2>3, FaithfulTail
  <2>5. FanOutFaithful'
    BY <2>1, <2>4 DEF FanOutFaithful, Faithful
  <2>6. ASSUME NEW t \in Thread, pc[t] \in Writing, NEW x \in DOMAIN queues',
               NEW i \in 1..Len(queues'[x])
        PROVE  queues'[x][i] < Len(db)
    <3>1. CASE queues'[x] = <<>>
      BY <3>1, EmptySeq
    <3>2. CASE x \in DOMAIN queues /\ queues'[x] = queues[x]
      BY <2>6, <3>2 DEF QueueInv, Unpublished
    <3>3. CASE x \in DOMAIN queues /\ queues[x] # <<>> /\ queues'[x] = Tail(queues[x])
      <4>1. queues'[x][i] = queues[x][i + 1] /\ i + 1 \in 1..Len(queues[x])
        BY <1>2, <3>3, HeadTailProperties, LenProperties
      <4>2. QED
        BY <2>6, <3>3, <4>1 DEF QueueInv, Unpublished
    <3>4. QED
      BY <2>2, <3>1, <3>2, <3>3
  <2>7. QED
    BY <2>1, <2>5, <2>6 DEF QueueInv, Unpublished
<1>8. ASSUME NEW t \in Thread, WriteFails(t)
      PROVE  QueueInv'
  <2>1. queues' = queues /\ pc[t] # "idle" /\ pc' = [pc EXCEPT ![t] = "idle"]
    BY <1>8 DEF WriteFails
  <2>2. \A u \in Thread : pc'[u] = "idle"
    BY <1>0, <2>1, OthersIdle
  <2>3. QED
    BY <1>4, <2>1, <2>2 DEF QueueInv, Unpublished, Writing
<1>9. CASE Reopen
  <2>1. DOMAIN queues' = {}
    BY <1>9 DEF Reopen
  <2>2. QED
    BY <2>1 DEF QueueInv, FanOutFaithful, Unpublished
<1>10. CASE UNCHANGED vars
  BY <1>4, <1>10 DEF vars, QueueInv, Unpublished
<1>11. QED
  BY <1>5, <1>6, <1>7, <1>8, <1>9, <1>10 DEF Next, Append_

\* What a subscriber finds in its queue is committed, numbered, and in order.
THEOREM FanOutSafe == Spec => []FanOutFaithful
<1>1. Init => QueueInv
  BY DEF Init, QueueInv, FanOutFaithful, Unpublished
<1>2. QueueInv => FanOutFaithful
  BY DEF QueueInv
<1>3. QED
  BY <1>1, <1>2, QueueStep, Invariant, PTL DEF Spec

------------------------------------------------------------------------------
(***************************************************************************)
(* Least and greatest numbers.                                             *)
(***************************************************************************)

LEMMA LeastExists ==
  ASSUME NEW T \in SUBSET Nat, T # {}
  PROVE  \E x \in T : \A y \in T : x <= y
<1>1. ASSUME NEW R, IsWellFoundedOn(R, Nat), \A x, y \in Nat : y < x => <<y, x>> \in R
      PROVE  \E x \in T : \A y \in T : x <= y
  <2>1. PICK x \in T : \A y \in T : <<y, x>> \notin R
    BY <1>1, WFMin
  <2>2. \A y \in T : ~(y < x)
    BY <1>1, <2>1
  <2>3. QED
    BY <2>2
<1>2. \A x, y \in Nat : y < x => <<y, x>> \in OpToRel(<, Nat)
  BY DEF OpToRel
<1>3. QED
  BY <1>1, <1>2, NatLessThanWellFounded, Zenon

\* The least of some numbers is one of them.
LEMMA MinOf ==
  ASSUME NEW T \in SUBSET Nat, T # {}
  PROVE  Min(T) \in T /\ \A y \in T : Min(T) <= y
<1>1. \E x \in T : \A y \in T : x <= y
  BY LeastExists
<1>2. QED
  BY <1>1, Zenon DEF Min

\* The largest of numbers that are bounded is one of them.
LEMMA MaxOf ==
  ASSUME NEW T \in SUBSET Nat, NEW n \in Nat, T # {}, \A x \in T : x <= n
  PROVE  Max(T) \in T /\ \A y \in T : Max(T) >= y
<1> DEFINE D == {d \in Nat : n - d \in T}
<1>1. \A x \in T : x \in Nat /\ n - x \in D
  OBVIOUS
<1>2. PICK d \in D : \A e \in D : d <= e
  <2>1. D \in SUBSET Nat /\ D # {}
    BY <1>1
  <2> HIDE DEF D
  <2>2. QED
    BY <2>1, LeastExists
<1>3. n - d \in T /\ \A y \in T : n - d >= y
  BY <1>1, <1>2
<1>4. QED
  BY <1>3, Zenon DEF Max

\* The greatest number of an interval, and of a single one.
LEMMA MaxOfInterval ==
  ASSUME NEW a \in Nat, NEW b \in Nat, a <= b
  PROVE  Max(a..b) = b
<1>1. a..b \in SUBSET Nat /\ a..b # {} /\ \A x \in a..b : x <= b
  OBVIOUS
<1>2. Max(a..b) \in a..b /\ \A y \in a..b : Max(a..b) >= y
  BY <1>1, MaxOf
<1>3. QED
  BY <1>2

\* The smaller of two numbers.
LEMMA MinOfTwo ==
  ASSUME NEW a \in Nat, NEW b \in Nat
  PROVE  Min({a, b}) = IF a <= b THEN a ELSE b
<1>1. Min({a, b}) \in {a, b} /\ \A y \in {a, b} : Min({a, b}) <= y
  BY MinOf
<1>2. QED
  BY <1>1

------------------------------------------------------------------------------
(***************************************************************************)
(* The stream is a store with readers.                                     *)
(***************************************************************************)

LEMMA StreamStepIsStoreStep == [StreamNext]_streamVars => [Next]_vars
  BY DEF StreamNext, streamVars, StoreStep, Restart, Connect, Backlog, Forward, Hangup, Close, Next

\* What the stream adds to the store changes nothing of it: the readers of
\* /v1/events only subscribe, take and read.
THEOREM StreamIsStore == StreamSpec => Spec
<1>1. StreamInit => Init
  BY DEF StreamInit
<1>2. QED
  BY <1>1, StreamStepIsStoreStep, PTL DEF StreamSpec, Spec

------------------------------------------------------------------------------
(***************************************************************************)
(* Numbers and capacities, which the store keeps.                          *)
(***************************************************************************)

LEMMA NumberedStep ==
  ASSUME TypeOK, RowsInv, NumberedIsCommitted, [Next]_vars
  PROVE  NumberedIsCommitted'
<1>1. Len(db) \in Nat /\ Len(disk) \in Nat /\ \A t \in Thread : own[t] \in Row
  BY RowTypes
<1>2. ASSUME NEW t \in Thread, Insert(t)
      PROVE  NumberedIsCommitted'
  <2>1. db' = Append(db, own[t]) /\ disk' = disk /\ own[t].sequence = 0
    BY <1>2 DEF Insert, RowsInv, OwnInv
  <2>2. Len(db') = Len(db) + 1 /\ db'[Len(db) + 1] = own[t] /\ \A i \in 1..Len(db) : db'[i] = db[i]
    BY <1>1, <2>1 DEF TypeOK
  <2>3. ASSUME NEW i \in 1..Len(db'), db'[i].sequence # 0
        PROVE  i <= Len(disk)
    <3>1. i \in 1..Len(db)
      BY <1>1, <2>1, <2>2, <2>3
    <3>2. QED
      BY <2>2, <2>3, <3>1 DEF NumberedIsCommitted
  <2>4. QED
    BY <2>1, <2>3 DEF NumberedIsCommitted
<1>3. ASSUME Len(db') <= Len(disk'), Len(db') \in Nat, Len(disk') \in Nat
      PROVE  NumberedIsCommitted'
  BY <1>3 DEF NumberedIsCommitted
<1>4. ASSUME NEW t \in Thread, Number(t)
      PROVE  NumberedIsCommitted'
  <2>1. disk' = disk /\ disk = db /\ Len(db) > 0
    BY <1>4 DEF Number, RowsInv, OwnInv, CommitInv, Writing
  <2>2. db' = [db EXCEPT ![Len(db)].sequence = Len(db)] /\ DOMAIN db' = DOMAIN db
    BY <1>4 DEF Number
  <2>3. DOMAIN db' = 1..Len(db)
    BY <2>2 DEF TypeOK
  <2>4. Len(db') = Len(db)
    <3>1. \A i \in 1..Len(db) : db[i] \in Row
      BY RowTypes
    <3>2. [db[Len(db)] EXCEPT !.sequence = Len(db)] \in Row
      BY <1>1, <2>1, <3>1 DEF Row
    <3>3. db' = [db EXCEPT ![Len(db)] = [db[Len(db)] EXCEPT !.sequence = Len(db)]]
      BY <1>4 DEF Number
    <3>4. QED
      BY <1>1, <2>1, <3>2, <3>3, ExceptSeq DEF TypeOK
  <2>5. QED
    BY <1>1, <1>3, <2>1, <2>4
<1>5. ASSUME db' \in {db, disk}, disk' \in {disk, db}, disk' = db => db' = db
      PROVE  NumberedIsCommitted'
  BY <1>1, <1>5 DEF NumberedIsCommitted
<1>6. CASE \E t \in Thread : Insert(t) \/ Number(t)
  BY <1>2, <1>4, <1>6
<1>7. CASE ~ \E t \in Thread : Insert(t) \/ Number(t)
  <2>1. db' \in {db, disk} /\ disk' \in {disk, db} /\ (disk' = db => db' = db)
    BY <1>7 DEF Next, Append_, Enter, Commit, CommitNumber, Publish, WriteFails, Subscribe, Unsubscribe,
                Take, Reopen, vars
  <2>2. QED
    BY <1>5, <2>1
<1>8. QED
  BY <1>6, <1>7

\* No step fills a queue beyond its capacity.
LEMMA BoundedStep ==
  ASSUME TypeOK, QueuesBounded, [Next]_vars
  PROVE  QueuesBounded'
<1>1. QueueCap \in Nat /\ \A q \in DOMAIN queues : queues[q] \in Seq(Nat) /\ Len(queues[q]) \in Nat
  BY BoundAssumption DEF TypeOK
<1>2. ASSUME NEW t \in Thread, Publish(t)
      PROVE  QueuesBounded'
  <2>1. ASSUME NEW q \in DOMAIN queues
        PROVE  Len(Offer(queues[q], own[t].sequence)) <= QueueCap
    <3>1. own[t].sequence \in Nat
      BY DEF TypeOK, Row
    <3>2. QED
      BY <1>1, <3>1 DEF Offer, QueuesBounded
  <2>2. QED
    BY <1>2, <2>1 DEF Publish, QueuesBounded
<1>3. ASSUME NEW q \in Queue, Subscribe(q) \/ Unsubscribe(q) \/ Take(q)
      PROVE  QueuesBounded'
  <2>1. \A x \in DOMAIN queues' :
          \/ queues'[x] = <<>>
          \/ x \in DOMAIN queues /\ queues'[x] = queues[x]
          \/ x \in DOMAIN queues /\ queues[x] # <<>> /\ queues'[x] = Tail(queues[x])
    BY <1>3 DEF Subscribe, Unsubscribe, Take
  <2>2. ASSUME NEW x \in DOMAIN queues'
        PROVE  Len(queues'[x]) <= QueueCap
    <3>1. CASE queues'[x] = <<>>
      BY <1>1, <3>1, EmptySeq
    <3>2. CASE x \in DOMAIN queues /\ queues'[x] = queues[x]
      BY <3>2 DEF QueuesBounded
    <3>3. CASE x \in DOMAIN queues /\ queues[x] # <<>> /\ queues'[x] = Tail(queues[x])
      <4>1. Len(Tail(queues[x])) = Len(queues[x]) - 1
        BY <1>1, <3>3, HeadTailProperties
      <4>2. QED
        BY <1>1, <3>3, <4>1 DEF QueuesBounded
    <3>4. QED
      BY <2>1, <3>1, <3>2, <3>3
  <2>3. QED
    BY <2>2 DEF QueuesBounded
<1>4. CASE Reopen
  BY <1>4 DEF Reopen, QueuesBounded
<1>5. CASE queues' = queues
  BY <1>5 DEF QueuesBounded
<1>6. QED
  BY <1>2, <1>3, <1>4, <1>5 DEF Next, Append_, Enter, Insert, Commit, Number, CommitNumber, WriteFails, vars

------------------------------------------------------------------------------
(***************************************************************************)
(* What a handler writes.                                                  *)
(***************************************************************************)

\* The rows of a backlog follow the client's id without a gap, and all of them are
\* committed.
LEMMA BacklogRows ==
  ASSUME TypeOK, StreamTypeOK, NumberedIsCommitted, NEW c \in Queue
  PROVE  \E b \in Nat :
           /\ Writable(c) = (lastId[c] + 1)..b
           /\ Writable(c) \subseteq 1..Len(disk)
           /\ Unnumbered(c) = {} => b = Newest(c)
<1>1. /\ lastId[c] \in Nat /\ BacklogLimit \in Nat /\ Len(db) \in Nat /\ Len(disk) \in Nat
      /\ FirstRow(c) = lastId[c] + 1
  BY StreamAssumption, RowTypes DEF StreamTypeOK, FirstRow
<1>2. Newest(c) \in Nat /\ Newest(c) <= Len(db)
  <2>1. lastId[c] + BacklogLimit \in Nat
    BY <1>1
  <2>2. Newest(c) = IF Len(db) <= lastId[c] + BacklogLimit THEN Len(db) ELSE lastId[c] + BacklogLimit
    BY <1>1, <2>1, MinOfTwo DEF Newest
  <2>3. QED
    BY <1>1, <2>1, <2>2
<1>3. \A i \in FirstRow(c)..Newest(c) : i \notin Unnumbered(c) => i \in 1..Len(disk)
  BY <1>1, <1>2 DEF Unnumbered, NumberedIsCommitted
<1>4. CASE Unnumbered(c) = {}
  <2>1. Writable(c) = FirstRow(c)..Newest(c)
    BY <1>4 DEF Writable
  <2>2. QED
    BY <1>1, <1>2, <1>3, <1>4, <2>1
<1>5. CASE Unnumbered(c) # {}
  <2>1. Unnumbered(c) \in SUBSET Nat /\ Unnumbered(c) \subseteq FirstRow(c)..Newest(c)
    BY <1>1, <1>2 DEF Unnumbered
  <2> DEFINE bad == Min(Unnumbered(c))
  <2>2. bad \in Unnumbered(c) /\ \A i \in Unnumbered(c) : bad <= i
    BY <1>5, <2>1, MinOf
  <2>3. bad \in FirstRow(c)..Newest(c)
    BY <2>1, <2>2
  <2>4. Writable(c) = FirstRow(c)..(bad - 1)
    BY <1>5 DEF Writable
  <2> HIDE DEF bad
  <2>5. bad - 1 \in Nat /\ \A i \in FirstRow(c)..(bad - 1) : i \in FirstRow(c)..Newest(c) /\ i \notin Unnumbered(c)
    BY <1>1, <1>2, <2>1, <2>2, <2>3
  <2>6. QED
    BY <1>1, <1>3, <1>5, <2>4, <2>5
<1>6. QED
  BY <1>4, <1>5

\* Sending committed rows: the client's id and what it was shown.
LEMMA SendKeeps ==
  ASSUME TypeOK, StreamTypeOK, ShownIsCommitted, LastIsShown, NEW c \in Queue,
         NEW rows \in SUBSET (1..Len(disk)), Send(c, rows), disk' = disk
  PROVE  /\ lastId' \in [Queue -> Nat] /\ got' \in [Queue -> SUBSET Nat]
         /\ ShownIsCommitted' /\ LastIsShown'
<1>1. Len(disk) \in Nat /\ rows \in SUBSET Nat /\ \A x \in rows : x <= Len(disk)
  BY RowTypes
<1>2. rows # {} => Max(rows) \in rows
  BY <1>1, MaxOf
<1>3. /\ got' = [got EXCEPT ![c] = got[c] \cup rows]
      /\ lastId' = [lastId EXCEPT ![c] = IF rows = {} THEN lastId[c] ELSE Max(rows)]
  BY DEF Send
<1>4. lastId \in [Queue -> Nat] /\ got \in [Queue -> SUBSET Nat]
  BY DEF StreamTypeOK
<1>5. lastId' \in [Queue -> Nat] /\ got' \in [Queue -> SUBSET Nat]
  BY <1>1, <1>2, <1>3, <1>4
<1>6. ShownIsCommitted'
  BY <1>3, <1>4 DEF ShownIsCommitted
<1>7. LastIsShown'
  BY <1>2, <1>3, <1>4 DEF LastIsShown
<1>8. QED
  BY <1>5, <1>6, <1>7

\* Sending what follows the client's id leaves no hole.
LEMMA SendFollows ==
  ASSUME StreamTypeOK, NEW c \in Queue, NEW a \in Nat, NEW b \in Nat, Send(c, a..b),
         NEW n \in Nat, got[c] = 1..n, lastId[c] <= n, a >= 1, a <= n + 1
  PROVE  \E m \in {n, b} :
           got'[c] = 1..m /\ lastId'[c] <= m /\ m >= n /\ (a <= b => m >= b)
<1>1. /\ got'[c] = 1..n \cup a..b
      /\ lastId'[c] = IF a..b = {} THEN lastId[c] ELSE Max(a..b)
  BY DEF Send, StreamTypeOK
<1>2. CASE a <= b
  <2>1. lastId'[c] = b
    BY <1>1, <1>2, MaxOfInterval
  <2>2. CASE b <= n
    <3>1. got'[c] = 1..n
      BY <1>1, <2>2
    <3>2. QED
      BY <2>1, <2>2, <3>1
  <2>3. CASE b > n
    <3>1. got'[c] = 1..b
      BY <1>1, <2>3
    <3>2. QED
      BY <2>1, <2>3, <3>1
  <2>4. QED
    BY <2>2, <2>3
<1>3. CASE a > b
  <2>1. a..b = {}
    BY <1>3
  <2>2. got'[c] = 1..n /\ lastId'[c] = lastId[c]
    BY <1>1, <2>1
  <2>3. QED
    BY <1>3, <2>2
<1>4. QED
  BY <1>2, <1>3

------------------------------------------------------------------------------
(***************************************************************************)
(* What has been shown.                                                    *)
(***************************************************************************)
Readers == StreamTypeOK /\ ShownIsCommitted /\ LastIsShown

\* The committed log never gets shorter.
LEMMA DiskLengths ==
  ASSUME TypeOK, RowsInv, [Next]_vars
  PROVE  Len(disk) \in Nat /\ Len(disk') \in Nat /\ Len(disk') >= Len(disk)
<1>1. disk' = disk \/ disk' = db
  BY DEF Next, Append_, Enter, Insert, Commit, Number, CommitNumber, Publish, WriteFails,
         Subscribe, Unsubscribe, Take, Reopen, vars
<1>2. QED
  BY <1>1, RowTypes, DiskGrows

\* A step that shows nothing.
LEMMA NothingShown ==
  ASSUME TypeOK, RowsInv, Readers, [Next]_vars, UNCHANGED <<lastId, got>>,
         mode' \in [Queue -> {"off", "backlog", "live", "closing"}], missed' \subseteq Queue,
         \A c \in Queue : mode'[c] # "off" <=> c \in DOMAIN queues'
  PROVE  Readers'
<1>1. Len(disk) \in Nat /\ Len(disk') \in Nat /\ Len(disk') >= Len(disk)
  BY DiskLengths
<1>2. ShownIsCommitted'
  BY <1>1 DEF Readers, ShownIsCommitted
<1>3. QED
  BY <1>2 DEF Readers, StreamTypeOK, LastIsShown

\* Every step keeps what is said of the clients of the stream.
LEMMA ReadersStep ==
  ASSUME IInv, FanOutFaithful, NumberedIsCommitted, Readers, [StreamNext]_streamVars
  PROVE  Readers'
<1>0. TypeOK /\ RowsInv /\ StreamTypeOK /\ ShownIsCommitted /\ LastIsShown
  BY DEF IInv, Readers
<1>1. [Next]_vars
  BY StreamStepIsStoreStep
<1>2. /\ mode \in [Queue -> {"off", "backlog", "live", "closing"}] /\ missed \subseteq Queue
      /\ \A c \in Queue : mode[c] # "off" <=> c \in DOMAIN queues
  BY <1>0 DEF StreamTypeOK
<1>3. CASE StoreStep
  <2>1. DOMAIN queues' = DOMAIN queues /\ UNCHANGED <<mode, lastId, got>>
    BY <1>3 DEF StoreStep, Append_, Enter, Insert, Commit, Number, CommitNumber, Publish, WriteFails
  <2>2. missed' \subseteq Queue
    BY <1>0, <1>3 DEF StoreStep, Full, TypeOK, StreamTypeOK
  <2>3. QED
    BY <1>0, <1>1, <1>2, <2>1, <2>2, NothingShown
<1>4. CASE Restart
  <2>1. DOMAIN queues' = {} /\ mode' = [c \in Queue |-> "off"] /\ UNCHANGED <<lastId, got, missed>>
    BY <1>4 DEF Restart, Reopen
  <2>2. QED
    BY <1>0, <1>1, <1>2, <2>1, NothingShown
<1>5. ASSUME NEW c \in Queue, Connect(c)
      PROVE  Readers'
  <2>1. DOMAIN queues' = DOMAIN queues \cup {c} /\ mode' = [mode EXCEPT ![c] = "backlog"]
        /\ UNCHANGED <<lastId, got, missed>>
    BY <1>5 DEF Connect, Subscribe
  <2>2. QED
    BY <1>0, <1>1, <1>2, <2>1, NothingShown
<1>6. ASSUME NEW c \in Queue, Close(c)
      PROVE  Readers'
  <2>1. DOMAIN queues' = DOMAIN queues \ {c} /\ mode' = [mode EXCEPT ![c] = "off"]
        /\ UNCHANGED <<lastId, got, missed>>
    BY <1>6 DEF Close, Unsubscribe
  <2>2. QED
    BY <1>0, <1>1, <1>2, <2>1, NothingShown
<1>7. ASSUME NEW c \in Queue, NEW rows \in SUBSET (1..Len(disk)), Send(c, rows), disk' = disk,
             DOMAIN queues' = DOMAIN queues, missed' \subseteq Queue, mode[c] # "off",
             mode' = mode \/ mode' = [mode EXCEPT ![c] = "live"] \/ mode' = [mode EXCEPT ![c] = "closing"]
      PROVE  Readers'
  <2>1. /\ lastId' \in [Queue -> Nat] /\ got' \in [Queue -> SUBSET Nat]
        /\ ShownIsCommitted' /\ LastIsShown'
    BY <1>0, <1>7, SendKeeps
  <2>2. /\ mode' \in [Queue -> {"off", "backlog", "live", "closing"}]
        /\ \A x \in Queue : mode'[x] # "off" <=> x \in DOMAIN queues'
    BY <1>2, <1>7
  <2>3. QED
    BY <1>7, <2>1, <2>2 DEF Readers, StreamTypeOK
<1>8. ASSUME NEW c \in Queue, Backlog(c)
      PROVE  Readers'
  <2>1. Writable(c) \in SUBSET (1..Len(disk))
    BY <1>0, BacklogRows
  <2>2. Send(c, Writable(c)) /\ disk' = disk /\ queues' = queues /\ mode[c] # "off"
    BY <1>8 DEF Backlog, vars
  <2>3. mode' = [mode EXCEPT ![c] = "live"] \/ mode' = [mode EXCEPT ![c] = "closing"]
    BY <1>8 DEF Backlog
  <2>4. missed' \subseteq Queue
    BY <1>2, <1>8 DEF Backlog
  <2>5. QED
    BY <1>7, <2>1, <2>2, <2>3, <2>4
<1>9. ASSUME NEW c \in Queue, Forward(c)
      PROVE  Readers'
  <2>1. c \in DOMAIN queues /\ queues[c] # <<>> /\ queues[c] \in Seq(Nat) /\ Faithful(queues[c])
    BY <1>0, <1>9 DEF Forward, Take, TypeOK, FanOutFaithful
  <2>2. Head(queues[c]) = queues[c][1] /\ 1 \in 1..Len(queues[c])
    BY <2>1, EmptySeq, LenProperties
  <2>3. {Head(queues[c])} \in SUBSET (1..Len(disk))
    BY <2>1, <2>2 DEF Faithful
  <2>4. /\ Send(c, {Head(queues[c])}) /\ disk' = disk /\ DOMAIN queues' = DOMAIN queues
        /\ mode[c] # "off" /\ mode' = mode /\ missed' = missed
    BY <1>9 DEF Forward, Take
  <2>5. QED
    BY <1>2, <1>7, <2>3, <2>4
<1>10. ASSUME NEW c \in Queue, Hangup(c)
       PROVE  Readers'
  <2>1. Writable(c) \in SUBSET (1..Len(disk))
    BY <1>0, BacklogRows
  <2>2. /\ disk' = disk /\ queues' = queues /\ mode[c] # "off" /\ missed' = missed
        /\ mode' = [mode EXCEPT ![c] = "closing"]
    BY <1>10 DEF Hangup, vars
  <2>3. CASE mode[c] = "backlog"
    <3>1. PICK n \in Writable(c) \cup {lastId[c]} : Send(c, Writable(c) \cap 1..n)
      BY <1>10, <2>3 DEF Hangup
    <3>2. QED
      BY <1>2, <1>7, <2>1, <2>2, <3>1
  <2>4. CASE mode[c] # "backlog"
    <3>1. UNCHANGED <<lastId, got>>
      BY <1>10, <2>4 DEF Hangup
    <3>2. mode' \in [Queue -> {"off", "backlog", "live", "closing"}]
          /\ \A x \in Queue : mode'[x] # "off" <=> x \in DOMAIN queues'
      BY <1>2, <2>2
    <3>3. QED
      BY <1>0, <1>1, <1>2, <2>2, <3>1, <3>2, NothingShown
  <2>5. QED
    BY <2>3, <2>4
<1>11. CASE UNCHANGED streamVars
  <2>1. UNCHANGED <<lastId, got, mode, missed, queues>>
    BY <1>11 DEF streamVars, vars, clientVars
  <2>2. QED
    BY <1>0, <1>1, <1>2, <2>1, NothingShown
<1>12. QED
  BY <1>3, <1>4, <1>5, <1>6, <1>8, <1>9, <1>10, <1>11 DEF StreamNext

------------------------------------------------------------------------------
(***************************************************************************)
(* No holes.                                                               *)
(***************************************************************************)

\* Whatever leaves the queues alone leaves what is published alone.
LEMMA PublishedKept ==
  ASSUME TypeOK, Exclusive, RowsInv, NEW t \in Thread,
         Enter(t) \/ Insert(t) \/ Commit(t) \/ Number(t) \/ CommitNumber(t)
  PROVE  Published' = Published
<1>1. /\ Len(db) \in Nat /\ own[t] \in Row /\ pc \in [Thread -> Steps] /\ db \in Seq(Row)
      /\ \A i \in 1..Len(db) : db[i] \in Row
  BY RowTypes DEF TypeOK
<1>2. CASE Enter(t)
  <2>1. db' = db /\ pc' = [pc EXCEPT ![t] = "insert"]
    BY <1>2 DEF Enter
  <2>2. \A u \in Thread : pc[u] \notin Writing
    BY <1>2, ThreadAssumption DEF Enter, LockFree, Exclusive, Writing
  <2>3. \A u \in Thread : pc'[u] \notin Writing
    BY <1>1, <2>1, <2>2 DEF Writing
  <2>4. QED
    BY <2>1, <2>2, <2>3 DEF Published
<1>3. CASE Insert(t)
  <2>1. db' = Append(db, own[t]) /\ pc[t] = "insert" /\ pc'[t] \in Writing
    BY <1>1, <1>3 DEF Insert, Writing
  <2>2. \A u \in Thread : pc[u] \notin Writing
    BY <2>1, OthersIdle DEF Writing
  <2>3. Len(db') = Len(db) + 1
    BY <1>1, <2>1
  <2>4. QED
    BY <1>1, <2>1, <2>2, <2>3 DEF Published
<1>4. CASE Commit(t) \/ Number(t) \/ CommitNumber(t)
  <2>1. pc[t] \in Writing /\ pc'[t] \in Writing
    BY <1>1, <1>4 DEF Commit, Number, CommitNumber, Writing
  <2>2. Len(db') = Len(db)
    <3>1. CASE Commit(t) \/ CommitNumber(t)
      BY <3>1 DEF Commit, CommitNumber
    <3>2. CASE Number(t)
      <4>1. Len(db) > 0
        BY <2>1 DEF RowsInv, OwnInv
      <4>2. [db[Len(db)] EXCEPT !.sequence = Len(db)] \in Row
        BY SMTT(30), <1>1, <4>1 DEF Row
      <4>3. db' = [db EXCEPT ![Len(db)] = [db[Len(db)] EXCEPT !.sequence = Len(db)]]
        BY <3>2 DEF Number
      <4>4. QED
        BY <1>1, <4>1, <4>2, <4>3, ExceptSeq
    <3>3. QED
      BY <1>4, <3>1, <3>2
  <2>3. QED
    BY <2>1, <2>2 DEF Published
<1>5. QED
  BY <1>2, <1>3, <1>4

\* A client about which nothing changes but the committed rows.
LEMMA CaughtStays ==
  ASSUME NEW c \in Queue, Caught(c), Len(disk) \in Nat, Len(disk') \in Nat, Len(disk') >= Len(disk),
         got'[c] = got[c], lastId'[c] = lastId[c], mode'[c] = mode[c], queues'[c] = queues[c],
         Published' = Published
  PROVE  Caught(c)'
<1>1. PICK n \in 0..Len(disk) : /\ got[c] = 1..n
                                /\ lastId[c] <= n
                                /\ mode[c] = "live" => Published - Len(queues[c]) <= n
  BY DEF Caught
<1>2. n \in 0..Len(disk')
  BY <1>1
<1>3. QED
  BY <1>1, <1>2 DEF Caught, Ends

\* Offering a new event to a queue that has room leaves no hole (evidence.py:90-96).
LEMMA PublishKeepsHoles ==
  ASSUME IInv, StreamInv, NEW t \in Thread, Publish(t), faults = 0,
         UNCHANGED <<mode, lastId, got>>, NEW c \in Queue, Caught(c), c \notin Full
  PROVE  Caught(c)'
<1>1. /\ TypeOK /\ Exclusive /\ RowsInv /\ Len(db) \in Nat /\ Len(disk) \in Nat /\ QueueCap \in Nat
      /\ pc \in [Thread -> Steps]
  BY RowTypes, BoundAssumption DEF IInv, TypeOK
<1>2. /\ db' = db /\ disk' = disk /\ pc[t] = "publish" /\ pc' = [pc EXCEPT ![t] = "idle"]
      /\ queues' = [q \in DOMAIN queues |-> Offer(queues[q], own[t].sequence)]
  BY DEF Publish
<1>3. Published = Len(db) - 1 /\ Published' = Len(db)
  <2>1. \A u \in Thread : pc'[u] = "idle"
    BY <1>1, <1>2, OthersIdle
  <2>2. QED
    BY <1>2, <2>1 DEF Published, Writing
<1>4. own[t].sequence = Len(db)
  BY <1>1, <1>2 DEF RowsInv, CommitInv
<1>5. PICK n \in 0..Len(disk) : /\ got[c] = 1..n
                                /\ lastId[c] <= n
                                /\ mode[c] = "live" => Published - Len(queues[c]) <= n
  BY DEF Caught
<1>6. ASSUME mode[c] \in {"backlog", "live"}
      PROVE  Ends(queues[c])' /\ Published' - Len(queues'[c]) = Published - Len(queues[c])
  <2>1. c \in DOMAIN queues /\ queues[c] \in Seq(Nat) /\ Len(queues[c]) \in Nat
    BY <1>1, <1>6, LenProperties DEF StreamInv, StreamTypeOK, TypeOK
  <2>2. Len(queues[c]) < QueueCap
    BY <1>1, <2>1 DEF Full, StreamInv, QueuesBounded
  <2>3. queues'[c] = Append(queues[c], Len(db))
    BY <1>2, <1>4, <2>1, <2>2 DEF Offer
  <2>4. /\ Len(queues'[c]) = Len(queues[c]) + 1
        /\ \A i \in 1..Len(queues[c]) : queues'[c][i] = queues[c][i]
        /\ queues'[c][Len(queues[c]) + 1] = Len(db)
    BY <1>1, <2>1, <2>3
  <2>5. ASSUME NEW i \in 1..Len(queues'[c])
        PROVE  queues'[c][i] = Published' - Len(queues'[c]) + i
    <3>1. CASE i \in 1..Len(queues[c])
      <4>1. queues[c][i] = Published - Len(queues[c]) + i
        BY <1>6, <3>1 DEF Caught, Ends
      <4>2. QED
        BY <1>1, <1>3, <2>1, <2>4, <3>1, <4>1
    <3>2. CASE i = Len(queues[c]) + 1
      BY <1>1, <1>3, <2>1, <2>4, <3>2
    <3>3. QED
      BY <2>1, <2>4, <3>1, <3>2
  <2>6. QED
    BY <1>1, <1>3, <2>1, <2>4, <2>5 DEF Ends
<1>7. QED
  BY <1>2, <1>5, <1>6 DEF Caught

\* The backlog brings a client up to the last row, or it has missed something.
LEMMA BacklogKeepsHoles ==
  ASSUME IInv, StreamInv, faults = 0, NEW c \in Queue, Backlog(c), Caught(c), c \notin missed'
  PROVE  Caught(c)'
<1>1. /\ TypeOK /\ StreamTypeOK /\ RowsInv /\ NumberedIsCommitted
      /\ Len(db) \in Nat /\ Len(disk) \in Nat /\ Len(disk) <= Len(db) /\ lastId[c] \in Nat
      /\ mode \in [Queue -> {"off", "backlog", "live", "closing"}]
  BY RowTypes DEF IInv, StreamInv, StreamTypeOK, RowsInv, PrefixInv
<1>2. /\ mode[c] = "backlog" /\ Send(c, Writable(c)) /\ UNCHANGED vars
      /\ mode'[c] = IF Unnumbered(c) = {} THEN "live" ELSE "closing"
      /\ Len(db) <= Newest(c) \/ ~(Len(db) > Newest(c))
  BY <1>1 DEF Backlog
<1>3. PICK n \in 0..Len(disk) : got[c] = 1..n /\ lastId[c] <= n
  BY DEF Caught
<1>4. PICK b \in Nat : /\ Writable(c) = (lastId[c] + 1)..b
                       /\ Writable(c) \subseteq 1..Len(disk)
                       /\ Unnumbered(c) = {} => b = Newest(c)
  BY <1>1, BacklogRows
<1>5. PICK m \in {n, b} : /\ got'[c] = 1..m /\ lastId'[c] <= m /\ m >= n
                          /\ lastId[c] + 1 <= b => m >= b
  <2>1. Send(c, (lastId[c] + 1)..b) /\ lastId[c] + 1 \in Nat /\ lastId[c] + 1 >= 1 /\ lastId[c] + 1 <= n + 1
    BY <1>1, <1>2, <1>3, <1>4
  <2>2. QED
    BY <1>1, <1>3, <2>1, SendFollows
<1>6. m \in 0..Len(disk)
  <2>1. CASE lastId[c] + 1 <= b
    <3>1. b \in 1..Len(disk)
      BY <1>1, <1>4, <2>1
    <3>2. QED
      BY <1>3, <1>5, <3>1
  <2>2. CASE ~(lastId[c] + 1 <= b)
    BY <1>1, <1>3, <1>4, <1>5, <2>2
  <2>3. QED
    BY <2>1, <2>2
<1>7. Published \in Int /\ Published <= Len(db) /\ Published' = Published /\ queues' = queues /\ disk' = disk
  BY <1>1, <1>2 DEF Published, vars
<1>8. ASSUME mode'[c] = "live"
      PROVE  Published - Len(queues[c]) <= m
  <2>1. Unnumbered(c) = {}
    BY <1>2, <1>8
  <2>2. Newest(c) >= Len(db)
    BY <1>1, <1>4, <2>1 DEF Backlog
  <2>3. m >= Len(db)
    BY <1>1, <1>3, <1>4, <1>5, <2>1, <2>2
  <2>4. queues[c] \in Seq(Nat) /\ Len(queues[c]) \in Nat
    BY <1>1, <1>2, LenProperties DEF StreamTypeOK, TypeOK
  <2>5. QED
    BY <1>1, <1>6, <1>7, <2>3, <2>4
<1>9. mode'[c] \in {"backlog", "live"} => Ends(queues[c])'
  BY <1>2, <1>7 DEF Caught, Ends
<1>10. QED
  BY <1>5, <1>6, <1>7, <1>8, <1>9 DEF Caught

\* A live event follows what the client has seen, or repeats it.
LEMMA ForwardKeepsHoles ==
  ASSUME IInv, StreamInv, FanOutFaithful, NEW c \in Queue, Forward(c), Caught(c)
  PROVE  Caught(c)'
<1>1. /\ TypeOK /\ StreamTypeOK /\ Len(db) \in Nat /\ Len(disk) \in Nat /\ lastId[c] \in Nat
  BY RowTypes DEF IInv, StreamInv, StreamTypeOK
<1>2. /\ mode[c] = "live" /\ mode' = mode /\ c \in DOMAIN queues /\ queues[c] # <<>>
      /\ Send(c, {Head(queues[c])}) /\ queues'[c] = Tail(queues[c])
      /\ db' = db /\ disk' = disk /\ pc' = pc
  BY DEF Forward, Take
<1>3. PICK n \in 0..Len(disk) : /\ got[c] = 1..n /\ lastId[c] <= n
                                /\ Published - Len(queues[c]) <= n
  BY <1>2 DEF Caught
<1>4. /\ queues[c] \in Seq(Nat) /\ Len(queues[c]) \in Nat /\ Len(queues[c]) > 0
      /\ Faithful(queues[c]) /\ Ends(queues[c])
  BY <1>1, <1>2, EmptySeq, LenProperties DEF TypeOK, FanOutFaithful, Caught
<1>5. /\ Len(queues'[c]) = Len(queues[c]) - 1
      /\ \A i \in 1..Len(queues'[c]) : queues'[c][i] = queues[c][i + 1] /\ i + 1 \in 1..Len(queues[c])
      /\ Head(queues[c]) = queues[c][1]
  BY <1>2, <1>4, HeadTailProperties, LenProperties
<1>6. Published \in Int /\ Published' = Published
  BY <1>1, <1>2 DEF Published
<1>7. PICK h \in Nat : h = Head(queues[c]) /\ h = Published - Len(queues[c]) + 1 /\ h \in 1..Len(disk)
  BY <1>4, <1>5 DEF Ends, Faithful
<1>8. PICK m \in {n, h} : got'[c] = 1..m /\ lastId'[c] <= m /\ m >= n /\ m >= h
  <2>1. {Head(queues[c])} = h..h
    BY <1>7
  <2>2. Send(c, h..h) /\ h >= 1 /\ h <= n + 1 /\ h <= h
    BY <1>2, <1>3, <1>4, <1>6, <1>7, <2>1
  <2>3. n \in Nat /\ h \in Nat
    BY <1>1, <1>3
  <2>4. PICK b \in Nat : b = h
    BY <2>3
  <2>5. Send(c, h..b)
    BY <2>2, <2>4
  <2>6. \E m \in {n, b} : got'[c] = 1..m /\ lastId'[c] <= m /\ m >= n /\ (h <= b => m >= b)
    BY <1>1, <1>3, <2>2, <2>3, <2>5, SendFollows
  <2>7. QED
    BY <2>3, <2>4, <2>6
<1>9. Ends(queues[c])'
  <2>1. ASSUME NEW i \in 1..Len(queues'[c])
        PROVE  queues'[c][i] = Published' - Len(queues'[c]) + i
    <3>1. queues'[c][i] = queues[c][i + 1] /\ i + 1 \in 1..Len(queues[c]) /\ i \in Int
      BY <1>4, <1>5
    <3>2. queues[c][i + 1] = Published - Len(queues[c]) + (i + 1)
      BY <1>4, <3>1 DEF Ends
    <3>3. QED
      BY <1>4, <1>5, <1>6, <3>1, <3>2, SMTT(30)
  <2>2. QED
    BY <2>1 DEF Ends
<1>10. Published' - Len(queues'[c]) <= m
  <2>1. /\ Len(queues'[c]) = Len(queues[c]) - 1 /\ Len(queues[c]) \in Nat
        /\ Published' = Published /\ Published \in Int
        /\ m \in Nat /\ m >= Published - Len(queues[c]) + 1
    BY <1>1, <1>3, <1>4, <1>5, <1>6, <1>7, <1>8
  <2>2. QED
    BY <2>1
<1>11. m \in 0..Len(disk')
  BY <1>2, <1>3, <1>7, <1>8
<1>12. QED
  BY <1>8, <1>9, <1>10, <1>11 DEF Caught

\* A client that hangs up will resume where it was.
LEMMA HangupKeepsHoles ==
  ASSUME IInv, StreamInv, NEW c \in Queue, Hangup(c), Caught(c)
  PROVE  Caught(c)'
<1>1. /\ TypeOK /\ StreamTypeOK /\ NumberedIsCommitted /\ Len(disk) \in Nat /\ lastId[c] \in Nat
      /\ mode \in [Queue -> {"off", "backlog", "live", "closing"}]
  BY RowTypes DEF IInv, StreamInv, StreamTypeOK
<1>2. mode'[c] = "closing" /\ disk' = disk
  BY <1>1 DEF Hangup, vars
<1>3. PICK n \in 0..Len(disk) : got[c] = 1..n /\ lastId[c] <= n
  BY DEF Caught
<1>4. \E m \in 0..Len(disk) : got'[c] = 1..m /\ lastId'[c] <= m
  <2>1. CASE mode[c] = "backlog"
    <3>1. PICK b \in Nat : Writable(c) = (lastId[c] + 1)..b /\ Writable(c) \subseteq 1..Len(disk)
      BY <1>1, BacklogRows
    <3>2. PICK k \in Writable(c) \cup {lastId[c]} : Send(c, Writable(c) \cap 1..k)
      BY <2>1 DEF Hangup
    <3>3. k \in Nat /\ Writable(c) \cap 1..k = (lastId[c] + 1)..k
      BY <1>1, <3>1, <3>2
    <3>4. PICK m \in {n, k} : got'[c] = 1..m /\ lastId'[c] <= m
      <4>1. Send(c, (lastId[c] + 1)..k)
        BY <3>2, <3>3
      <4>2. /\ n \in Nat /\ lastId[c] + 1 \in Nat
            /\ lastId[c] + 1 >= 1 /\ lastId[c] + 1 <= n + 1
        BY <1>1, <1>3
      <4>3. QED
        BY <1>1, <1>3, <3>3, <4>1, <4>2, SendFollows
    <3>5. k <= Len(disk)
      BY <1>1, <1>3, <3>1, <3>2
    <3>6. QED
      BY <1>1, <1>3, <3>3, <3>4, <3>5
  <2>2. CASE mode[c] # "backlog"
    BY <1>3, <2>2 DEF Hangup
  <2>3. QED
    BY <2>1, <2>2
<1>5. QED
  BY <1>2, <1>4 DEF Caught

\* No step makes a hole, unless a limit was overrun.
LEMMA HolesStep ==
  ASSUME IInv, IInv', FanOutFaithful, StreamInv, [StreamNext]_streamVars
  PROVE  NoHoles'
<1>0. TypeOK /\ Exclusive /\ RowsInv /\ faults \in Nat /\ StreamTypeOK
  BY DEF IInv, TypeOK, StreamInv
<1>1. /\ [Next]_vars
      /\ Len(disk) \in Nat /\ Len(disk') \in Nat /\ Len(disk') >= Len(disk)
  BY <1>0, StreamStepIsStoreStep, DiskLengths
<1> SUFFICES ASSUME faults' = 0, NEW c \in Queue, c \notin missed'
             PROVE  Caught(c)'
  BY DEF NoHoles
<1>2. faults = 0
  <2>1. faults' = faults \/ faults' = faults + 1
    BY <1>1 DEF Next, Append_, Enter, Insert, Commit, Number, CommitNumber, Publish, WriteFails,
                Subscribe, Unsubscribe, Take, Reopen, vars
  <2>2. QED
    BY <1>0, <2>1
<1>3. c \notin missed /\ Caught(c)
  <2>1. missed \subseteq missed'
    BY DEF StreamNext, StoreStep, Restart, Connect, Backlog, Forward, Hangup, Close, streamVars, clientVars
  <2>2. QED
    BY <1>2, <2>1 DEF StreamInv, NoHoles
<1>4. CASE StoreStep
  <2>1. PICK t \in Thread : \/ Append_(t) /\ missed' = IF pc[t] = "publish" THEN missed \cup Full ELSE missed
                            \/ WriteFails(t)
    BY <1>4 DEF StoreStep
  <2>2. UNCHANGED <<mode, lastId, got>>
    BY <1>4 DEF StoreStep
  <2>3. ~ WriteFails(t)
    BY <1>0, <1>2 DEF WriteFails
  <2>4. CASE Publish(t)
    <3>1. c \notin Full
      BY <2>1, <2>3, <2>4 DEF Publish
    <3>2. QED
      BY <1>2, <1>3, <2>2, <2>4, <3>1, PublishKeepsHoles
  <2>5. CASE ~ Publish(t)
    <3>1. Enter(t) \/ Insert(t) \/ Commit(t) \/ Number(t) \/ CommitNumber(t)
      BY <2>1, <2>3, <2>5 DEF Append_
    <3>2. queues' = queues
      BY <3>1 DEF Enter, Insert, Commit, Number, CommitNumber
    <3>3. Published' = Published
      BY <1>0, <3>1, PublishedKept
    <3>4. QED
      BY <1>1, <1>3, <2>2, <3>2, <3>3, CaughtStays
  <2>6. QED
    BY <2>4, <2>5
<1>5. CASE Restart
  <2>1. mode'[c] = "off" /\ disk' = disk /\ UNCHANGED <<lastId, got>>
    BY <1>5 DEF Restart, Reopen
  <2>2. QED
    BY <1>3, <2>1 DEF Caught
<1>6. ASSUME NEW x \in Queue, x # c, db' = db, disk' = disk, pc' = pc, mode'[c] = mode[c],
             lastId'[c] = lastId[c], got'[c] = got[c],
             c \in DOMAIN queues => queues'[c] = queues[c]
      PROVE  Caught(c)'
  <2>1. Published' = Published
    BY <1>6 DEF Published
  <2>2. CASE c \in DOMAIN queues
    BY <1>1, <1>3, <1>6, <2>1, <2>2, CaughtStays
  <2>3. CASE c \notin DOMAIN queues
    <3>1. mode[c] = "off"
      BY <1>0, <2>3 DEF StreamTypeOK
    <3>2. QED
      BY <1>3, <1>6, <3>1 DEF Caught
  <2>4. QED
    BY <2>2, <2>3
<1>7. ASSUME NEW x \in Queue, x # c, Connect(x) \/ Backlog(x) \/ Forward(x) \/ Hangup(x) \/ Close(x)
      PROVE  Caught(c)'
  <2>1. db' = db /\ disk' = disk /\ pc' = pc
    BY <1>7 DEF Connect, Backlog, Forward, Hangup, Close, Subscribe, Unsubscribe, Take, vars
  <2>2. mode'[c] = mode[c] /\ lastId'[c] = lastId[c] /\ got'[c] = got[c]
    BY <1>0, <1>7 DEF Connect, Backlog, Forward, Hangup, Close, Send, StreamTypeOK
  <2>3. c \in DOMAIN queues => queues'[c] = queues[c]
    BY <1>7 DEF Connect, Backlog, Forward, Hangup, Close, Subscribe, Unsubscribe, Take, vars
  <2>4. QED
    BY <1>6, <1>7, <2>1, <2>2, <2>3
<1>8. CASE Connect(c)
  <2>1. /\ disk' = disk /\ lastId' = lastId /\ got' = got /\ mode'[c] = "backlog" /\ queues'[c] = <<>>
    BY <1>0, <1>8 DEF Connect, Subscribe, StreamTypeOK
  <2>2. Ends(queues[c])'
    BY <2>1, EmptySeq DEF Ends
  <2>3. QED
    BY <1>3, <2>1, <2>2 DEF Caught
<1>9. CASE Close(c)
  <2>1. disk' = disk /\ lastId' = lastId /\ got' = got /\ mode'[c] = "off"
    BY <1>0, <1>9 DEF Close, Unsubscribe, StreamTypeOK
  <2>2. QED
    BY <1>3, <2>1 DEF Caught
<1>10. CASE UNCHANGED streamVars
  <2>1. UNCHANGED <<db, disk, pc, queues, mode, lastId, got>>
    BY <1>10 DEF streamVars, vars, clientVars
  <2>2. Published' = Published
    BY <2>1 DEF Published
  <2>3. QED
    BY <1>1, <1>3, <2>1, <2>2, CaughtStays
<1>11. CASE Backlog(c) \/ Forward(c) \/ Hangup(c)
  BY <1>2, <1>3, <1>11, BacklogKeepsHoles, ForwardKeepsHoles, HangupKeepsHoles
<1>12. QED
  BY <1>4, <1>5, <1>7, <1>8, <1>9, <1>10, <1>11 DEF StreamNext

\* Clients are shown what is committed, under any interleaving of appends,
\* failures, restarts and reconnects, and nothing they are owed is lost.
THEOREM StreamSafe == StreamSpec => []StreamInv
<1>1. StreamInit => StreamInv
  <2> SUFFICES ASSUME StreamInit
               PROVE  StreamInv
    OBVIOUS
  <2>1. /\ db = <<>> /\ disk = <<>> /\ Len(db) = 0 /\ Len(disk) = 0 /\ DOMAIN queues = {}
        /\ mode = [c \in Queue |-> "off"] /\ lastId = [c \in Queue |-> 0]
        /\ got = [c \in Queue |-> {}] /\ missed = {}
    BY EmptySeq DEF StreamInit, Init
  <2>2. StreamTypeOK /\ ShownIsCommitted /\ LastIsShown /\ NumberedIsCommitted /\ QueuesBounded
    BY <2>1 DEF StreamTypeOK, ShownIsCommitted, LastIsShown, NumberedIsCommitted, QueuesBounded
  <2>3. \A c \in Queue : Caught(c)
    <3>1. \A c \in Queue : got[c] = 1..0 /\ lastId[c] <= 0 /\ mode[c] = "off"
      BY <2>1
    <3>2. 0 \in 0..Len(disk)
      BY <2>1
    <3>3. QED
      BY <3>1, <3>2 DEF Caught
  <2>4. QED
    BY <2>2, <2>3 DEF StreamInv, NoHoles
<1>2. IInv /\ IInv' /\ FanOutFaithful /\ StreamInv /\ [StreamNext]_streamVars => StreamInv'
  <2> SUFFICES ASSUME IInv, IInv', FanOutFaithful, StreamInv, [StreamNext]_streamVars
               PROVE  StreamInv'
    OBVIOUS
  <2>1. TypeOK /\ RowsInv /\ [Next]_vars
    BY StreamStepIsStoreStep DEF IInv
  <2>2. Readers'
    BY ReadersStep DEF StreamInv, Readers
  <2>3. NumberedIsCommitted' /\ QueuesBounded' /\ NoHoles'
    BY <2>1, NumberedStep, BoundedStep, HolesStep DEF StreamInv
  <2>4. QED
    BY <2>2, <2>3 DEF StreamInv, Readers
<1>3. StreamSpec => []IInv /\ []FanOutFaithful
  BY StreamIsStore, Invariant, FanOutSafe, PTL
<1>4. QED
  BY <1>1, <1>2, <1>3, PTL DEF StreamSpec

\* A client that lost nothing to a limit has no hole in what it was shown, however
\* often it and the hub come back: while no write fails.
THEOREM StreamHasNoGaps == StreamSpec => []GapFree
<1>1. StreamInv => GapFree
  <2> SUFFICES ASSUME StreamInv, faults = 0, NEW c \in Queue, c \notin missed, NEW n \in got[c]
               PROVE  1..n \subseteq got[c]
    BY DEF GapFree
  <2>1. Caught(c)
    BY DEF StreamInv, NoHoles
  <2>2. PICK m \in 0..Len(disk) : got[c] = 1..m
    BY <2>1 DEF Caught
  <2>3. QED
    BY <2>2
<1>2. QED
  BY <1>1, StreamSafe, PTL

------------------------------------------------------------------------------
(***************************************************************************)
(* Bundles.                                                                *)
(***************************************************************************)

LEMMA ExportStepIsStoreStep == [ExportNext]_<<vars, exportVars>> => [Next]_vars
  BY DEF ExportNext, vars, StoreGoesOn, Dies, Ask, ReadPage, Finish, Next

\* A bundle only reads: whatever is exported, the store goes on as without.
THEOREM ExportIsStore == ExportSpec => Spec
<1>1. ExportInit => Init
  BY DEF ExportInit
<1>2. QED
  BY <1>1, ExportStepIsStoreStep, PTL DEF ExportSpec, Spec

\* A bundle that has no rows has what it should: nothing.
LEMMA NothingHeld ==
  ASSUME bundle'.rows = <<>>, bundle'.cursor = bundle'.since, bundle'.since \in Nat
  PROVE  BundleWhole'
<1>1. Wanted(bundle.cursor)' = {}
  BY DEF Wanted
<1>2. DOMAIN bundle'.rows = {}
  OBVIOUS
<1> DEFINE place == [i \in {} |-> 0]
<1>3. place \in [DOMAIN bundle'.rows -> Wanted(bundle.cursor)'] /\ DOMAIN place = {}
  BY <1>2
<1>4. Holds(bundle.rows, disk, Wanted(bundle.cursor))'
  BY <1>1, <1>2, <1>3 DEF Holds, InOrder
<1>5. QED
  BY <1>4 DEF BundleWhole

\* What a bundle holds, it holds of the committed rows as they become more.
LEMMA BundleStays ==
  ASSUME TypeOK, RowsInv, [Next]_vars, BundleTypeOK, BundleWhole, bundle' = bundle
  PROVE  BundleWhole'
<1> SUFFICES ASSUME bundle.at \in {"reading", "done"}
             PROVE  BundleWhole'
  BY DEF BundleWhole
<1>0. bundle.since \in Nat /\ bundle.cursor \in Nat /\ bundle.rows \in Seq(Row)
  BY DEF BundleTypeOK
<1>1. CASE bundle.rows = <<>>
  <2>1. bundle.cursor = bundle.since
    BY <1>1 DEF BundleWhole
  <2>2. QED
    BY <1>0, <1>1, <2>1, NothingHeld
<1>2. CASE bundle.rows # <<>>
  <2>1. bundle.cursor = Last(bundle.rows).sequence /\ bundle.cursor \in 1..Len(disk)
    BY <1>2 DEF BundleWhole
  <2>2. /\ Len(disk) \in Nat /\ Len(disk') \in Nat /\ Len(disk') >= Len(disk)
        /\ \A i \in 1..Len(disk) : /\ disk'[i].id = disk[i].id /\ disk'[i].prev = disk[i].prev
                                   /\ disk'[i].hash = disk[i].hash
    BY RowTypes, DiskGrows, DiskLengths
  <2>3. Wanted(bundle.cursor)' = Wanted(bundle.cursor)
    <3>1. \A k \in 1..bundle.cursor : k \in 1..Len(disk) /\ disk'[k].id = disk[k].id
      BY <2>1, <2>2
    <3>2. \A k \in 1..bundle.cursor : Selected(disk[k])' <=> Selected(disk[k])
      BY <3>1 DEF Selected
    <3>3. QED
      BY <3>2 DEF Wanted
  <2>4. Wanted(bundle.cursor) \subseteq 1..Len(disk)
    BY <2>1, <2>2 DEF Wanted
  <2>5. PICK place \in [DOMAIN bundle.rows -> Wanted(bundle.cursor)] :
          /\ InOrder(place) /\ \A k \in Wanted(bundle.cursor) : \E i \in DOMAIN bundle.rows : place[i] = k
          /\ \A i \in DOMAIN bundle.rows :
               /\ bundle.rows[i].id = disk[place[i]].id
               /\ bundle.rows[i].prev = disk[place[i]].prev /\ bundle.rows[i].hash = disk[place[i]].hash
    BY DEF BundleWhole, Holds
  <2>6. \A i \in DOMAIN bundle.rows : place[i] \in 1..Len(disk)
    BY <2>4, <2>5
  <2>7. Holds(bundle.rows, disk, Wanted(bundle.cursor))'
    <3>1. /\ place \in [DOMAIN bundle'.rows -> Wanted(bundle.cursor)']
          /\ InOrder(place) /\ \A k \in Wanted(bundle.cursor)' : \E i \in DOMAIN bundle'.rows : place[i] = k
      BY <2>3, <2>5
    <3>2. \A i \in DOMAIN bundle'.rows :
            /\ bundle'.rows[i].id = disk'[place[i]].id
            /\ bundle'.rows[i].prev = disk'[place[i]].prev /\ bundle'.rows[i].hash = disk'[place[i]].hash
      BY <2>2, <2>5, <2>6
    <3>3. QED
      BY <3>1, <3>2, Zenon DEF Holds
  <2>8. bundle'.cursor \in 1..Len(disk')
    BY <2>1, <2>2
  <2>9. QED
    BY <2>1, <2>7, <2>8 DEF BundleWhole
<1>3. QED
  BY <1>1, <1>2

\* The first places of a set, in order.
First(M, n, place) ==
  /\ place \in [1..n -> M] /\ InOrder(place)
  /\ \A i \in M : i \in Range(place) \/ (n # 0 => place[n] < i)

\* With one place more, if there is one.
LEMMA FirstAndOneMore ==
  ASSUME NEW M \in SUBSET Nat, IsFiniteSet(M), NEW n \in Nat, n < Cardinality(M), NEW place, First(M, n, place)
  PROVE  \E more : First(M, n + 1, more)
<1> DEFINE Rest == M \ Range(place)
<1>1. place \in [1..n -> M] /\ InOrder(place) /\ \A i \in M : i \in Range(place) \/ (n # 0 => place[n] < i)
  BY DEF First
<1>2. Rest # {}
  <2>1. SUFFICES ASSUME M \subseteq Range(place)
                 PROVE  FALSE
    OBVIOUS
  <2>2. place \in Surjection(1..n, M)
    BY <1>1, <2>1 DEF Surjection, Range
  <2>3. Cardinality(M) <= n
    BY <2>2, FS_SurjCardinalityBound DEF ExistsSurjection
  <2>4. QED
    BY <2>3, FS_CardinalityType
<1>3. PICK x \in Rest : \A y \in Rest : x <= y
  BY <1>2, LeastExists
<1> DEFINE more == [k \in 1..(n + 1) |-> IF k <= n THEN place[k] ELSE x]
<1>4. /\ more \in [1..(n + 1) -> M] /\ DOMAIN more = 1..(n + 1) /\ more[n + 1] = x
      /\ \A k \in 1..n : more[k] = place[k] /\ more[k] \in Nat
      /\ \A k \in 1..(n + 1) : k \in 1..n \/ k = n + 1
  <2>1. x \in M /\ \A k \in 1..n : place[k] \in M
    BY <1>1, <1>3
  <2>2. more \in [1..(n + 1) -> M] /\ DOMAIN more = 1..(n + 1)
    BY <2>1
  <2>3. more[n + 1] = x
    OBVIOUS
  <2>4. \A k \in 1..n : more[k] = place[k] /\ more[k] \in Nat
    <3>1. \A k \in 1..n : more[k] = place[k]
      <4>1. \A k \in 1..n : k \in 1..(n + 1) /\ k <= n
        OBVIOUS
      <4>2. QED
        BY <4>1
    <3> HIDE DEF more
    <3>2. QED
      BY <2>1, <3>1
  <2>5. \A k \in 1..(n + 1) : k \in 1..n \/ k = n + 1
    OBVIOUS
  <2>6. QED
    BY <2>2, <2>3, <2>4, <2>5
<1> HIDE DEF more
<1>5. \A k, l \in 1..n : k < l => place[k] < place[l]
  BY <1>1 DEF InOrder
<1>6. \A k \in 1..n : place[k] < x
  <2>1. ASSUME NEW k \in 1..n
        PROVE  place[k] < x
    <3>1. n # 0 /\ n \in 1..n /\ place[n] < x
      BY <1>1, <1>3
    <3>2. k = n \/ place[k] < place[n]
      BY <1>5, <3>1
    <3>3. place[k] \in Nat /\ place[n] \in Nat /\ x \in Nat
      BY <1>1, <1>3, <3>1
    <3>4. QED
      BY <3>1, <3>2, <3>3
  <2>2. QED
    BY <2>1
<1>7. \A k, l \in 1..(n + 1) : k < l => more[k] < more[l]
  <2>1. ASSUME NEW k \in 1..(n + 1), NEW l \in 1..(n + 1), k < l
        PROVE  more[k] < more[l]
    <3>1. k \in 1..n
      BY <2>1
    <3>2. QED
      BY <1>4, <1>5, <1>6, <2>1, <3>1
  <2>2. QED
    BY <2>1
<1>8. \A i \in M : i \in Range(more) \/ more[n + 1] < i
  <2>1. ASSUME NEW i \in M
        PROVE  i \in Range(more) \/ more[n + 1] < i
    <3>1. CASE i \in Range(place)
      <4>1. PICK k \in 1..n : place[k] = i
        BY <1>1, <3>1 DEF Range
      <4>2. more[k] = i /\ k \in DOMAIN more
        BY <1>4, <4>1
      <4>3. QED
        BY <4>2 DEF Range
    <3>2. CASE i = x
      BY <1>4, <3>2 DEF Range
    <3>3. CASE i \notin Range(place) /\ i # x
      BY <1>3, <1>4, <3>3
    <3>4. QED
      BY <3>1, <3>2, <3>3
  <2>2. QED
    BY <2>1
<1>9. InOrder(more)
  BY <1>4, <1>7 DEF InOrder
<1>10. First(M, n + 1, more)
  BY <1>4, <1>8, <1>9 DEF First
<1>11. QED
  BY <1>10

\* As many first places as there are.
LEMMA FirstExist ==
  ASSUME NEW M \in SUBSET Nat, IsFiniteSet(M), NEW n \in Nat, n <= Cardinality(M)
  PROVE  \E place : First(M, n, place)
<1> DEFINE T == {k \in 0..n : \A place : ~First(M, k, place)}
<1>1. SUFFICES ASSUME T # {}
               PROVE  FALSE
  BY DEF T
<1>2. PICK k \in T : \A l \in T : k <= l
  <2>1. T \in SUBSET Nat
    OBVIOUS
  <2> HIDE DEF T
  <2>2. QED
    BY <1>1, <2>1, LeastExists
<1>3. k \in 0..n /\ \A place : ~First(M, k, place)
  BY <1>2
<1>4. CASE k = 0
  <2> DEFINE none == [i \in 1..0 |-> i]
  <2>1. none \in [1..0 -> M] /\ DOMAIN none = {}
    OBVIOUS
  <2>2. First(M, 0, none)
    BY <2>1 DEF First, InOrder
  <2>3. QED
    BY <1>3, <1>4, <2>2
<1>5. CASE k # 0
  <2>1. k - 1 \in 0..n /\ k - 1 \in Nat /\ ~(k <= k - 1) /\ k - 1 + 1 = k
    BY <1>3, <1>5
  <2>2. PICK place : First(M, k - 1, place)
    BY <1>2, <2>1
  <2>3. k - 1 < Cardinality(M)
    BY <1>3, <2>1, FS_CardinalityType
  <2>4. \E more : First(M, k - 1 + 1, more)
    <3>1. PICK j \in Nat : j = k - 1
      BY <2>1
    <3>2. \E more : First(M, j + 1, more)
      BY <2>2, <2>3, <3>1, FirstAndOneMore
    <3>3. QED
      BY <3>1, <3>2
  <2>5. QED
    BY <1>3, <2>1, <2>4
<1>6. QED
  BY <1>4, <1>5

\* A query always has an answer: a bundle that is being read gets its next page,
\* or an empty one, whatever the log and whatever the filter.
THEOREM PageExists == ExportSpec => [](Page # {})
<1>1. TypeOK => Page # {}
  <2> SUFFICES ASSUME TypeOK
               PROVE  Page # {}
    OBVIOUS
  <2>1. Len(db) \in Nat /\ DOMAIN db = 1..Len(db)
    BY LenProperties DEF TypeOK
  <2>2. Matching \in SUBSET (1..Len(db)) /\ Matching \in SUBSET Nat
    BY <2>1 DEF Matching
  <2>3. IsFiniteSet(Matching) /\ Cardinality(Matching) \in Nat
    <3>1. IsFiniteSet(1..Len(db))
      BY <2>1, FS_Interval
    <3>2. IsFiniteSet(Matching)
      BY <2>2, <3>1, FS_Subset
    <3>3. QED
      BY <3>2, FS_CardinalityType
  <2>4. PICK n : n = Min({Cardinality(Matching), PageLimit})
    OBVIOUS
  <2>5. n \in Nat /\ n <= Cardinality(Matching) /\ (n = 0 => Cardinality(Matching) = 0)
    BY <2>3, <2>4, MinOfTwo, ExportAssumption
  <2>6. PICK place : First(Matching, n, place)
    BY <2>2, <2>3, <2>5, FirstExist
  <2>7. \A i \in Matching : i \in Range(place) \/ place[n] < i
    <3>1. n = 0 => Matching = {}
      BY <2>3, <2>5, FS_EmptySet
    <3>2. QED
      BY <2>6, <3>1 DEF First
  <2>8. place \in Page
    BY <2>4, <2>6, <2>7 DEF First, Page
  <2>9. QED
    BY <2>8
<1>2. QED
  BY <1>1, TypeCorrect, ExportIsStore, PTL

\* A page: the rows at the first places that match, committed when the last of them
\* has its number.
IsPage(n, place, page) ==
  /\ place \in [1..n -> Matching] /\ InOrder(place)
  /\ \A i \in Matching : (\E k \in 1..n : place[k] = i) \/ place[n] < i
  /\ page \in Seq(Row) /\ Len(page) = n /\ \A k \in 1..n : page[k] = db[place[k]]
  /\ Last(page).sequence # 0 => Last(page).sequence = place[n] /\ place[n] \in 1..Len(disk)

\* A page of a bundle is what IsPage says: matching rows in order, the first there are.
LEMMA PageFacts ==
  ASSUME TypeOK, RowsInv, NumberedIsCommitted, BundleTypeOK, Matching # {}, NEW place \in Page,
         NEW page, page = [k \in DOMAIN place |-> db[place[k]]]
  PROVE  \E n \in Nat \ {0} : IsPage(n, place, page)
<1>1. Len(db) \in Nat /\ Len(disk) \in Nat /\ \A i \in 1..Len(db) : db[i] \in Row
  BY RowTypes
<1>2. DOMAIN db = 1..Len(db)
  BY LenProperties DEF TypeOK
<1>3. Matching \in SUBSET (1..Len(db))
  BY <1>2 DEF Matching
<1>4. Cardinality(Matching) \in Nat \ {0}
  <2>1. IsFiniteSet(Matching)
    <3>1. IsFiniteSet(1..Len(db))
      BY <1>1, FS_Interval
    <3>2. QED
      BY <1>3, <3>1, FS_Subset
  <2>2. QED
    BY <2>1, FS_CardinalityType, FS_EmptySet
<1>5. PICK n : n = Min({Cardinality(Matching), PageLimit})
  OBVIOUS
<1>6. n \in Nat \ {0}
  BY <1>4, <1>5, MinOfTwo, ExportAssumption
<1>7. /\ place \in [1..n -> Matching] /\ InOrder(place)
      /\ \A i \in Matching : i \in Range(place) \/ place[n] < i
  BY <1>5 DEF Page
<1>8. \A i \in Range(place) : \E k \in 1..n : place[k] = i
  BY <1>7 DEF Range
<1>9. \A k \in 1..n : place[k] \in 1..Len(db) /\ db[place[k]] \in Row
  BY <1>1, <1>3, <1>7
<1>10. page \in [1..n -> Row] /\ \A k \in 1..n : page[k] = db[place[k]]
  BY <1>7, <1>9
<1>11. page \in Seq(Row) /\ Len(page) = n
  BY <1>6, <1>10, IsASeq, LenProperties
<1>12. Last(page) = db[place[n]] /\ place[n] \in 1..Len(db)
  BY <1>6, <1>9, <1>10, <1>11 DEF Last
<1>13. Last(page).sequence # 0 => Last(page).sequence = place[n] /\ place[n] \in 1..Len(disk)
  <2>1. db[place[n]].sequence \in {0, place[n]}
    BY <1>12 DEF RowsInv, BodyInv
  <2>2. QED
    BY <1>1, <1>12, <2>1 DEF NumberedIsCommitted
<1>14. QED
  BY <1>6, <1>7, <1>8, <1>10, <1>11, <1>13 DEF IsPage

\* A record of the right fields is a bundle.
LEMMA RecordIsBundle ==
  ASSUME NEW at \in {"none", "reading", "done", "failed"}, NEW since \in Nat, NEW until \in Nat,
         NEW kind \in BOOLEAN, NEW cursor \in Nat, NEW rows \in Seq(Row)
  PROVE  [at |-> at, since |-> since, until |-> until, kind |-> kind, cursor |-> cursor, rows |-> rows]
           \in [at : {"none", "reading", "done", "failed"}, since : Nat, until : Nat, kind : BOOLEAN,
               cursor : Nat, rows : Seq(Row)]
  OBVIOUS

\* A bundle that fails holds nothing.
LEMMA NothingFails ==
  ASSUME bundle' = [NoBundle EXCEPT !.at = "failed"]
  PROVE  BundleTypeOK' /\ BundleWhole'
<1>1. bundle' = [at |-> "failed", since |-> 0, until |-> 0, kind |-> FALSE, cursor |-> 0, rows |-> <<>>]
  BY DEF NoBundle
<1>2. <<>> \in Seq(Row) /\ 0 \in Nat /\ FALSE \in BOOLEAN /\ "failed" \in {"none", "reading", "done", "failed"}
  BY EmptySeq
<1>3. BundleTypeOK'
  <2>1. [at |-> "failed", since |-> 0, until |-> 0, kind |-> FALSE, cursor |-> 0, rows |-> <<>>]
           \in [at : {"none", "reading", "done", "failed"}, since : Nat, until : Nat, kind : BOOLEAN,
               cursor : Nat, rows : Seq(Row)]
    BY <1>2, RecordIsBundle, Zenon
  <2>2. QED
    BY <1>1, <2>1, Zenon DEF BundleTypeOK
<1>4. bundle'.at = "failed"
  BY <1>1
<1>5. QED
  BY <1>3, <1>4 DEF BundleWhole

\* The cursor is never below where the bundle began.
LEMMA SinceBelow ==
  ASSUME BundleTypeOK, BundleWhole, bundle.at \in {"reading", "done"}
  PROVE  bundle.since <= bundle.cursor
<1>0. bundle.since \in Nat /\ bundle.cursor \in Nat /\ bundle.rows \in Seq(Row)
  BY DEF BundleTypeOK
<1>1. CASE bundle.rows = <<>>
  BY <1>0, <1>1 DEF BundleWhole
<1>2. CASE bundle.rows # <<>>
  <2>1. 1 \in DOMAIN bundle.rows
    BY <1>0, <1>2, EmptySeq, LenProperties
  <2>2. Wanted(bundle.cursor) # {}
    BY <2>1 DEF BundleWhole, Holds
  <2>3. QED
    BY <1>0, <2>2 DEF Wanted
<1>3. QED
  BY <1>1, <1>2

\* What a page adds to a bundle comes after what it has, and is what comes next.
LEMMA ReadPageKeeps ==
  ASSUME TypeOK, RowsInv, NumberedIsCommitted, BundleTypeOK, BundleWhole, ReadPage
  PROVE  BundleTypeOK' /\ BundleWhole'
<1>0. /\ bundle.at = "reading" /\ Matching # {} /\ db' = db /\ disk' = disk
      /\ bundle.since \in Nat /\ bundle.cursor \in Nat /\ bundle.rows \in Seq(Row)
  BY DEF ReadPage, BundleTypeOK, vars
<1>a. PICK place \in Page :
        LET page == [k \in DOMAIN place |-> db[place[k]]]
        IN  bundle' = IF Numbered(page)
                      THEN [bundle EXCEPT !.rows = @ \o page, !.cursor = Cursor(page)]
                      ELSE [NoBundle EXCEPT !.at = "failed"]
  BY Zenon DEF ReadPage
<1>1. PICK page :
        /\ page = [k \in DOMAIN place |-> db[place[k]]]
        /\ bundle' = IF Numbered(page)
                     THEN [bundle EXCEPT !.rows = @ \o page, !.cursor = Cursor(page)]
                     ELSE [NoBundle EXCEPT !.at = "failed"]
  BY <1>a, Zenon
<1>b. PICK n \in Nat \ {0} : IsPage(n, place, page)
  BY <1>0, <1>1, PageFacts
<1>2. /\ place \in [1..n -> Matching] /\ InOrder(place)
      /\ \A i \in Matching : (\E k \in 1..n : place[k] = i) \/ place[n] < i
      /\ page \in Seq(Row) /\ Len(page) = n /\ \A k \in 1..n : page[k] = db[place[k]]
      /\ Last(page).sequence # 0 => Last(page).sequence = place[n] /\ place[n] \in 1..Len(disk)
  BY <1>b DEF IsPage
<1>3. CASE ~Numbered(page)
  BY <1>1, <1>3, NothingFails
<1>4. CASE Numbered(page)
  <2> DEFINE all == bundle.rows \o page
             m == Len(bundle.rows)
             top == place[n]
  <2>1. bundle' = [bundle EXCEPT !.rows = all, !.cursor = top] /\ top \in 1..Len(disk)
    BY <1>1, <1>2, <1>4 DEF Numbered, Cursor
  <2>2. /\ m \in Nat /\ all \in Seq(Row) /\ Len(all) = m + n /\ DOMAIN all = 1..(m + n)
        /\ \A i \in 1..m : all[i] = bundle.rows[i]
        /\ \A k \in 1..n : all[m + k] = page[k]
    <3>1. m \in Nat
      BY <1>0, LenProperties
    <3>2. /\ all \in Seq(Row) /\ Len(all) = m + n
          /\ \A i \in 1..(m + n) : all[i] = IF i <= m THEN bundle.rows[i] ELSE page[i - m]
      <4>1. PICK s \in Seq(Row), t \in Seq(Row) : s = bundle.rows /\ t = page
        BY <1>0, <1>2
      <4>2. /\ s \o t \in Seq(Row) /\ Len(s \o t) = Len(s) + Len(t)
            /\ \A i \in 1..(Len(s) + Len(t)) : (s \o t)[i] = IF i <= Len(s) THEN s[i] ELSE t[i - Len(s)]
        BY ConcatProperties
      <4>3. all = s \o t /\ m = Len(s) /\ n = Len(t)
        BY <1>2, <4>1
      <4> HIDE DEF all, m
      <4>4. QED
        BY <4>1, <4>2, <4>3
    <3>3. DOMAIN all = 1..Len(all)
      BY <3>2, LenProperties
    <3> HIDE DEF all, m
    <3>4. \A i \in 1..m : i \in 1..(m + n) /\ i <= m
      BY <3>1
    <3>5. \A k \in 1..n : m + k \in 1..(m + n) /\ ~(m + k <= m) /\ m + k - m = k
      BY <3>1
    <3>6. QED
      BY <3>1, <3>2, <3>3, <3>4, <3>5
  <2>3. /\ Len(db) \in Nat /\ Len(disk) \in Nat /\ Len(disk) <= Len(db)
        /\ \A k \in 1..Len(disk) : /\ db[k].id = disk[k].id /\ db[k].prev = disk[k].prev
                                   /\ db[k].hash = disk[k].hash
    BY RowTypes DEF RowsInv, PrefixInv, SameRow
  <2> HIDE DEF all, m, top
  <2>4. /\ bundle'.rows = all /\ bundle'.cursor = top /\ bundle'.since = bundle.since
        /\ bundle'.until = bundle.until /\ bundle'.kind = bundle.kind /\ bundle'.at = "reading"
    BY <1>0, <2>1 DEF BundleTypeOK
  <2>5. BundleTypeOK'
    <3>1. top \in Nat
      BY <2>1, <2>3
    <3>2. QED
      BY <2>1, <2>2, <3>1 DEF BundleTypeOK
  <2>6. Last(all).sequence = top /\ all # <<>>
    <3>1. all[m + n] = page[n] /\ n \in 1..n
      BY <2>2
    <3>2. Last(all) = Last(page)
      BY <1>2, <2>2, <3>1 DEF Last
    <3>3. QED
      BY <1>2, <1>4, <2>2, <3>2, EmptySeq DEF Numbered, top
  <2>7. PICK old \in [1..m -> Wanted(bundle.cursor)] :
          /\ InOrder(old) /\ \A k \in Wanted(bundle.cursor) : \E i \in 1..m : old[i] = k
          /\ \A i \in 1..m :
               /\ bundle.rows[i].id = disk[old[i]].id
               /\ bundle.rows[i].prev = disk[old[i]].prev /\ bundle.rows[i].hash = disk[old[i]].hash
    <3>1. DOMAIN bundle.rows = 1..m
      BY <1>0, LenProperties DEF m
    <3>2. Holds(bundle.rows, disk, Wanted(bundle.cursor))
      BY <1>0 DEF BundleWhole
    <3>3. PICK old \in [DOMAIN bundle.rows -> Wanted(bundle.cursor)] :
            /\ InOrder(old) /\ \A k \in Wanted(bundle.cursor) : \E i \in DOMAIN bundle.rows : old[i] = k
            /\ \A i \in DOMAIN bundle.rows :
                 /\ bundle.rows[i].id = disk[old[i]].id
                 /\ bundle.rows[i].prev = disk[old[i]].prev /\ bundle.rows[i].hash = disk[old[i]].hash
      BY <3>2, Zenon DEF Holds
    <3>4. /\ old \in [1..m -> Wanted(bundle.cursor)]
          /\ InOrder(old) /\ \A k \in Wanted(bundle.cursor) : \E i \in 1..m : old[i] = k
          /\ \A i \in 1..m :
               /\ bundle.rows[i].id = disk[old[i]].id
               /\ bundle.rows[i].prev = disk[old[i]].prev /\ bundle.rows[i].hash = disk[old[i]].hash
      BY <3>1, <3>3
    <3>5. QED
      BY <3>4, Zenon
  <2>8. bundle.since <= bundle.cursor
    BY <1>0, RowTypes, SinceBelow
  <2>9. \A k \in Wanted(bundle.cursor) : k \in Nat /\ k > 0 /\ k <= bundle.cursor /\ k > bundle.since /\ Selected(disk[k])
    BY <1>0 DEF Wanted
  <2>10. \A i \in Matching : i \in 1..Len(db) /\ i > bundle.cursor /\ Selected(db[i])
    <3>1. DOMAIN db = 1..Len(db)
      BY LenProperties DEF TypeOK
    <3>2. QED
      BY <3>1 DEF Matching
  <2>11. \A k \in 1..n : place[k] \in Matching /\ place[k] <= top
    <3>1. \A k \in 1..n : place[k] \in Matching /\ (k < n => place[k] < place[n])
      BY <1>2 DEF InOrder
    <3>2. \A k \in 1..n : place[k] \in Nat
      BY <2>3, <2>10, <3>1
    <3>3. QED
      BY <3>1, <3>2 DEF top
  <2>12. \A k \in 1..Len(disk) : (Selected(db[k]) <=> Selected(disk[k])) /\ (Selected(disk[k])' <=> Selected(disk[k]))
    BY <1>0, <2>3, <2>4 DEF Selected
  <2>13. Wanted(bundle.cursor)' = {k \in 1..top : k > bundle.since /\ Selected(disk[k])}
    <3>1. \A k \in 1..top : k \in 1..Len(disk)
      BY <2>1, <2>3
    <3>2. QED
      BY <1>0, <2>4, <2>12, <3>1 DEF Wanted
  <2>14. bundle.cursor < top
    <3>1. top \in Matching
      BY <1>2 DEF top
    <3>2. QED
      BY <1>0, <2>1, <2>3, <2>10, <3>1
  <2> DEFINE new == [i \in 1..(m + n) |-> IF i <= m THEN old[i] ELSE place[i - m]]
  <2>15. /\ \A i \in 1..m : i \in 1..(m + n) /\ new[i] = old[i]
         /\ \A k \in 1..n : m + k \in 1..(m + n) /\ new[m + k] = place[k]
         /\ \A i \in 1..(m + n) : i \in 1..m \/ \E k \in 1..n : i = m + k
    <3>1. \A i \in 1..(m + n) : i \in 1..m \/ (i - m \in 1..n /\ i = m + (i - m))
      BY <2>2
    <3>2. QED
      BY <2>2, <3>1
  <2>16. \A i \in 1..m : old[i] \in Wanted(bundle.cursor) /\ old[i] \in 1..top
    BY <1>0, <2>1, <2>7, <2>9, <2>14
  <2>17. \A k \in 1..n : place[k] \in 1..top /\ place[k] \in 1..Len(disk)
    BY <2>1, <2>3, <2>10, <2>11
  <2>18. DOMAIN new = 1..(m + n)
    OBVIOUS
  <2> HIDE DEF new
  <2>19. \A i \in 1..(m + n) : new[i] \in Wanted(bundle.cursor)'
    <3>1. \A i \in 1..m : new[i] \in Wanted(bundle.cursor)'
      BY <2>9, <2>13, <2>15, <2>16
    <3>2. ASSUME NEW k \in 1..n
          PROVE  new[m + k] \in Wanted(bundle.cursor)'
      <4>1. place[k] \in 1..Len(db) /\ place[k] > bundle.cursor /\ Selected(db[place[k]])
        BY <2>10, <2>11
      <4>2. place[k] \in 1..top /\ place[k] \in 1..Len(disk)
        BY <2>17
      <4>3. place[k] > bundle.since /\ Selected(disk[place[k]])
        BY <1>0, <2>8, <2>12, <4>1, <4>2
      <4>4. QED
        BY <2>13, <2>15, <4>2, <4>3
    <3>3. QED
      BY <2>15, <3>1, <3>2
  <2>20. InOrder(new)
    <3>1. ASSUME NEW i \in 1..(m + n), NEW j \in 1..(m + n), i < j
          PROVE  new[i] < new[j]
      <4>1. CASE i \in 1..m /\ j \in 1..m
        BY <2>7, <2>15, <3>1, <4>1 DEF InOrder
      <4>2. ASSUME NEW k \in 1..n, j = m + k, i \in 1..m
            PROVE  new[i] < new[j]
        <5>1. new[i] = old[i] /\ old[i] \in Nat /\ old[i] <= bundle.cursor
          BY <2>9, <2>15, <2>16, <4>2
        <5>2. new[j] = place[k] /\ place[k] \in Nat /\ place[k] > bundle.cursor
          BY <2>10, <2>11, <2>15, <2>17, <4>2
        <5>3. QED
          BY <1>0, <5>1, <5>2
      <4>3. ASSUME NEW k \in 1..n, NEW l \in 1..n, i = m + k, j = m + l
            PROVE  new[i] < new[j]
        <5>1. k < l
          BY <2>2, <3>1, <4>3
        <5>2. place[k] < place[l]
          BY <1>2, <5>1 DEF InOrder
        <5>3. QED
          BY <2>15, <4>3, <5>2
      <4>4. ASSUME NEW k \in 1..n, i = m + k, j \in 1..m
            PROVE  FALSE
        BY <2>2, <3>1, <4>4
      <4>5. QED
        BY <2>15, <4>1, <4>2, <4>3, <4>4
    <3>2. QED
      BY <2>18, <3>1 DEF InOrder
  <2>21. \A k \in Wanted(bundle.cursor)' : \E i \in 1..(m + n) : new[i] = k
    <3>1. SUFFICES ASSUME NEW k \in 1..top, k > bundle.since, Selected(disk[k])
                   PROVE  \E i \in 1..(m + n) : new[i] = k
      BY <2>13
    <3>2. CASE k <= bundle.cursor
      <4>1. k \in Wanted(bundle.cursor)
        BY <1>0, <3>1, <3>2 DEF Wanted
      <4>2. QED
        BY <2>7, <2>15, <4>1
    <3>3. CASE k > bundle.cursor
      <4>1. k \in Matching
        <5>1. k \in 1..Len(disk) /\ k \in DOMAIN db
          BY <2>1, <2>3, LenProperties DEF TypeOK
        <5>2. QED
          BY <2>12, <3>1, <3>3, <5>1 DEF Matching
      <4>2. ~(place[n] < k)
        BY <2>1, <2>3 DEF top
      <4>3. QED
        BY <1>2, <2>15, <4>1, <4>2
    <3>4. QED
      BY <1>0, <2>1, <2>3, <3>2, <3>3
  <2>22. \A i \in 1..(m + n) :
           /\ all[i].id = disk[new[i]].id
           /\ all[i].prev = disk[new[i]].prev /\ all[i].hash = disk[new[i]].hash
    <3>1. \A i \in 1..m :
            /\ all[i].id = disk[new[i]].id
            /\ all[i].prev = disk[new[i]].prev /\ all[i].hash = disk[new[i]].hash
      BY <2>2, <2>7, <2>15
    <3>2. ASSUME NEW k \in 1..n
          PROVE  /\ all[m + k].id = disk[new[m + k]].id
                 /\ all[m + k].prev = disk[new[m + k]].prev /\ all[m + k].hash = disk[new[m + k]].hash
      <4>1. all[m + k] = db[place[k]] /\ new[m + k] = place[k]
        BY <1>2, <2>2, <2>15
      <4>2. place[k] \in 1..Len(disk)
        BY <2>17
      <4>3. QED
        BY <2>3, <4>1, <4>2
    <3>3. QED
      BY <2>15, <3>1, <3>2
  <2>23. Holds(bundle.rows, disk, Wanted(bundle.cursor))'
    <3>1. new \in [1..(m + n) -> Wanted(bundle.cursor)']
      <4>1. new = [i \in 1..(m + n) |-> new[i]]
        BY DEF new
      <4>2. QED
        BY <2>19, <4>1
    <3>2. DOMAIN bundle'.rows = 1..(m + n) /\ bundle'.rows = all
      BY <2>2, <2>4
    <3>3. new \in [DOMAIN bundle'.rows -> Wanted(bundle.cursor)']
      BY <3>1, <3>2
    <3>4. \A k \in Wanted(bundle.cursor)' : \E i \in DOMAIN bundle'.rows : new[i] = k
      BY <2>21, <3>2
    <3>5. \A i \in DOMAIN bundle'.rows :
            /\ bundle'.rows[i].id = disk'[new[i]].id
            /\ bundle'.rows[i].prev = disk'[new[i]].prev /\ bundle'.rows[i].hash = disk'[new[i]].hash
      BY <1>0, <2>22, <3>2
    <3>6. QED
      BY <2>20, <3>3, <3>4, <3>5, Zenon DEF Holds
  <2>24. BundleWhole'
    BY <1>0, <2>1, <2>4, <2>6, <2>23 DEF BundleWhole
  <2>25. QED
    BY <2>5, <2>24
<1>5. QED
  BY <1>3, <1>4

\* The empty page that ends a bundle keeps it whole (bundles.py:54-58).
LEMMA FinishKeeps ==
  ASSUME BundleTypeOK, BundleWhole, Finish
  PROVE  BundleTypeOK' /\ BundleWhole'
<1>0. /\ bundle.at = "reading" /\ disk' = disk
      /\ bundle' = IF bundle.rows # <<>> /\ Head(bundle.rows).sequence = 0
                   THEN [NoBundle EXCEPT !.at = "failed"]
                   ELSE [bundle EXCEPT !.at = "done"]
  BY DEF Finish, vars
<1>1. CASE bundle' = [NoBundle EXCEPT !.at = "failed"]
  BY <1>1, NothingFails
<1>2. CASE bundle' = [bundle EXCEPT !.at = "done"]
  <2>1. /\ bundle'.rows = bundle.rows /\ bundle'.cursor = bundle.cursor /\ bundle'.since = bundle.since
        /\ bundle'.until = bundle.until /\ bundle'.kind = bundle.kind /\ BundleTypeOK'
    BY <1>2 DEF BundleTypeOK
  <2>2. Wanted(bundle.cursor)' = Wanted(bundle.cursor)
    BY <1>0, <2>1 DEF Wanted, Selected
  <2>3. Holds(bundle.rows, disk, Wanted(bundle.cursor))' <=> Holds(bundle.rows, disk, Wanted(bundle.cursor))
    BY <1>0, <2>1, <2>2 DEF Holds
  <2>4. QED
    BY <1>0, <2>1, <2>3 DEF BundleWhole
<1>3. QED
  BY <1>0, <1>1, <1>2

\* A bundle that is asked for has no rows, and wants none yet.
LEMMA AskKeeps ==
  ASSUME Ask
  PROVE  BundleTypeOK' /\ BundleWhole'
<1>1. PICK since \in 0..1, until \in {0, 2}, kind \in BOOLEAN :
        bundle' = [NoBundle EXCEPT !.at = "reading", !.since = since, !.until = until,
                                   !.kind = kind, !.cursor = since]
  BY DEF Ask
<1>2. bundle' = [at |-> "reading", since |-> since, until |-> until, kind |-> kind,
                 cursor |-> since, rows |-> <<>>]
  BY <1>1 DEF NoBundle
<1>3. <<>> \in Seq(Row)
  BY EmptySeq
<1>4. BundleTypeOK'
  BY <1>2, <1>3 DEF BundleTypeOK
<1>5. BundleWhole'
  BY <1>2, NothingHeld
<1>6. QED
  BY <1>4, <1>5

\* A bundle is always whole as far as it was read.
LEMMA BundleStep ==
  ASSUME TypeOK, RowsInv, NumberedIsCommitted, BundleTypeOK, BundleWhole,
         [ExportNext]_<<vars, exportVars>>
  PROVE  BundleTypeOK' /\ BundleWhole'
<1>0. [Next]_vars
  BY ExportStepIsStoreStep
<1>1. CASE bundle' = bundle
  BY <1>0, <1>1, BundleStays DEF BundleTypeOK
<1>2. CASE bundle' = NoBundle
  <2>1. bundle' = [at |-> "none", since |-> 0, until |-> 0, kind |-> FALSE, cursor |-> 0, rows |-> <<>>]
    BY <1>2 DEF NoBundle
  <2>2. <<>> \in Seq(Row)
    BY EmptySeq
  <2>3. BundleTypeOK' /\ bundle'.at = "none"
    BY <2>1, <2>2 DEF BundleTypeOK
  <2>4. QED
    BY <2>3 DEF BundleWhole
<1>3. CASE ReadPage
  BY <1>3, ReadPageKeeps
<1>4. CASE Finish
  BY <1>4, FinishKeeps
<1>5. CASE Ask
  BY <1>5, AskKeeps
<1>6. QED
  BY <1>1, <1>2, <1>3, <1>4, <1>5 DEF ExportNext, StoreGoesOn, Dies, exportVars

\* Places that rise through all of an interval.
Rising(n, a, b, place) ==
  /\ \A i \in 1..n : place[i] \in (a + 1)..b
  /\ \A i, j \in 1..n : i < j => place[i] < place[j]
  /\ \A k \in (a + 1)..b : \E i \in 1..n : place[i] = k

\* Between one place and the next there is none.
LEMMA NextPlace ==
  ASSUME NEW n \in Nat, NEW a \in Nat, NEW b \in Nat, NEW place, Rising(n, a, b, place),
         NEW i \in 1..n, i > 1
  PROVE  place[i] = place[i - 1] + 1
<1> USE DEF Rising
<1>1. /\ i - 1 \in 1..n /\ place[i - 1] \in (a + 1)..b /\ place[i] \in (a + 1)..b
      /\ place[i - 1] < place[i]
  OBVIOUS
<1>2. SUFFICES ASSUME place[i - 1] + 1 < place[i]
               PROVE  FALSE
  BY <1>1
<1>3. place[i - 1] + 1 \in (a + 1)..b
  BY <1>1, <1>2
<1>4. PICK j \in 1..n : place[j] = place[i - 1] + 1
  BY <1>3
<1>5. \A k, l \in 1..n : k < l => place[k] < place[l]
  OBVIOUS
<1>6. CASE j <= i - 1
  <2>1. j = i - 1 \/ place[j] < place[i - 1]
    BY <1>1, <1>5, <1>6
  <2>2. QED
    BY <1>1, <1>4, <2>1
<1>7. CASE j >= i
  <2>1. j = i \/ place[i] < place[j]
    BY <1>1, <1>5, <1>7
  <2>2. place[i] <= place[i - 1] + 1
    BY <1>1, <1>4, <2>1
  <2>3. QED
    BY <1>1, <1>2, <2>2
<1>8. QED
  BY <1>6, <1>7

\* Of a chain, the rows of a bundle that leaves nothing out are a piece.
LEMMA WholeVerifies ==
  ASSUME TypeOK, ChainLinked, BundleTypeOK, BundleWhole
  PROVE  BundleVerifies
<1> SUFFICES ASSUME Done, Contiguous, bundle.until = 0, faults = 0
             PROVE  Verifies(bundle.rows)
  BY DEF BundleVerifies
<1>0. /\ bundle.at = "done" /\ bundle.since \in Nat /\ bundle.cursor \in Nat /\ bundle.rows \in Seq(Row)
      /\ Len(bundle.rows) \in Nat /\ DOMAIN bundle.rows = 1..Len(bundle.rows)
  BY LenProperties DEF BundleTypeOK, Done
<1> DEFINE n == Len(bundle.rows)
           to == bundle.cursor
           from == bundle.since
<1>1. Wanted(bundle.cursor) = (from + 1)..to
  BY <1>0 DEF Wanted, Selected, Contiguous
<1>2. CASE bundle.rows = <<>>
  BY <1>2 DEF Verifies
<1>3. CASE bundle.rows # <<>>
  <2>1. to \in 1..Len(disk) /\ Len(disk) \in Nat
    BY <1>3, <1>0, RowTypes DEF BundleWhole
  <2>2. Holds(bundle.rows, disk, Wanted(bundle.cursor))
    BY <1>0 DEF BundleWhole
  <2>3. PICK place \in [DOMAIN bundle.rows -> Wanted(bundle.cursor)] :
          /\ InOrder(place) /\ \A k \in Wanted(bundle.cursor) : \E i \in DOMAIN bundle.rows : place[i] = k
          /\ \A i \in DOMAIN bundle.rows :
               /\ bundle.rows[i].id = disk[place[i]].id
               /\ bundle.rows[i].prev = disk[place[i]].prev /\ bundle.rows[i].hash = disk[place[i]].hash
    BY <2>2, Zenon DEF Holds
  <2>4. /\ place \in [1..n -> (from + 1)..to] /\ InOrder(place)
        /\ \A k \in (from + 1)..to : \E i \in 1..n : place[i] = k
    BY <1>0, <1>1, <2>3
  <2>5. n \in Nat /\ from \in Nat /\ to \in Nat
    BY <1>0
  <2>6. Rising(n, from, to, place)
    BY <2>4 DEF InOrder, Rising
  <2>7. ASSUME NEW i \in DOMAIN bundle.rows
        PROVE  /\ bundle.rows[i].hash = Digest(bundle.rows[i].prev, bundle.rows[i].id)
               /\ i > 1 => bundle.rows[i].prev = bundle.rows[i - 1].hash
    <3>1. i \in 1..n /\ place[i] \in 1..Len(disk)
      BY <1>0, <2>1, <2>4
    <3>2. LinkedAt(disk, place[i])
      BY <3>1 DEF ChainLinked, Linked
    <3>3. bundle.rows[i].hash = Digest(bundle.rows[i].prev, bundle.rows[i].id)
      BY <2>3, <3>2 DEF LinkedAt
    <3>4. ASSUME i > 1
          PROVE  bundle.rows[i].prev = bundle.rows[i - 1].hash
      <4>1. place[i] = place[i - 1] + 1
        <5> HIDE DEF n, from, to
        <5>1. QED
          BY <2>5, <2>6, <3>1, <3>4, NextPlace
      <4>2. i - 1 \in DOMAIN bundle.rows /\ place[i - 1] \in 1..Len(disk)
        BY <1>0, <2>1, <2>4, <3>1, <3>4
      <4>3. disk[place[i]].prev = disk[place[i - 1]].hash
        <5>1. place[i] # 1 /\ place[i] - 1 = place[i - 1]
          BY <4>1, <4>2, <2>1
        <5>2. QED
          BY <3>2, <5>1 DEF LinkedAt
      <4>4. QED
        BY <2>3, <4>2, <4>3
    <3>5. QED
      BY <3>3, <3>4
  <2>8. QED
    BY <2>7 DEF Verifies
<1>4. QED
  BY <1>2, <1>3

\* However many pages it takes, and whatever is appended, fails or is taken back
\* between them, a bundle holds exactly the committed rows it selects as far as it
\* was read, in order; and one that leaves none out verifies unless a write failed.
THEOREM BundleIsSound == ExportSpec => []BundleSound
<1>1. ExportInit => BundleTypeOK /\ BundleWhole /\ NumberedIsCommitted
  <2> SUFFICES ASSUME ExportInit
               PROVE  BundleTypeOK /\ BundleWhole /\ NumberedIsCommitted
    OBVIOUS
  <2>1. bundle = [at |-> "none", since |-> 0, until |-> 0, kind |-> FALSE, cursor |-> 0, rows |-> <<>>]
    BY DEF ExportInit, NoBundle
  <2>2. <<>> \in Seq(Row)
    BY EmptySeq
  <2>3. BundleTypeOK /\ bundle.at = "none"
    BY <2>1, <2>2 DEF BundleTypeOK
  <2>4. NumberedIsCommitted
    BY EmptySeq DEF ExportInit, Init, NumberedIsCommitted
  <2>5. QED
    BY <2>3, <2>4 DEF BundleWhole
<1>2. /\ IInv /\ BundleTypeOK /\ BundleWhole /\ NumberedIsCommitted
      /\ [ExportNext]_<<vars, exportVars>>
      => BundleTypeOK' /\ BundleWhole' /\ NumberedIsCommitted'
  BY BundleStep, NumberedStep, ExportStepIsStoreStep DEF IInv
<1>3. IInv /\ BundleTypeOK /\ BundleWhole => BundleSound
  BY WholeVerifies DEF IInv, BundleSound
<1>4. QED
  BY <1>1, <1>2, <1>3, ExportIsStore, Invariant, PTL DEF ExportSpec

==============================================================================
