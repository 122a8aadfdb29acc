-------------------------------- MODULE Export --------------------------------
(***************************************************************************)
(* Evidence bundles (extensions/exports/bundles.py): a selection of the    *)
(* evidence store, read in pages without the lock while threads append and *)
(* writes fail, and what its manifest claims.                              *)
(*                                                                         *)
(* A bundle selects rows after a sequence number, in a window of time, or  *)
(* of a kind; kind, module and correlation are one filter here.  The time  *)
(* of an envelope is the module's, or taken before the lock: it does not   *)
(* rise with the sequence.                                                 *)
(***************************************************************************)
EXTENDS EvidenceStore, SequencesExt

CONSTANTS
  TimeOf,     \* the time of each envelope
  OfKind,     \* the envelopes of the kind that may be asked for
  PageLimit,  \* rows a query returns at most (5000 in the code)
  MaxBundles  \* bound: bundles asked for

ASSUME ExportAssumption ==
  /\ TimeOf \in [1..MaxAppends -> Nat]
  /\ OfKind \subseteq 1..MaxAppends
  /\ PageLimit \in Nat \ {0} /\ MaxBundles \in Nat

VARIABLES
  bundle,   \* the one being built, or built last
  bundles   \* how many were asked for

exportVars == <<bundle, bundles>>

NoBundle == [at |-> "none", since |-> 0, until |-> 0, kind |-> FALSE, cursor |-> 0, rows |-> <<>>]

ExportInit ==
  /\ Init
  /\ bundle = NoBundle
  /\ bundles = 0

\* GET of a bundle: since_seq, until_time (0 is none), a kind.
Ask ==
  /\ bundle.at # "reading" /\ bundles < MaxBundles
  /\ bundles' = bundles + 1
  /\ \E since \in 0..1, until \in {0, 2}, kind \in BOOLEAN :
       bundle' = [NoBundle EXCEPT !.at = "reading", !.since = since, !.until = until,
                                  !.kind = kind, !.cursor = since]
  /\ UNCHANGED vars

\* The WHERE of the query, but for the number.
Selected(row) ==
  /\ bundle.until # 0 => TimeOf[row.id] <= bundle.until
  /\ bundle.kind => row.id \in OfKind

\* Mutant: the cursor counts rows.
CursorCounts(page) == bundle.cursor + Len(page)

\* The number in the body of the last row.
Cursor(page) == Last(page).sequence

Matching == {i \in DOMAIN db : i > bundle.cursor /\ Selected(db[i])}

InOrder(place) == \A i, j \in DOMAIN place : i < j => place[i] < place[j]

\* ORDER BY seq LIMIT: the first of the rows that match, in order.
Page ==
  LET n == Min({Cardinality(Matching), PageLimit})
  IN  {place \in [1..n -> Matching] :
         InOrder(place) /\ \A i \in Matching : i \in Range(place) \/ place[n] < i}

\* Mutant: a row without a number is passed over.
Tolerant(rows) == TRUE

\* A body without its "sequence" raises KeyError where it is asked for.
Numbered(rows) == Last(rows).sequence # 0

ReadPage ==
  /\ bundle.at = "reading" /\ Matching # {}
  /\ \E place \in Page :
       LET page == [k \in DOMAIN place |-> db[place[k]]]
       IN  bundle' = IF Numbered(page)
                     THEN [bundle EXCEPT !.rows = @ \o page, !.cursor = Cursor(page)]
                     ELSE [NoBundle EXCEPT !.at = "failed"]
  /\ UNCHANGED <<vars, bundles>>

\* An empty page: the manifest is written, with the first and the last number.
Finish ==
  /\ bundle.at = "reading" /\ Matching = {}
  /\ bundle' = IF bundle.rows # <<>> /\ Head(bundle.rows).sequence = 0
               THEN [NoBundle EXCEPT !.at = "failed"]
               ELSE [bundle EXCEPT !.at = "done"]
  /\ UNCHANGED <<vars, bundles>>

\* "contiguous": no filter but numbers and times.
Contiguous == ~bundle.kind

\* verify_bundle().
Verifies(rows) ==
  \A i \in DOMAIN rows :
    /\ rows[i].hash = Digest(rows[i].prev, rows[i].id)
    /\ i > 1 => rows[i].prev = rows[i - 1].hash

\* The store goes on; a bundle that is being built dies with the hub.
StoreGoesOn ==
  /\ \/ \E t \in Thread : Append_(t) \/ WriteFails(t)
     \/ \E q \in Queue : Subscribe(q) \/ Unsubscribe(q) \/ Take(q)
  /\ UNCHANGED exportVars

Dies ==
  /\ Reopen
  /\ bundle' = IF bundle.at = "reading" THEN NoBundle ELSE bundle
  /\ UNCHANGED bundles

ExportNext == StoreGoesOn \/ Dies \/ Ask \/ ReadPage \/ Finish

ExportSpec == ExportInit /\ [][ExportNext]_<<vars, exportVars>>

------------------------------------------------------------------------------
Done == bundle.at = "done"

\* The types of a bundle.
BundleTypeOK ==
  bundle \in [at : {"none", "reading", "done", "failed"}, since : Nat, until : Nat, kind : BOOLEAN,
              cursor : Nat, rows : Seq(Row)]

\* The committed rows that a bundle should have, up to a number.
Wanted(to) == {k \in 1..to : k > bundle.since /\ Selected(disk[k])}

\* Some rows are the ones in these places of the log, in order, and no others.
Holds(rows, log, places) ==
  \E place \in [DOMAIN rows -> places] :
    /\ InOrder(place) /\ \A k \in places : \E i \in DOMAIN rows : place[i] = k
    /\ \A i \in DOMAIN rows :
         /\ rows[i].id = log[place[i]].id
         /\ rows[i].prev = log[place[i]].prev /\ rows[i].hash = log[place[i]].hash

\* However many pages it takes and whatever is appended meanwhile, a bundle has
\* every envelope it selects as far as it was read, each once and in order, and
\* none that a crash or a rollback takes back.
BundleWhole ==
  bundle.at \in {"reading", "done"} =>
    /\ IF bundle.rows = <<>>
       THEN bundle.cursor = bundle.since
       ELSE bundle.cursor = Last(bundle.rows).sequence /\ bundle.cursor \in 1..Len(disk)
    /\ Holds(bundle.rows, disk, Wanted(bundle.cursor))

\* "each envelope's prev_hash must equal its predecessor's hash"
\* (bundles.py:16-18): a bundle that is contiguous by number can be verified,
\* unless a write had failed.
BundleVerifies ==
  Done /\ Contiguous /\ bundle.until = 0 /\ faults = 0 => Verifies(bundle.rows)

\* A bundle is what was asked for, and says so truly.
BundleSound == BundleTypeOK /\ BundleWhole /\ BundleVerifies
==============================================================================
