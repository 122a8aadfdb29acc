----------------------------- MODULE EvidenceLog -----------------------------
(***************************************************************************)
(* What the evidence store of the hub promises to everything above it: an  *)
(* append-only log of envelopes.  An envelope enters the log once, keeps   *)
(* its place for ever, and may later be given its sequence number, which   *)
(* is its place.  Nothing is said of locks, transactions, crashes or       *)
(* subscribers: EvidenceStore implements this specification.               *)
(***************************************************************************)
EXTENDS Naturals, Sequences

VARIABLES log,        \* the envelope identifiers, in the order of the log
          sequenced   \* the places whose envelope carries its number

logVars == <<log, sequenced>>

Init ==
  /\ log = <<>>
  /\ sequenced = {}

\* Every place of the old log holds the same envelope in the new one.
Extends(new, old) ==
  /\ Len(new) >= Len(old)
  /\ \A i \in 1..Len(old) : new[i] = old[i]

NoRepeats(s) == \A i, j \in 1..Len(s) : s[i] = s[j] => i = j

\* New envelopes, none of them already in the log, go to its end.
Record ==
  /\ Extends(log', log)
  /\ NoRepeats(log')

\* Envelopes already in the log are given their numbers; none loses its own.
Number ==
  /\ sequenced \subseteq sequenced'
  /\ sequenced' \subseteq 1..Len(log')

Next == Record /\ Number

Spec == Init /\ [][Next]_logVars
==============================================================================
