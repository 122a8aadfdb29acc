----------------------------- MODULE AlarmCycle -----------------------------
(***************************************************************************)
(* What the alarms of one rule promise (docs/detections.md, section 2):    *)
(* the evidence of an alarm alternates between raised and cleared and      *)
(* agrees with the board of standing alarms; who acknowledges an alarm     *)
(* acknowledges one that stands, until it is raised again.                 *)
(*                                                                         *)
(* A write that fails and a hub that restarts put an alarm in doubt: its   *)
(* last record need not agree with the board until it is recorded again.   *)
(***************************************************************************)
CONSTANT Module  \* the instruments an alarm can be about

VARIABLES
  standing,  \* alarms on the board
  acked,     \* those somebody has acknowledged
  last,      \* the last record of each alarm in the evidence
  doubt      \* alarms whose last record may disagree with the board

vars == <<standing, acked, last, doubt>>

Init ==
  /\ standing = {}
  /\ acked = {}
  /\ last = [m \in Module |-> "none"]
  /\ doubt = {}

\* The change of an alarm is written, or it could not be.
Written(m, to) ==
  \/ last' = [last EXCEPT ![m] = to] /\ doubt' = doubt \ {m}
  \/ last' = last /\ doubt' = doubt \cup {m}

Raise(m) ==
  /\ m \notin standing
  /\ m \notin doubt => last[m] # "raised"
  /\ standing' = standing \cup {m}
  /\ acked' = acked \ {m}
  /\ Written(m, "raised")

Clear(m) ==
  /\ m \in standing
  /\ m \notin doubt => last[m] = "raised"
  /\ standing' = standing \ {m}
  /\ acked' = acked \ {m}
  /\ Written(m, "cleared")

Acknowledge(m) ==
  /\ m \in standing \ acked
  /\ acked' = acked \cup {m}
  /\ UNCHANGED <<standing, last, doubt>>

\* The hub restarts with an empty board.
Lapse ==
  /\ standing' = {}
  /\ acked' = {}
  /\ last' = last
  /\ doubt' = {m \in Module : last[m] = "raised"}

Next == (\E m \in Module : Raise(m) \/ Clear(m) \/ Acknowledge(m)) \/ Lapse

Spec == Init /\ [][Next]_vars
==============================================================================
