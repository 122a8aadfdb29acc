---------------------------- MODULE MCInterpreter ----------------------------
(***************************************************************************)
(* A small instance of Interpreter for TLC: pairs of absorbance 0, 1 and 2 *)
(* (both detectors negative), a detector at zero and one within eps of it, *)
(* one without a reading, and one of the wrong sign.                       *)
(***************************************************************************)
EXTENDS Interpreter

V(sign, exp) == [read |-> TRUE, sign |-> sign, exp |-> exp]
Missing == [read |-> FALSE, sign |-> 0, exp |-> 0]

Zero == <<V(1, 0), V(1, 0)>>
One == <<V(1, 1), V(1, 0)>>
Two == <<V(-1, 1), V(-1, -1)>>
Dark == <<V(1, 0), V(0, 0)>>
Faint == <<V(1, 0), V(1, -14)>>
Wrong == <<V(1, 0), V(-1, 0)>>
Unread == <<V(1, 0), Missing>>

MCPairs ==
  [n \in Names |->
     CASE n \in {"diw", "no2_diw"} -> {Zero, Two, Unread}
       [] n \in {"std", "std_5x", "no2_std"} -> {Zero, One, Dark, Wrong}
       [] OTHER -> {Zero, One, Two, Faint, Wrong, Unread}]
==============================================================================
