------------------------------- MODULE MCPiMod -------------------------------
(***************************************************************************)
(* A small instance of PiMod for TLC: two runs, and one command of each    *)
(* other type.                                                             *)
(***************************************************************************)
EXTENDS PiMod, TLC

CONSTANTS run1, run2, take, back, halt

MCTypeOf ==
  (run1 :> "run") @@ (run2 :> "run") @@ (take :> "take_control")
    @@ (back :> "bridge") @@ (halt :> "abort")

\* A pump and a capture: what is between the last event and the end is shown
\* as well.
MCTimeline == <<"send", "adc">>
==============================================================================
