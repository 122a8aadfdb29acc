------------------------------ MODULE MCVision ------------------------------
(***************************************************************************)
(* A small instance of Vision for TLC: one command of each type.           *)
(***************************************************************************)
EXTENDS Vision, TLC

CONSTANTS shot, base, area, move

MCTypeOf ==
  (shot :> "capture") @@ (base :> "re_baseline") @@ (area :> "set_region") @@ (move :> "ptz")
=============================================================================
