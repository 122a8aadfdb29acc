----------------------------- MODULE MCScheduler -----------------------------
(***************************************************************************)
(* A small instance of Scheduler for TLC: a role, and the swap of its      *)
(* module.                                                                 *)
(***************************************************************************)
EXTENDS Scheduler

CONSTANTS m1, m2
=============================================================================
