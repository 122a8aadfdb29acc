---------------------------- MODULE MCCommandPath ----------------------------
(***************************************************************************)
(* A small instance of CommandPath for TLC.                                *)
(***************************************************************************)
EXTENDS CommandPath, TLC

\* Commands are interchangeable where no liveness is checked.
CmdSymmetry == Permutations(Cmd)
==============================================================================
