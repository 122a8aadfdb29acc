---------------------------- MODULE MCEventStream ----------------------------
(***************************************************************************)
(* A small instance of EventStream for TLC: one appending thread (appends  *)
(* exclude each other), one client.                                        *)
(***************************************************************************)
EXTENDS EventStream
==============================================================================
