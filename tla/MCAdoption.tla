------------------------------ MODULE MCAdoption ------------------------------
(***************************************************************************)
(* Small instances of Adoption for TLC: a module the configuration allows, *)
(* one it does not, and one that speaks another version of the protocol.   *)
(***************************************************************************)
EXTENDS Adoption

CONSTANTS known, stranger, old
==============================================================================
