--------------------------- MODULE MCEvidenceStore ---------------------------
(***************************************************************************)
(* A small instance of EvidenceStore for TLC, with bundles being exported  *)
(* from it.                                                                *)
(***************************************************************************)
EXTENDS Export, TLC

\* Threads are interchangeable: they run the same code and no property names
\* one of them.
ThreadSymmetry == Permutations(Thread)

\* The second envelope is from a module whose clock is ahead.
MCTimeOf == <<1, 3, 2, 4>>
==============================================================================
