--------------------------- MODULE MCHandleTable ---------------------------
(***************************************************************************)
(* Instances of HandleTable for TLC.                                       *)
(***************************************************************************)
EXTENDS HandleTable, TLC

\* Threads are alike.
Symmetry == Permutations(Threads)
=============================================================================
