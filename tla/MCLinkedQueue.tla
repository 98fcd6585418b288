--------------------------- MODULE MCLinkedQueue ---------------------------
(***************************************************************************)
(* Instances of LinkedQueue for TLC.                                       *)
(***************************************************************************)
EXTENDS LinkedQueue, TLC

Symmetry == Permutations(Producers) \cup Permutations(Consumers)
              \cup Permutations(Nodes)
=============================================================================
