---------------------------- MODULE MCWorkToken ----------------------------
(***************************************************************************)
(* Instances of WorkToken for TLC.                                         *)
(***************************************************************************)
EXTENDS WorkToken, TLC

\* Workers are alike, and so are the clients other than the owner.
Symmetry == Permutations(Workers) \cup Permutations(Clients \ {Owner})
=============================================================================
