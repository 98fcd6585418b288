------------------------------- MODULE MCRope -------------------------------
(***************************************************************************)
(* The instance of Rope whose counterexamples the rope's findings are.     *)
(***************************************************************************)
EXTENDS Rope, RopeSamples
=============================================================================
