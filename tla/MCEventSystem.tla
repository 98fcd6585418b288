--------------------------- MODULE MCEventSystem ---------------------------
(***************************************************************************)
(* Instances of EventSystem for TLC.                                       *)
(***************************************************************************)
EXTENDS EventSystem, TLC
CONSTANTS e1, e2, f1, f2

(* Each handler raises the event that the other one may be bound to.       *)
Chain == f1 :> e2 @@ f2 :> e1
=============================================================================
