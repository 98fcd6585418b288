---------------------------- MODULE MCRingQueue ----------------------------
(***************************************************************************)
(* Instances of RingQueue for TLC.                                         *)
(***************************************************************************)
EXTENDS RingQueue, TLC

\* Two payload words that look like no header.
WordA == [state |-> "empty", type |-> "normal", size |-> 1]
WordB == [state |-> "empty", type |-> "normal", size |-> 2]
OneWord == {WordA}
PlainWords == {WordA, WordB}

\* A payload word that looks like a header "ready to clear": any 32-bit value
\* whose top four bits are 0010, such as four characters ending in a space.
LookalikeWords == {[state |-> "empty", type |-> "jump", size |-> 0]}

Symmetry == Permutations(Producers) \cup Permutations(Consumers)
=============================================================================
