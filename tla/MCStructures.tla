---------------------------- MODULE MCStructures ----------------------------
(***************************************************************************)
(* The structures side by side, with the two whose operations are recursive*)
(* beside them: the tree and the rope.  Again a behaviour is of one.       *)
(***************************************************************************)
EXTENDS Structures, TLC, RopeSamples

CONSTANTS
    Values, Default,                                        \* RedBlackTree
    InfoMod, BF, BufSize, EraseLengths, Stride, MaxEdits    \* Rope

VARIABLES root, holds, ropeHeap, ropeRoot, ropeText, ropeKept, ropeFlaws, ropeEdits

(* Nothing, one ASCII character, and one of two bytes.                     *)
SampleTexts == {<<>>, <<"A">>, <<"two", "run">>}

(* Bytes that are also instructions, and a text too long for its size.     *)
SampleLogTexts == {<<>>, <<1>>, <<2, 1, 0>>, <<1, 1, 0, 2, 2>>, [i \in 1 .. 17 |-> 1]}

(* Directories and callbacks are only compared.                            *)
Symmetry == Permutations(Paths) \cup Permutations(Callbacks)

Tree == INSTANCE RedBlackTree

(* The rope of the build whose char is signed, and the one whose char is   *)
(* not, which holds longer characters.                                     *)
Ropes == INSTANCE Rope WITH
    Cr <- CR, Lf <- LF, RunOn <- RUN, Nul <- NUL, CharIsSigned <- TRUE,
    Texts <- TestTexts, Inserts <- TestInserts, Lengths <- EraseLengths,
    h <- ropeHeap, root <- ropeRoot, text <- ropeText, kept <- ropeKept,
    flaws <- ropeFlaws, edits <- ropeEdits

WideRopes == INSTANCE Rope WITH
    Cr <- CR, Lf <- LF, RunOn <- RUN, Nul <- NUL, CharIsSigned <- FALSE,
    Texts <- WideTexts, Inserts <- WideInserts, Lengths <- EraseLengths,
    h <- ropeHeap, root <- ropeRoot, text <- ropeText, kept <- ropeKept,
    flaws <- ropeFlaws, edits <- ropeEdits

tree == <<root, holds>>
rope == <<ropeHeap, ropeRoot, ropeText, ropeKept, ropeFlaws, ropeEdits>>

NoTree == root = Unused /\ holds = Unused
NoRope ==
    /\ ropeHeap = Unused /\ ropeRoot = Unused /\ ropeText = Unused
    /\ ropeKept = Unused /\ ropeFlaws = Unused /\ ropeEdits = Unused

MCInit ==
    \/ Init /\ NoTree /\ NoRope
    \/ kind = "tree" /\ Tree!Init /\ NoRope /\ OthersUnused
    \/ kind = "rope" /\ Ropes!Init /\ NoTree /\ OthersUnused
    \/ kind = "wide rope" /\ WideRopes!Init /\ NoTree /\ OthersUnused

MCNext ==
    \/ Next /\ UNCHANGED <<tree, rope>>
    \/ kind = "tree" /\ Tree!Next /\ UNCHANGED <<vars, rope>>
    \/ kind = "rope" /\ Ropes!Next /\ UNCHANGED <<vars, tree>>
    \/ kind = "wide rope" /\ WideRopes!Next /\ UNCHANGED <<vars, tree>>

(* The tree is in order and red-black until something is deleted.          *)
TreeAgrees == kind = "tree" => Tree!Agrees

(* The totals and heights of a rope's nodes are those of what they hold.   *)
TreeIsSound ==
    /\ kind = "rope" => Ropes!TreeIsSound
    /\ kind = "wide rope" => WideRopes!TreeIsSound

(* A rope has the text its edits should have made of it, and is read as    *)
(* that text up to its first character of more than one byte.              *)
ReadsAsEdited ==
    /\ kind = "rope" => Ropes!ReadsAsEdited
    /\ kind = "wide rope" => WideRopes!ReadsAsEdited

(* A copy of a rope keeps its text whatever happens to the rope.           *)
CopyKeepsText ==
    /\ kind = "rope" => Ropes!CopyKeepsText
    /\ kind = "wide rope" => WideRopes!CopyKeepsText

=============================================================================
