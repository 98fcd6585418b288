---------------------------- MODULE RedBlackTree ----------------------------
(***************************************************************************)
(* The immutable red-black tree (project/AtmaCS/ImmutableRedBlackTree.cs). *)
(*                                                                         *)
(* Insertion and deletion rebuild the path from the root; colours are      *)
(* numbers so that a node can be made blacker or redder.  Empty is C#'s    *)
(* null; DoubleEmpty is the one node that stands for a missing black leaf. *)
(*                                                                         *)
(* Bubble asks a null subtree for its colour, which throws: a deletion     *)
(* that throws leaves the tree as it was, and is Thrown here.  The deletion*)
(* of the last value leaves DoubleEmpty, painted black, as the root: a     *)
(* node like any other, that holds the default value.  And Balance paints  *)
(* what it rotates red under a double black node too, where that node's    *)
(* second black is lost: a deletion leaves paths of different black height.*)
(***************************************************************************)
EXTENDS Integers, Sequences

CONSTANTS
    Values,     \* the values inserted and deleted
    Default     \* the default value of the type

VARIABLES
    root,       \* the tree
    holds       \* the values it should hold, and whether any was ever deleted

vars == <<root, holds>>

NegativeBlack == -1
Red == 0
Black == 1
DoubleBlack == 2

Empty == [color |-> Black, kind |-> "empty"]
DoubleEmpty == [color |-> DoubleBlack, kind |-> "double"]
Thrown == [color |-> Black, kind |-> "thrown"]

MakeNode(color, left, value, right) ==
    [color |-> color, kind |-> "node", left |-> left, value |-> value, right |-> right]

Is(n, color) == n.kind = "node" /\ n.color = color
IsDoubleBlack(n) == n = DoubleEmpty \/ Is(n, DoubleBlack)

MakeRedder(n) ==
    IF n = DoubleEmpty THEN Empty ELSE [n EXCEPT !.color = @ - 1]
Redden(n) == [n EXCEPT !.color = Red]
Blacken(n) == [n EXCEPT !.color = Black]

RECURSIVE MaxOf(_), Balance(_, _, _, _), Inserted(_, _), Delete(_, _), DeleteMax(_)

MaxOf(n) == IF n.right = Empty THEN n.value ELSE MaxOf(n.right)

RotatedLeaningRed(a, x, b, y, c, z, d) ==    \* mutant: the lower node stays red
    MakeNode(Red, MakeNode(Red, a, x, b), y, MakeNode(Black, c, z, d))

(* A red node over a red node under a black one: the three of them and the *)
(* four subtrees between them, in order.                                   *)
Rotated(a, x, b, y, c, z, d) ==
    MakeNode(Red, MakeNode(Black, a, x, b), y, MakeNode(Black, c, z, d))

Balance(color, l, v, r) ==
    LET two == color \in {Black, DoubleBlack}
        reddish(n) == two /\ Is(n, Red)
        negative(n) ==
            /\ color = DoubleBlack /\ Is(n, NegativeBlack)
            /\ Is(n.left, Black) /\ Is(n.right, Black)
    IN  IF reddish(l) /\ Is(l.left, Red) THEN
            Rotated(l.left.left, l.left.value, l.left.right, l.value, l.right, v, r)
        ELSE IF reddish(l) /\ Is(l.right, Red) THEN
            Rotated(l.left, l.value, l.right.left, l.right.value, l.right.right, v, r)
        ELSE IF reddish(r) /\ Is(r.left, Red) THEN
            Rotated(l, v, r.left.left, r.left.value, r.left.right, r.value, r.right)
        ELSE IF reddish(r) /\ Is(r.right, Red) THEN
            Rotated(l, v, r.left, r.value, r.right.left, r.right.value, r.right.right)
        ELSE IF negative(r) THEN
            MakeNode(Black, MakeNode(Black, l, v, r.left.left), r.left.value,
                     Balance(Black, r.left.right, r.value, Redden(r.right)))
        ELSE IF negative(l) THEN
            MakeNode(Black, Balance(Black, Redden(l.left), l.value, l.right.left),
                     l.right.value, MakeNode(Black, l.right.right, v, r))
        ELSE MakeNode(color, l, v, r)

-----------------------------------------------------------------------------
Inserted(n, x) ==
    IF n = Empty THEN MakeNode(Red, Empty, x, Empty)
    ELSE IF x < n.value THEN Balance(n.color, Inserted(n.left, x), n.value, n.right)
    ELSE IF x > n.value THEN Balance(n.color, n.left, n.value, Inserted(n.right, x))
    ELSE n

(* A null subtree is asked for its colour, by IsDoubleBlack or, beside a   *)
(* double black one, by MakeRedder.                                        *)
Throws(left, right) == left \in {Thrown, Empty} \/ right \in {Thrown, Empty}

Bubble(color, left, x, right) ==
    IF Throws(left, right) THEN Thrown
    ELSE IF IsDoubleBlack(left) \/ IsDoubleBlack(right)
    THEN Balance(color + 1, MakeRedder(left), x, MakeRedder(right))
    ELSE Balance(color, left, x, right)

Delete2(n) ==
    IF n.left = Empty /\ n.right = Empty /\ n.color = Red THEN Empty
    ELSE IF n.left = Empty /\ n.right = Empty /\ n.color = Black THEN DoubleEmpty
    ELSE IF n.color = Black /\ n.left = Empty /\ Is(n.right, Red) THEN Blacken(n.right)
    ELSE IF n.color = Black /\ n.right = Empty /\ Is(n.left, Red) THEN Blacken(n.left)
    ELSE IF n.left = Empty THEN Thrown
    ELSE Bubble(n.color, DeleteMax(n.left), MaxOf(n.left), n.right)

DeleteMax(n) ==
    IF n.right = Empty THEN Delete2(n)
    ELSE Bubble(n.color, n.left, n.value, DeleteMax(n.right))

Delete(n, x) ==
    IF n = Empty THEN Empty
    ELSE IF x < n.value THEN Bubble(n.color, Delete(n.left, x), n.value, n.right)
    ELSE IF x > n.value THEN Bubble(n.color, n.left, n.value, Delete(n.right, x))
    ELSE Delete2(n)

-----------------------------------------------------------------------------
Init == root = Empty /\ holds = [values |-> {}, deleted |-> FALSE]

Insert(x) ==
    LET r == Inserted(root, x)
    IN  /\ root' = IF r = root THEN root ELSE Blacken(r)
        /\ holds' = [holds EXCEPT !.values = @ \cup {x}]

(* The root of an empty tree has no colour to set.                         *)
DeleteValue(x) ==
    LET r == Delete(root, x)
    IN  CASE r \in {Thrown, Empty} -> UNCHANGED vars
          [] r = DoubleEmpty ->
               /\ root' = MakeNode(Black, Empty, Default, Empty)
               /\ holds' = [values |-> {Default}, deleted |-> TRUE]
          [] OTHER ->
               /\ root' = Blacken(r)
               /\ holds' = [values |-> holds.values \ {x}, deleted |-> TRUE]

Next == \E x \in Values : Insert(x) \/ DeleteValue(x)

-----------------------------------------------------------------------------
RECURSIVE InOrder(_), BlackHeights(_), NoRedPair(_)

InOrder(n) == IF n = Empty THEN <<>> ELSE InOrder(n.left) \o <<n.value>> \o InOrder(n.right)

(* The numbers of black nodes on the paths down from a node.               *)
BlackHeights(n) ==
    IF n = Empty THEN {0}
    ELSE {h + n.color : h \in BlackHeights(n.left) \cup BlackHeights(n.right)}

NoRedPair(n) ==
    n = Empty \/ /\ n.color \in {Red, Black}
                 /\ n.color = Red => ~Is(n.left, Red) /\ ~Is(n.right, Red)
                 /\ NoRedPair(n.left) /\ NoRedPair(n.right)

RedBlack(n) ==
    /\ n # Empty => n.color = Black
    /\ NoRedPair(n)
    /\ \A h, k \in BlackHeights(n) : h = k

(* After any operations the tree is in order and holds the values inserted *)
(* and not deleted, the default value among them when it was emptied in    *)
(* between; and it is a red-black tree while nothing was deleted.          *)
Agrees ==
    /\ \A i \in 1 .. Len(InOrder(root)) - 1 : InOrder(root)[i] < InOrder(root)[i + 1]
    /\ {InOrder(root)[i] : i \in 1 .. Len(InOrder(root))} = holds.values
    /\ ~holds.deleted => RedBlack(root)

=============================================================================
