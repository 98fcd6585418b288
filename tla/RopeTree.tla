------------------------------ MODULE RopeTree ------------------------------
(***************************************************************************)
(* The tree of include/atma/rope.hpp and the algorithms on it.             *)
(*                                                                         *)
(* Nodes are reference-counted and shared by every tree that was made from *)
(* them.  A tree_t is a view of a node: the totals of its text, how many   *)
(* of the node's children it knows of, and the node.  Two things may be    *)
(* done to a node that others share, both at its end: text is appended to  *)
(* a leaf's buffer, and a child to a branch.  So nodes live in a heap, a   *)
(* sequence indexed by node, and an algorithm takes the heap and returns   *)
(* the heap it leaves together with its result.  Node 0 is the null        *)
(* pointer and NoTree an absent (or default-constructed) tree.             *)
(*                                                                         *)
(* The tree is that of a build without ATMA_ENABLE_ASSERTS: the comparison *)
(* of a node's totals with those of its view, made when two nodes are      *)
(* merged in a build that has them, is left out.                           *)
(***************************************************************************)
EXTENDS RopeText

CONSTANTS
    BF,         \* branching_factor of the traits
    BufSize     \* buf_size of the traits

LOCAL INSTANCE SequencesExt

MinBranches == BF \div 2
CeilHalf(n) == (n + 1) \div 2
BufEditMax == BufSize - 2

MaxLevelSize == BF + CeilHalf(BF)

-----------------------------------------------------------------------------
(* Nodes and trees                                                         *)

LeafNode(s) == [height |-> 1, kids |-> <<>>, buf |-> s]
BranchNode(ht, kids) == [height |-> ht, kids |-> kids, buf |-> <<>>]

NoTree == [info |-> ZeroInfo, count |-> 0, node |-> 0]
Has(t) == t.node # 0

InfoOfAll(kids) == FoldLeft(LAMBDA acc, k : Plus(acc, k.info), ZeroInfo, kids)

Height(h, t) == h[t.node].height
IsLeaf(h, t) == Height(h, t) = 1
Backing(h, t) == h[t.node].kids
Children(h, t) == Take(Backing(h, t), t.count)
Buf(h, t) == h[t.node].buf

(* tree_leaf_t::data: the bytes of the buffer this view addresses.         *)
Data(h, t) == SubSeq(Buf(h, t), t.info.dbytes + 1, t.info.dbytes + t.info.bytes)

(* A tree_t made from a node alone takes its totals from what the node     *)
(* holds and knows of all its children.                                    *)
Leaf(s, info, n) == [info |-> info, count |-> 0, node |-> n]
Branch(kids, info, n) == [info |-> info, count |-> Len(kids), node |-> n]

MakeLeafAs(h, s, info) ==
    [h |-> Append(h, LeafNode(s)), t |-> Leaf(s, info, Len(h) + 1)]
MakeLeaf(h, s) == MakeLeafAs(h, s, FromStr(s))

MakeBranchAs(h, ht, kids, info) ==
    [h |-> Append(h, BranchNode(ht, kids)), t |-> Branch(kids, info, Len(h) + 1)]
MakeBranch(h, ht, kids) == MakeBranchAs(h, ht, kids, InfoOfAll(kids))

(* Two leaves of the halves of a text; two branches, the left one first;   *)
(* a pair of one result alone, or with another tree on one of its sides.   *)
TwoLeaves(h, halves) ==
    [h |-> h \o <<LeafNode(halves[1]), LeafNode(halves[2])>>,
     l |-> Leaf(halves[1], FromStr(halves[1]), Len(h) + 1),
     r |-> Leaf(halves[2], FromStr(halves[2]), Len(h) + 2)]

TwoBranches(h, ht, left, right) ==
    [h |-> h \o <<BranchNode(ht, left), BranchNode(ht, right)>>,
     l |-> Branch(left, InfoOfAll(left), Len(h) + 1),
     r |-> Branch(right, InfoOfAll(right), Len(h) + 2)]

JustOne(m) == [h |-> m.h, l |-> m.t, r |-> NoTree]
Before(m, t) == [h |-> m.h, l |-> m.t, r |-> t]
After(t, m) == [h |-> m.h, l |-> t, r |-> m.t]

(* is_saturated the function is about a full branch; the member of tree_t  *)
(* of the same name about a half-full one.                                 *)
IsSaturated(h, t) == IsLeaf(h, t) \/ t.count >= BF
HalfSaturated(t) == t.count >= MinBranches
HasSpace(h, t) == Len(Backing(h, t)) < BF

-----------------------------------------------------------------------------
(* Finding a character                                                     *)

(* Both searches compare with a child's characters and then step over its  *)
(* characters less its dropped ones; both look at every child of the node. *)
SteppedOver(kids, n) ==
    FoldLeft(LAMBDA acc, k : acc + k.info.chars - k.info.dchars, 0, Take(kids, n))

FirstChild(kids, hits) ==
    IF hits = {} THEN Len(kids) ELSE CHOOSE i \in hits : \A j \in hits : i <= j

Inside(kids, ci, idx) == <<idx, ci - SteppedOver(kids, idx)>>

FindForCharIdx(kids, ci) ==
    LET hits == {i \in 0 .. Len(kids) - 1 :
                   ci < SteppedOver(kids, i) + kids[i + 1].info.chars}
    IN  Inside(kids, ci, FirstChild(kids, hits))

FindForCharIdxWithin(kids, ci) ==
    LET hits == {i \in 0 .. Len(kids) - 1 :
                   ci <= SteppedOver(kids, i) + kids[i + 1].info.chars}
    IN  Inside(kids, ci, FirstChild(kids, hits))

-----------------------------------------------------------------------------
(* Replacing, appending and inserting a child; idx counts from zero        *)

Between(kids, idx, new, next) == Take(kids, idx) \o new \o Skip(kids, next)
HalvesAt(h, ht, kids, n) == TwoBranches(h, ht, Take(kids, n), Skip(kids, n))

ReplaceInPlace(h, t, idx, x) ==   \* mutant: the shared node is written
    [h |-> [h EXCEPT ![t.node].kids[idx + 1] = x],
     t |-> [t EXCEPT !.info = InfoOfAll(Between(Children(h, t), idx, <<x>>, idx + 1))]]

Replace(h, t, idx, x) ==
    MakeBranch(h, Height(h, t), Between(Children(h, t), idx, <<x>>, idx + 1))

(* tree_branch_t::append: in place, for everyone who has the node.         *)
AppendInPlace(h, t, x) ==
    [h |-> [h EXCEPT ![t.node].kids = Append(@, x)],
     t |-> [info |-> Plus(t.info, x.info), count |-> t.count + 1, node |-> t.node]]

AppendChild(h, t, x) ==
    IF Len(Backing(h, t)) = t.count /\ HasSpace(h, t)
    THEN AppendInPlace(h, t, x)
    ELSE MakeBranchAs(h, Height(h, t), Append(Children(h, t), x), Plus(t.info, x.info))

(* A full node is split behind the half, the new child counted.            *)
InsertChild(h, t, idx, x) ==
    IF HasSpace(h, t) /\ idx = Len(Backing(h, t)) /\ idx = t.count
    THEN JustOne(AppendInPlace(h, t, x))
    ELSE IF HasSpace(h, t)
    THEN JustOne(MakeBranch(h, Height(h, t), Between(Children(h, t), idx, <<x>>, idx)))
    ELSE HalvesAt(h, Height(h, t), Between(Children(h, t), idx, <<x>>, idx), CeilHalf(BF) + 1)

(* Put x for the child at idx, and ins after it if there is one, splitting *)
(* a full node.  The children kept are all of the node's; but when both go *)
(* to the left, the right takes half a node's worth of the rest.           *)
ReplaceAndInsert(h, t, idx, x, ins) ==
    LET leftSize == BF \div 2 + 1
        all == Between(Backing(h, t), idx, <<x, ins>>, idx + 1)
    IN  IF ~Has(ins)
        THEN JustOne(Replace(h, t, idx, x))
        ELSE IF HasSpace(h, t)
        THEN JustOne(MakeBranch(h, Height(h, t), all))
        ELSE HalvesAt(h, Height(h, t),
                      IF idx + 1 < leftSize THEN Take(all, leftSize + BF \div 2) ELSE all, leftSize)

-----------------------------------------------------------------------------
(* Joining two trees                                                       *)

(* tree_merge_nodes_: two trees of one height under one root.  Branches    *)
(* with too few children are merged, or their children shared out, the     *)
(* left taking the odd one.                                                *)
MergeLow(h, left, right) ==   \* mutant: the root is as high as its children
    MakeBranchAs(h, Height(h, left), <<left, right>>, Plus(left.info, right.info))

Over(m, ht, info) == MakeBranchAs(m.h, ht, <<m.l, m.r>>, info)

SharedOut(h, ht, kids, info) ==
    IF Len(kids) <= BF THEN MakeBranchAs(h, ht, kids, info)
    ELSE Over(HalvesAt(h, ht, kids, CeilHalf(Len(kids))), ht + 1, info)

MergeNodes(h, left, right) ==
    IF \/ IsLeaf(h, left)
       \/ left.count >= MinBranches /\ right.count >= MinBranches
    THEN Over([h |-> h, l |-> left, r |-> right], Height(h, left) + 1,
              Plus(left.info, right.info))
    ELSE SharedOut(h, Height(h, left), Children(h, left) \o Children(h, right),
                   Plus(left.info, right.info))

Merged(m) == IF Has(m.r) THEN MergeNodes(m.h, m.l, m.r) ELSE [h |-> m.h, t |-> m.l]

(* A lower tree is joined with the nearest child of the higher one.  What  *)
(* that makes takes the child's place, or is merged with the other         *)
(* children; grown by two levels it would be lost.                         *)
MergeBefore(t, rest) == MergeNodes(rest.h, t, rest.t)
IntoRight(sub, right) ==
    LET hr == Height(sub.h, right)
        hs == Height(sub.h, sub.t)
    IN  IF hs = hr - 1 THEN Replace(sub.h, right, 0, sub.t)
        ELSE IF hs = hr
        THEN MergeBefore(sub.t, MakeBranch(sub.h, hr, Skip(Children(sub.h, right), 1)))
        ELSE [h |-> sub.h, t |-> right]

MergeAfter(rest, t) == MergeNodes(rest.h, rest.t, t)
IntoLeft(left, sub) ==
    LET hl == Height(sub.h, left)
        hs == Height(sub.h, sub.t)
    IN  IF hs = hl - 1 THEN Replace(sub.h, left, left.count - 1, sub.t)
        ELSE IF hs = hl
        THEN MergeAfter(MakeBranch(sub.h, hl, Take(Children(sub.h, left), left.count - 1)),
                        sub.t)
        ELSE [h |-> sub.h, t |-> left]

RECURSIVE Concat(_, _, _)
Concat(h, left, right) ==
    LET hl == Height(h, left)
        hr == Height(h, right)
    IN  IF hl < hr /\ IsSaturated(h, left) /\ hl + 1 = hr
        THEN Merged(InsertChild(h, right, 0, left))
        ELSE IF hl < hr
        THEN IntoRight(Concat(h, left, Children(h, right)[1]), right)
        ELSE IF hr < hl /\ IsSaturated(h, right) /\ hr + 1 = hl
        THEN IF HasSpace(h, left) THEN AppendChild(h, left, right)
             ELSE Merged(InsertChild(h, left, left.count, right))
        ELSE IF hr < hl
        THEN IntoLeft(left, Concat(h, Last(Children(h, left)), right))
        ELSE MergeNodes(h, left, right)

=============================================================================
