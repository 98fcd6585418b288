----------------------------- MODULE RopeEdits -----------------------------
(***************************************************************************)
(* The edits of include/atma/rope.hpp: inserting a small text, erasing,    *)
(* splitting, and building a tree from a long text.                        *)
(*                                                                         *)
(* Some paths of the code drop a result, keep a node twice or fail an      *)
(* assertion.  An edit names the ones it went through in `flaws`, so that  *)
(* a property can tell the text such an edit leaves from the text every    *)
(* other edit leaves.                                                      *)
(***************************************************************************)
EXTENDS RopeTree

LOCAL INSTANCE SequencesExt

Present(trees) == SelectSeq(trees, Has)

-----------------------------------------------------------------------------
(* A line feed that moves from the front of a leaf to the back of the leaf *)
(* before it, where it forms one line break with the carriage return there *)

(* drop_lf_ and append_lf_ at the front and back leaf of a tree; the path  *)
(* above the leaf is replaced.  NoTree when there was nothing to do.       *)
Lfs(n) == [ZeroInfo EXCEPT !.bytes = n, !.chars = n]

Rehung(sub, t, idx) == IF Has(sub.t) THEN Replace(sub.h, t, idx, sub.t) ELSE sub

RECURSIVE DropLf(_, _)
DropLf(h, t) ==
    IF IsLeaf(h, t)
    THEN [h |-> h,
          t |-> IF Data(h, t) # <<>> /\ Data(h, t)[1] = Lf
                THEN [t EXCEPT !.info =
                        Minus(Plus(@, [ZeroInfo EXCEPT !.dbytes = 1, !.dchars = 1]),
                              [Lfs(1) EXCEPT !.breaks = 1])]
                ELSE NoTree]
    ELSE Rehung(DropLf(h, Backing(h, t)[1]), t, 0)

RECURSIVE AppendLf(_, _)
AppendLf(h, t) ==
    IF IsLeaf(h, t)
    THEN IF Data(h, t) # <<>> /\ Last(Data(h, t)) = Cr
         THEN [h |-> [h EXCEPT ![t.node].buf = Append(@, Lf)],
               t |-> [t EXCEPT !.info = Plus(@, Lfs(1))]]
         ELSE [h |-> h, t |-> NoTree]
    ELSE Rehung(AppendLf(h, Backing(h, t)[t.count]), t, t.count - 1)

(* The sibling gives or takes the line feed first; when it has none, the   *)
(* seam node stays as it is.                                               *)
NoMend(h) == [h |-> h, l |-> NoTree, r |-> NoTree]

MendLeftOf(h, sib, seamNode) ==
    IF Has(sib.t) THEN After(sib.t, DropLf(sib.h, seamNode)) ELSE NoMend(h)
MendLeftSeam(h, sibling, seamNode) == MendLeftOf(h, AppendLf(h, sibling), seamNode)

MendRightOf(h, sib, seamNode) ==
    IF Has(sib.t) THEN Before(AppendLf(sib.h, seamNode), sib.t) ELSE NoMend(h)
MendRightSeam(h, seamNode, sibling) == MendRightOf(h, DropLf(h, sibling), seamNode)

-----------------------------------------------------------------------------
(* edit_chunk_at_char: down to the leaf, edit it, stitch the path up again *)

Edited(m, seam, flaws) ==
    [h |-> m.h, l |-> m.l, r |-> m.r, seam |-> seam, flaws |-> flaws]

Lost(h, flaws) ==
    [h |-> h, l |-> NoTree, r |-> NoTree, seam |-> {}, flaws |-> flaws \cup {"lost"}]

(* insert_small_text_.  The last byte of the text is read after its first  *)
(* may have been skipped: a lone LF reads itself.                          *)
InsertSmallText(h, t, ci, text) ==
    LET data == Data(h, t)
        left == ci = 0 /\ text[1] = Lf
        ins == IF left THEN Tail(text) ELSE text
        right == ci = t.info.chars /\ Last(text) = Cr
        seam == (IF left THEN {"left"} ELSE {}) \cup (IF right THEN {"right"} ELSE {})
        at == CharIdxToByteIdx(data, ci)
        fits == t.info.bytes + Len(ins) <= BufEditMax
        appendable == t.info.dbytes + t.info.bytes = Len(Buf(h, t))
        info == Plus(t.info, FromStr(ins))
    IN  IF text = <<>>
        THEN Edited(JustOne([h |-> h, t |-> t]), {}, {})
        ELSE IF fits /\ ci = t.info.chars /\ appendable
        THEN Edited(JustOne([h |-> [h EXCEPT ![t.node].buf = @ \o ins],
                             t |-> [t EXCEPT !.info = info]]), seam, {})
        ELSE IF fits
        THEN Edited(JustOne(MakeLeafAs(h, Spliced(data, ins, at), info)), seam, {})
        ELSE Edited(TwoLeaves(h, InsertAndRedistribute(data, ins, at)), seam, {})

(* A node replaced together with an insertion keeps all its children, those *)
(* that another rope appended to it as well.                               *)
Adopts(hp, t, ins) ==
    IF Has(ins) /\ Len(Backing(hp, t)) > t.count THEN {"adopted"} ELSE {}

(* stitch_upwards_.  A line feed at the front of the child moves to the    *)
(* child before it, if that ends in CR; a carriage return at its back gets *)
(* the line feed of the child after it.                                    *)
Replaced(t, idx, e, seam, flaws) ==
    Edited(JustOne(Replace(e.h, t, idx, e.l)), seam, e.flaws \cup flaws)

FedLeft(t, idx, e, mend) ==
    IF Has(mend.l) THEN Lost(mend.h, e.flaws) ELSE Replaced(t, idx, e, {}, {"unfed"})

FedRight(t, idx, e, mend) ==
    IF Has(mend.l)
    THEN Edited(ReplaceAndInsert(mend.h, t, idx, mend.l, mend.r), {}, e.flaws \cup {"twice"})
    ELSE Replaced(t, idx, e, {}, {})

StitchUpwards(t, idx, e) ==
    LET kids == Children(e.h, t)
    IN  IF e.seam = {}
        THEN Edited(ReplaceAndInsert(e.h, t, idx, e.l, e.r), {},
                    e.flaws \cup Adopts(e.h, t, e.r))
        ELSE IF Has(e.r) \/ e.seam = {"left", "right"}
        THEN Lost(e.h, e.flaws)
        ELSE IF \/ e.seam = {"left"} /\ idx = 0
                \/ e.seam = {"right"} /\ idx = Len(kids) - 1
        THEN Replaced(t, idx, e, e.seam, {})
        ELSE IF e.seam = {"left"}
        THEN FedLeft(t, idx, e, MendLeftSeam(e.h, kids[idx], e.l))
        ELSE FedRight(t, idx, e, MendRightSeam(e.h, e.l, kids[idx + 2]))

RECURSIVE Edit(_, _, _, _)
Edit(h, t, ci, text) ==
    IF IsLeaf(h, t) THEN InsertSmallText(h, t, ci, text)
    ELSE LET at == FindForCharIdxWithin(Backing(h, t), ci)
         IN  StitchUpwards(t, at[1], Edit(h, Backing(h, t)[at[1] + 1], at[2], text))

-----------------------------------------------------------------------------
(* Splitting                                                               *)

SplitInto(m, ht, flaws) ==
    [h |-> m.h, height |-> ht, l |-> m.l, r |-> m.r, flaws |-> flaws]

SplitLeaf(h, t, ci) ==
    LET data == Data(h, t)
        at == CharIdxToByteIdx(data, ci)
    IN  IF at = 0 THEN SplitInto([h |-> h, l |-> NoTree, r |-> t], 1, {})
        ELSE IF at = t.info.bytes THEN SplitInto([h |-> h, l |-> t, r |-> NoTree], 1, {})
        ELSE SplitInto(TwoLeaves(h, CutAt(data, at)), 1, {})

(* The children before idx as a tree of their own; all of them when idx is *)
(* the last.                                                               *)
SplitAcrossLhs(h, t, idx) ==
    LET kids == Children(h, t)
    IN  IF idx = 0 THEN MakeLeaf(h, <<>>)
        ELSE IF idx = t.count - 1 THEN [h |-> h, t |-> t]
        ELSE IF idx = 1 THEN [h |-> h, t |-> kids[1]]
        ELSE MakeBranch(h, Height(h, t), Take(kids, idx))

SplitAcrossRhsTwice(h, t, idx) ==   \* mutant: the split child is kept
    IF idx = t.count - 1 THEN MakeLeaf(h, <<>>)
    ELSE MakeBranch(h, Height(h, t), Skip(Children(h, t), idx))

SplitAcrossRhs(h, t, idx) ==
    LET kids == Children(h, t)
    IN  IF idx = t.count - 1 THEN MakeLeaf(h, <<>>)
        ELSE IF idx = t.count - 2 THEN [h |-> h, t |-> Last(kids)]
        ELSE MakeBranch(h, Height(h, t), Skip(kids, idx + 1))

ConcatIf(h, left, right) ==
    IF ~Has(left) THEN [h |-> h, t |-> right]
    ELSE IF ~Has(right) THEN [h |-> h, t |-> left]
    ELSE Concat(h, left, right)

(* split_up_fn_: what the split child leaves is put together with the      *)
(* children on its side, per side.  A half-full part of the right height   *)
(* takes the child's place; no part leaves the other children.             *)
Fits(s, x) == HalfSaturated(x) /\ Height(s.h, x) = s.height

PutBefore(t, m) == Concat(m.h, t, m.t)
PutAfter(m, t) == Concat(m.h, m.t, t)
FrontSplit(t, s) ==
    IF ~Has(s.r) THEN MakeBranch(s.h, s.height + 1, Skip(Children(s.h, t), 1))
    ELSE IF Fits(s, s.r) THEN Replace(s.h, t, 0, s.r)
    ELSE PutBefore(s.r, SplitAcrossRhs(s.h, t, 0))

BackSplit(t, idx, s) ==
    IF ~Has(s.l) THEN MakeBranch(s.h, s.height + 1, Take(Children(s.h, t), idx))
    ELSE IF Fits(s, s.l) THEN Replace(s.h, t, idx, s.l)
    ELSE PutAfter(SplitAcrossLhs(s.h, t, idx), s.l)

JoinRight(s, ours) == After(ours.l, ConcatIf(ours.h, s.r, ours.r))
JoinBoth(s, lhs, rhs) == JoinRight(s, Before(ConcatIf(rhs.h, lhs, s.l), rhs.t))
MidSplit(t, idx, s, lhs) == JoinBoth(s, lhs.t, SplitAcrossRhs(lhs.h, t, idx))

SplitUp(t, idx, s) ==
    LET ht == s.height + 1
    IN  IF idx = 0 THEN SplitInto(After(s.l, FrontSplit(t, s)), ht, s.flaws)
        ELSE IF idx = t.count - 1
        THEN SplitInto(Before(BackSplit(t, idx, s), s.r), ht,
                s.flaws \cup (IF Has(s.l) /\ ~Fits(s, s.l) THEN {"doubled"} ELSE {}))
        ELSE SplitInto(MidSplit(t, idx, s, SplitAcrossLhs(s.h, t, idx)), ht, s.flaws)

RECURSIVE Split(_, _, _)
Split(h, t, ci) ==
    IF IsLeaf(h, t) THEN SplitLeaf(h, t, ci)
    ELSE LET at == FindForCharIdx(Backing(h, t), ci)
         IN  SplitUp(t, at[1], Split(h, Backing(h, t)[at[1] + 1], at[2]))

-----------------------------------------------------------------------------
(* Erasing the characters from b to e                                      *)

Erased(m, flaws) == [h |-> m.h, l |-> m.l, r |-> m.r, flaws |-> flaws]

EraseLeaf(h, t, b, e) ==
    LET data == Data(h, t)
        front == Take(data, CharIdxToByteIdx(data, b))
        back == Skip(data, CharIdxToByteIdx(data, e))
    IN  IF b = 0 /\ e = t.info.chars THEN [h |-> h, l |-> NoTree, r |-> NoTree]
        ELSE IF e = t.info.chars THEN JustOne(MakeLeaf(h, front))
        ELSE IF b = 0 THEN After(NoTree, MakeLeaf(h, back))
        ELSE JustOne(MakeLeaf(h, front \o back))

(* Within one child what is left of it is put back, or the child dropped.  *)
ErasedWithin(t, idx, m) ==
    LET kids == Children(m.h, t)
    IN  IF Has(m.l)
        THEN Erased(ReplaceAndInsert(m.h, t, idx, m.l, m.r),
                    m.flaws \cup Adopts(m.h, t, m.r))
        ELSE IF Has(m.r) THEN Erased(JustOne(Replace(m.h, t, idx, m.r)), m.flaws)
        ELSE Erased(JustOne(MakeBranch(m.h, Height(m.h, t), Between(kids, idx, <<>>, idx + 1))),
                    m.flaws)

(* Across children, what is left of the first and of the last.             *)
ErasedAcross(t, from, upto, start, end) ==
    Erased(JustOne(MakeBranch(upto.h, Height(upto.h, t),
                Between(Children(upto.h, t), start,
                        Present(<<from.l, from.r, upto.l, upto.r>>), end + 1))),
           from.flaws \cup upto.flaws)

RECURSIVE Erase(_, _, _, _)
ErasedUpTo(t, from, start, end) ==
    ErasedAcross(t, from, Erase(from.h, Children(from.h, t)[end[1] + 1], 0, end[2]),
                 start, end[1])

Erase(h, t, b, e) ==
    LET start == FindForCharIdx(Backing(h, t), b)
        end == FindForCharIdxWithin(Backing(h, t), e)
        first == Children(h, t)[start[1] + 1]
    IN  IF IsLeaf(h, t) THEN Erased(EraseLeaf(h, t, b, e), {})
        ELSE IF start[1] = end[1]
        THEN ErasedWithin(t, start[1], Erase(h, first, start[2], end[2]))
        ELSE ErasedUpTo(t, Erase(h, first, start[2], first.info.chars), start[1], end)

-----------------------------------------------------------------------------
(* Building: leaves are cut off the text and pushed on a stack of levels;  *)
(* a full level gives its first BF nodes to one node a level up.           *)

StackSet(stack, level, trees) ==
    IF level > Len(stack) THEN Append(stack, trees) ELSE [stack EXCEPT ![level] = trees]

Level(stack, level) == IF level > Len(stack) THEN <<>> ELSE stack[level]

Lifted(m, stack) == [h |-> m.h, t |-> m.t, stack |-> stack]
OnTop(m, level, t) ==
    [h |-> m.h, stack |-> StackSet(m.stack, level, Append(Level(m.stack, level), t))]

RECURSIVE StackPush(_, _, _, _)
PushUp(m, level) == StackPush(m.h, m.stack, level, m.t)
StackPush(h, stack, level, t) ==
    LET trees == Level(stack, level)
        rest == StackSet(stack, level, Skip(trees, BF))
        up == Lifted(MakeBranch(h, level + 1, Take(trees, BF)), rest)
    IN  OnTop(IF Len(trees) = MaxLevelSize THEN PushUp(up, level + 1)
              ELSE [h |-> h, stack |-> stack], level, t)

PushThen(m, level, t) == StackPush(m.h, m.stack, level, t)
PushBoth(m, stack, level) == PushThen(StackPush(m.h, stack, level, m.l), level, m.r)

RECURSIVE StackFinish(_, _, _)
FinishAbove(m, level) == StackFinish(m.h, m.stack, level + 1)
StackFinish(h, stack, level) ==
    LET trees == Level(stack, level)
    IN  IF level > Len(stack) THEN [h |-> h, t |-> NoTree]
        ELSE IF level = Len(stack) /\ Len(trees) = 1 THEN [h |-> h, t |-> trees[1]]
        ELSE FinishAbove(IF Len(trees) <= BF
                         THEN PushUp(Lifted(MakeBranch(h, level + 1, trees), stack), level + 1)
                         ELSE PushBoth(HalvesAt(h, level + 1, trees, CeilHalf(Len(trees))),
                                       stack, level + 1), level)

Smaller(a, b) == IF a < b THEN a ELSE b

NextLeafLength(text) == FindSplitPoint(text, Smaller(Len(text), BufSize), "hard_left")

RECURSIVE BuildFrom(_, _, _)
BuildOn(m, text) == BuildFrom(m.h, m.stack, text)
BuildFrom(h, stack, text) ==
    LET cut == NextLeafLength(text)
    IN  IF text = <<>> THEN StackFinish(h, stack, 1)
        ELSE BuildOn(PushUp(Lifted(MakeLeaf(h, Take(text, cut)), stack), 1), Skip(text, cut))

WithoutNul(text) == IF Last(text) = Nul THEN Take(text, Len(text) - 1) ELSE text
BuildRope(h, text) == BuildFrom(h, <<>>, WithoutNul(text))

(* build_rope_naive: every leaf is appended to the tree so far.            *)
AppendedTo(t, idx, m) == ReplaceAndInsert(m.h, t, idx, m.l, m.r)

RECURSIVE AppendNodeTo(_, _, _)
AppendNodeTo(h, t, leaf) ==
    LET kids == Backing(h, t)
    IN  IF IsLeaf(h, t) THEN JustOne(MakeBranch(h, Height(h, t) + 1, <<t, leaf>>))
        ELSE IF ~IsLeaf(h, Last(kids))
        THEN AppendedTo(t, Len(kids) - 1, AppendNodeTo(h, Last(kids), leaf))
        ELSE InsertChild(h, t, Len(kids), leaf)

(* Two results of a rope's root become the children of a new one.          *)
UnderOneRoot(m) ==
    IF Has(m.r) THEN MakeBranch(m.h, Height(m.h, m.l) + 1, <<m.l, m.r>>)
    ELSE [h |-> m.h, t |-> m.l]

Appended(root, m) ==
    IF Has(root) THEN UnderOneRoot(AppendNodeTo(m.h, root, m.t)) ELSE m

RECURSIVE BuildNaiveFrom(_, _, _)
BuildNaiveOn(m, text) == BuildNaiveFrom(m.h, m.t, text)
BuildNaiveFrom(h, root, text) ==
    LET cut == NextLeafLength(text)
    IN  IF text = <<>> THEN [h |-> h, t |-> root]
        ELSE BuildNaiveOn(Appended(root, MakeLeaf(h, Take(text, cut))), Skip(text, cut))

BuildRopeNaive(h, text) == BuildNaiveFrom(h, NoTree, WithoutNul(text))

=============================================================================
