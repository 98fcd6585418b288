-------------------------------- MODULE Rope --------------------------------
(***************************************************************************)
(* basic_rope_t of include/atma/rope.hpp: a text kept as a balanced tree   *)
(* of small buffers that ropes copied or split from one another share.     *)
(*                                                                         *)
(* The heap h holds the nodes; root is the rope being edited and text what *)
(* the edits so far should have made of it.  A second rope, kept, is a     *)
(* copy of the rope at some time, with the text it had.  flaws names the   *)
(* ways the last edit is known to lose or repeat text; a rope with a flaw  *)
(* is not edited further, it is dropped for the copy.                      *)
(*                                                                         *)
(* Edits are made at characters, of one byte or more.  Where char is signed*)
(* the byte that leads a longer character indexes char_length_table before *)
(* its start, so text_info_t::from_str counts it as anything: the rope is  *)
(* adrift, nothing follows, and nothing is promised.                       *)
(***************************************************************************)
EXTENDS RopeEdits

CONSTANTS
    Texts,      \* the texts a rope is built from
    Inserts,    \* the texts inserted
    Lengths,    \* how many characters an erase takes
    Stride,     \* edits happen at the multiples of Stride, and next to the ends
    MaxEdits    \* bound: edits in a behaviour

VARIABLES h, root, text, kept, flaws, edits

vars == <<h, root, text, kept, flaws, edits>>

LOCAL INSTANCE SequencesExt

-----------------------------------------------------------------------------
(* Reading a rope                                                          *)

(* The text of a tree, by the children it knows of; none of an absent one. *)
RECURSIVE KnownText(_, _)
KnownText(hp, t) ==
    IF ~Has(t) THEN <<>>
    ELSE IF IsLeaf(hp, t) THEN Data(hp, t)
    ELSE FlattenSeq([i \in 1 .. t.count |-> KnownText(hp, Backing(hp, t)[i])])

RECURSIVE Subtrees(_, _)
Subtrees(hp, t) ==
    {t} \cup UNION {Subtrees(hp, Backing(hp, t)[i]) : i \in DOMAIN Backing(hp, t)}

(* utf8_char_t{p}: the character that starts at a byte, with the run-on    *)
(* bytes behind it; a byte that starts none is a halt.                     *)
Halts(s, i) == s[i + 1] = RunOn

CharAt(s, i) ==
    SubSeq(s, i + 1, CHOOSE end \in i + 1 .. Len(s) :
                       /\ end = Len(s) \/ IsLeading(s[end + 1])
                       /\ \A k \in i + 2 .. end : s[k] = RunOn)

(* The characters of a text.                                               *)
RECURSIVE CharsOf(_)
CharsAfter(c, s) == <<c>> \o CharsOf(Skip(s, Len(c)))
CharsOf(s) == IF s = <<>> THEN <<>> ELSE CharsAfter(CharAt(s, 0), s)

(* basic_rope_char_iterator_t: at the end of a leaf the next one is found  *)
(* from the root.  A character is read at the byte its index in the leaf   *)
(* names, which is where it is when those before it are of one byte.       *)
RECURSIVE LeafAt(_, _, _)
LeafAt(hp, t, ci) ==
    IF IsLeaf(hp, t) THEN t
    ELSE LET at == FindForCharIdx(Backing(hp, t), ci)
         IN  LeafAt(hp, Backing(hp, t)[at[1] + 1], at[2])

RECURSIVE FrontLeaf(_, _)
FrontLeaf(hp, t) == IF IsLeaf(hp, t) THEN t ELSE FrontLeaf(hp, Backing(hp, t)[1])

RECURSIVE CharsFrom(_, _, _, _, _)
CharsFrom(hp, t, leaf, idx, rel) ==
    IF idx = t.info.chars \/ Halts(Buf(hp, leaf), rel) THEN <<>>
    ELSE <<CharAt(Buf(hp, leaf), rel)>>
         \o IF rel + 1 = leaf.info.chars /\ idx + 1 < t.info.chars
            THEN CharsFrom(hp, t, LeafAt(hp, t, idx + 1), idx + 1, 0)
            ELSE CharsFrom(hp, t, leaf, idx + 1, rel + 1)

Iterated(hp, t) == CharsFrom(hp, t, FrontLeaf(hp, t), 0, 0)

-----------------------------------------------------------------------------
(* The operations                                                          *)

(* An edit goes down to a leaf: every branch on the way must have children.*)
Usable(hp, t) ==
    Has(t) /\ \A s \in Subtrees(hp, t) : Has(s) /\ (~IsLeaf(hp, s) => s.count > 0)

Chars == root.info.chars
Places == {i \in 0 .. Chars : i % Stride = 0 \/ i \in {1, Chars - 1, Chars}}

(* The rope becomes the result of an edit.                                 *)
Flawed(m, names) == [h |-> m.h, t |-> m.t, flaws |-> names]

Becomes(m, becoming) ==
    /\ h' = m.h
    /\ root' = m.t
    /\ flaws' = m.flaws
    /\ text' = becoming

(* from_str on a text with a longer character, where char is signed.       *)
Strays(s) == CharIsSigned /\ RunOn \in {s[i] : i \in DOMAIN s}

GoesAdrift == flaws' = {"adrift"} /\ UNCHANGED <<h, root, text>>

(* Where in the text the character of an index starts.                     *)
At(ci) == Len(FlattenSeq(Take(CharsOf(text), ci)))

Starts(m, t) ==
    /\ h = m.h
    /\ root = m.t
    /\ text = t

Init ==
    /\ \E t \in Texts :
          /\ Starts(IF t = <<>> \/ Strays(t) THEN MakeLeaf(<<>>, <<>>) ELSE BuildRope(<<>>, t), t)
          /\ flaws = IF Strays(t) THEN {"adrift"} ELSE {}
    /\ kept = [tree |-> root, text |-> text]
    /\ edits = 0

(* A text larger than one edit can take becomes a rope of its own, and is  *)
(* spliced in at the place where the rope is split.                        *)
JoinedTo(m, t) == ConcatIf(m.h, m.t, t)
Around(new, parts) == JoinedTo(ConcatIf(parts.h, parts.l, new), parts.r)
SplicedAround(new, parts) == Flawed(Around(new, parts), parts.flaws)

SpliceIn(ci, new) ==
    IF ci = 0 THEN Flawed(Concat(new.h, new.t, root), {})
    ELSE IF ci = Chars THEN Flawed(Concat(new.h, root, new.t), {})
    ELSE SplicedAround(new.t, Split(new.h, root, ci))

(* A line feed at the very front is passed up for a sibling to take, and   *)
(* at the root there is none.                                              *)
EditIn(e) ==
    Flawed(UnderOneRoot(e),
           e.flaws \cup (IF "left" \in e.seam THEN {"unfed"} ELSE {}))

Usually == flaws = {} /\ Usable(h, root) /\ edits < MaxEdits

Insert(ci, s) ==
    \/ Strays(s) /\ GoesAdrift
    \/ ~Strays(s) /\ Becomes(IF Len(s) <= BufEditMax THEN EditIn(Edit(h, root, ci, s))
                             ELSE SpliceIn(ci, BuildRope(h, s)),
                             Spliced(text, s, At(ci)))

(* An erase that leaves no left part ends at an assertion.                 *)
Remainder(m) ==
    IF Has(m.l) THEN Flawed(UnderOneRoot(m), m.flaws)
    ELSE [h |-> m.h, t |-> NoTree, flaws |-> m.flaws \cup {"asserted"}]

EraseText(ci, n) ==
    Becomes(Remainder(Erase(h, root, ci, ci + n)),
            Take(text, At(ci)) \o Skip(text, At(ci + n)))

(* split() leaves the rope alone; the one of its results that is looked at *)
(* next takes the rope's place.                                            *)
Part(m, t, flawed) ==
    Flawed(IF Has(t) THEN [h |-> m.h, t |-> t] ELSE MakeLeaf(m.h, <<>>), flawed)

PartOf(m, side) ==
    IF side = "left" THEN Part(m, m.l, m.flaws) ELSE Part(m, m.r, {})

SplitKeeping(side, ci) ==
    Becomes(PartOf(Split(h, root, ci), side),
            IF side = "left" THEN Take(text, At(ci)) ELSE Skip(text, At(ci)))

InsertSome ==
    /\ Usually
    /\ \E ci \in Places, s \in Inserts : Insert(ci, s)
    /\ edits' = edits + 1
    /\ UNCHANGED kept

EraseSome ==
    /\ Usually
    /\ \E ci \in Places, n \in Lengths : ci + n <= Chars /\ EraseText(ci, n)
    /\ edits' = edits + 1
    /\ UNCHANGED kept

(* The search of a split finds no child at the end of a branch.            *)
SplitSome ==
    /\ Usually
    /\ \E ci \in Places, side \in {"left", "right"} :
         /\ ci < Chars \/ IsLeaf(h, root)
         /\ SplitKeeping(side, ci)
    /\ edits' = edits + 1
    /\ UNCHANGED kept

CopyRope ==
    /\ flaws = {} /\ kept.tree # root /\ edits < MaxEdits
    /\ kept' = [tree |-> root, text |-> text]
    /\ UNCHANGED <<h, root, text, flaws, edits>>

BackToCopy ==
    /\ root # kept.tree /\ edits < MaxEdits /\ "adrift" \notin flaws
    /\ root' = kept.tree
    /\ text' = kept.text
    /\ flaws' = {}
    /\ UNCHANGED <<h, kept, edits>>

Next == InsertSome \/ EraseSome \/ SplitSome \/ CopyRope \/ BackToCopy

Spec == Init /\ [][Next]_vars

-----------------------------------------------------------------------------
(* Properties                                                              *)

(* No buffer and no node grows past its capacity.                          *)
TypeOK ==
    /\ \A n \in DOMAIN h : Len(h[n].buf) <= BufSize /\ Len(h[n].kids) <= BF
    /\ root.node \in 0 .. Len(h) /\ kept.tree.node \in 1 .. Len(h)
    /\ flaws \subseteq {"lost", "twice", "doubled", "unfed", "asserted", "adopted", "adrift"}
    /\ edits \in 0 .. MaxEdits

(* An edit that goes through none of the flawed paths leaves the text with *)
(* the insertion, erasure or cut made at the character it was asked for.   *)
EditsAreSplices == flaws = {} => KnownText(h, root) = text

(* A copy keeps its text whatever happens to the rope it was taken from,   *)
(* flawed edits and appends to shared nodes included, for every reader     *)
(* that counts a node's children by the copy's own count.                  *)
CopyKeepsText == "adrift" \notin flaws => KnownText(h, kept.tree) = kept.text

(* The totals a search goes by are those of the text below, at every node. *)
TotalsMatch ==
    flaws = {} =>
        \A t \in Subtrees(h, root) :
            /\ t.info.bytes = Len(KnownText(h, t))
            /\ t.info.chars = CharCount(KnownText(h, t))

(* Leaves stay at one depth, though splitting and joining move subtrees of *)
(* any height.                                                             *)
Balanced ==
    flaws = {} =>
        \A t \in Subtrees(h, root) : \A i \in DOMAIN Backing(h, t) :
            Height(h, Backing(h, t)[i]) = Height(h, t) - 1

(* Walking a rope character by character reads its text up to its first    *)
(* character of more than a byte, and that: all of a text that has none.   *)
(* What is read after it may be the wrong character or a halt, but never   *)
(* more characters than there are.                                         *)
FirstLonger(chars) == SelectInSeq(chars, LAMBDA c : Len(c) > 1)

ReadsAsFar(read, chars) ==
    /\ Len(read) <= Len(chars)
    /\ IF FirstLonger(chars) = 0 THEN read = chars
       ELSE Take(read, FirstLonger(chars)) = Take(chars, FirstLonger(chars))

IterationReadsText ==
    flaws = {} /\ Usable(h, root) => ReadsAsFar(Iterated(h, root), CharsOf(text))

(* What an iteration over an edited rope reads is the edited text.         *)
ReadsAsEdited == EditsAreSplices /\ IterationReadsText

(* validate_rope_t_: nodes but the root are at least half full.            *)
Valid(hp, t) ==
    /\ ~IsLeaf(hp, t) => t.count >= 2
    /\ \A s \in Subtrees(hp, t) \ {t} : IsLeaf(hp, s) \/ s.count >= MinBranches
    /\ \A s \in Subtrees(hp, t) : \A i \in DOMAIN Backing(hp, s) :
          Height(hp, Backing(hp, s)[i]) = Height(hp, s) - 1

ValidFor(m, t) == Valid(m.h, m.t) /\ KnownText(m.h, m.t) = t

(* Both ways to build a rope give a valid tree of the text.                *)
BuildsAreValid ==
    edits = 0 /\ text # <<>> =>
        Valid(h, root) /\ ValidFor(BuildRopeNaive(<<>>, text), text)

(* No leaf is cut inside a character, which insert_and_redistribute asserts*)
(* of the cut it makes.                                                    *)
CutsBetweenCharacters ==
    flaws = {} =>
        \A t \in Subtrees(h, root) :
            IsLeaf(h, t) /\ Data(h, t) # <<>> => IsLeading(Head(Data(h, t)))

(* The nodes are as their totals say, at the heights their places ask for, *)
(* of whole characters, and both ways to build a rope make it so.          *)
TreeIsSound ==
    TypeOK /\ TotalsMatch /\ Balanced /\ CutsBetweenCharacters /\ BuildsAreValid

(* Text inserted at a place is there: insert_small_text_ skips a line feed *)
(* at the front for the previous chunk to take, and a rope's first chunk   *)
(* has none before it.                                                     *)
InsertedTextIsThere == flaws \subseteq {"unfed"} => KnownText(h, root) = text

(* The parts of a split are the text before and after the place.           *)
SplitsDivideText == flaws \subseteq {"doubled"} => KnownText(h, root) = text

=============================================================================
