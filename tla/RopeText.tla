------------------------------ MODULE RopeText ------------------------------
(***************************************************************************)
(* The text algorithms of the rope (include/atma/rope.hpp): what a leaf's  *)
(* characters count for, and where a buffer of bytes may be cut.           *)
(*                                                                         *)
(* A buffer is a sequence of bytes.  Bytes are told apart only as far as   *)
(* the algorithms do: CR, LF, a leading byte, or a run-on byte of a        *)
(* multi-byte character.  Byte indexes are the code's, counted from zero,  *)
(* so the byte at index i of buffer b is b[i + 1].                         *)
(***************************************************************************)
EXTENDS Integers, Sequences, FiniteSets

CONSTANTS
    Cr, Lf,         \* the two bytes that may form a seam
    RunOn,          \* the bytes 0x80 to 0xbf
    Nul,            \* what an unused byte of a scratch buffer holds
    CharIsSigned,   \* whether the compiler's char is signed
    InfoMod         \* one more than the largest value of a text_info_t field

Take(s, n) == SubSeq(s, 1, n)
Skip(s, n) == SubSeq(s, n + 1, Len(s))
CutAt(s, n) == <<Take(s, n), Skip(s, n)>>

-----------------------------------------------------------------------------
(* text_info_t: 16-bit totals of a piece of text                           *)

ZeroInfo == [bytes |-> 0, chars |-> 0, dbytes |-> 0, dchars |-> 0, breaks |-> 0]

(* operator + and operator - both take the dropped bytes of the right      *)
(* operand from its dropped characters.                                    *)
Plus(a, b) ==
    [bytes  |-> (a.bytes + b.bytes) % InfoMod,
     chars  |-> (a.chars + b.chars) % InfoMod,
     dbytes |-> (a.dbytes + b.dchars) % InfoMod,
     dchars |-> (a.dchars + b.dchars) % InfoMod,
     breaks |-> (a.breaks + b.breaks) % InfoMod]

Minus(a, b) ==
    [bytes  |-> (a.bytes - b.bytes) % InfoMod,
     chars  |-> (a.chars - b.chars) % InfoMod,
     dbytes |-> (a.dbytes - b.dchars) % InfoMod,
     dchars |-> (a.dchars - b.dchars) % InfoMod,
     breaks |-> (a.breaks - b.breaks) % InfoMod]

IsLeading(c) == c # RunOn

(* Characters of a buffer, and its line breaks: a CR and the LF after it   *)
(* are one break.                                                          *)
CharCount(s) == Cardinality({i \in DOMAIN s : IsLeading(s[i])})

BreakCount(s) ==
    Cardinality({i \in DOMAIN s : /\ s[i] \in {Cr, Lf}
                                  /\ ~(i > 1 /\ s[i] = Lf /\ s[i - 1] = Cr)})

(* from_str steps by the lengths that leading bytes name; of a text of     *)
(* whole characters that is one step for each leading byte.                *)
FromStr(s) ==
    [bytes |-> Len(s) % InfoMod, chars |-> CharCount(s) % InfoMod,
     dbytes |-> 0, dchars |-> 0, breaks |-> BreakCount(s) % InfoMod]

(* utf8_charseq_idx_to_byte_idx: walk char_idx characters or to the end.   *)
CharIdxToByteIdx(s, ci) ==
    LET starts == {b \in 0 .. Len(s) - 1 :
                     /\ IsLeading(s[b + 1])
                     /\ CharCount(Take(s, b)) = ci}
    IN  IF starts = {} THEN Len(s) ELSE CHOOSE b \in starts : TRUE

-----------------------------------------------------------------------------
(* Where a buffer may be cut                                               *)

IsSeam(x, y) == x = Cr /\ y = Lf

(* The shift of a signed char keeps its sign, so the test for a run-on     *)
(* byte can only succeed where char is unsigned.                           *)
MidCodepoint(s, i) == ~CharIsSigned /\ s[i + 1] = RunOn

IsBreak(s, i) ==
    \/ i = 0 \/ i = Len(s)
    \/ ~MidCodepoint(s, i) /\ ~IsSeam(s[i], s[i + 1])

PrevBreak(s, i) ==
    IF i = 0 THEN 0
    ELSE CHOOSE b \in 0 .. i - 1 :
           /\ IsBreak(s, b)
           /\ \A c \in b + 1 .. i - 1 : ~IsBreak(s, c)

NextBreak(s, i) ==
    IF i = Len(s) THEN i
    ELSE CHOOSE b \in i + 1 .. Len(s) :
           /\ IsBreak(s, b)
           /\ \A c \in i + 1 .. b - 1 : ~IsBreak(s, c)

(* The cut nearest to i, never at the ends of the buffer when there is     *)
(* another; ties go the way of the bias.  The difference of the distances  *)
(* is taken modulo 2^64 and read as an int, which is the difference.       *)
Nearer(s, i, left, right, bias) ==
    LET delta == (i - left) - (right - i)
    IN  IF right = Len(s) THEN left
        ELSE IF left = 0 THEN right
        ELSE IF bias = "hard_left" \/ delta < 0 THEN left
        ELSE IF bias = "hard_right" \/ delta > 0 THEN right
        ELSE IF bias = "left" THEN left
        ELSE right

FindSplitPoint(s, i, bias) ==
    LET left == IF IsBreak(s, i) THEN i ELSE PrevBreak(s, i)
    IN  Nearer(s, i, left, NextBreak(s, left), bias)

-----------------------------------------------------------------------------
(* insert_and_redistribute: the host's text with ins at byte index i, cut  *)
(* in two near its middle.  The cut is searched for in a window of eight   *)
(* bytes around the middle.                                                *)
Spliced(host, ins, i) == Take(host, i) \o ins \o Skip(host, i)

RedistributeAt(all) ==
    LET mid   == Len(all) \div 2
        begin == IF mid < 4 THEN 0 ELSE mid - 4
        end   == IF mid + 4 < Len(all) THEN mid + 4 ELSE Len(all)
        window == [k \in 1 .. 8 |->
                     IF begin + k <= end THEN all[begin + k] ELSE Nul]
    IN  begin + FindSplitPoint(window, mid - begin, "right")

InsertAndRedistribute(host, ins, i) ==
    LET all == Spliced(host, ins, i) IN CutAt(all, RedistributeAt(all))

=============================================================================
