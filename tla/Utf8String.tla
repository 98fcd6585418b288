----------------------------- MODULE Utf8String -----------------------------
(***************************************************************************)
(* The strings (include/atma/utf/utf8_string.hpp).                         *)
(*                                                                         *)
(* A string has a block of capacity cells, the bytes of its text in the    *)
(* first of them and a terminator behind.  Every operation that makes the  *)
(* text longer may move it to another block.                               *)
(*                                                                         *)
(* Two strings are modelled, so that an operation may be given the string  *)
(* it changes.  text is what each should hold, or Unsaid after an operation*)
(* that reads the block it has just released, or has just replaced.        *)
(*                                                                         *)
(* Bytes are as many as the code tells apart: one for ASCII, the leading   *)
(* bytes of two- and three-byte characters, and the run-on byte.  ++ and   *)
(* utf8_char_t index the table of lengths with a char: where char is       *)
(* signed, as on the repository's own build, every byte that is not        *)
(* ASCII reads in front of the table, and what follows is undefined.  --   *)
(* casts the byte first.  What depends on it is said of both builds.       *)
(***************************************************************************)
EXTENDS Naturals, Sequences, SequencesExt

CONSTANTS
    Texts,      \* texts given to the operations
    Quantum,    \* the smallest capacity (8)
    MaxSize     \* bound: bytes in a string

VARIABLES strings, text

vars == <<strings, text>>

Names == {"a", "b"}
Nul == "nul"
Junk == "junk"      \* a cell that was never written, or that was released
Unsaid == <<Junk>>

Null == [size |-> 0, data |-> <<>>]         \* no block
CapacityOf(s) == Len(s.data)
Bytes(s) == SubSeq(s.data, 1, s.size)

QuantizeCapacity(size) ==
    LET halved[n \in Nat] == IF n < Quantum THEN Quantum ELSE 2 * halved[n \div 2]
    IN  halved[size]

Fresh(capacity) == [i \in 1 .. capacity |-> Junk]
Written(data, at, bytes) ==
    [i \in DOMAIN data |-> IF i - at \in DOMAIN bytes THEN bytes[i - at] ELSE data[i]]

Realloc(s, capacity, keep) ==
    [s EXCEPT !.data = IF keep /\ s.data # <<>>
                       THEN Written(Fresh(capacity), 0, Append(Bytes(s), Nul))
                       ELSE Fresh(capacity)]
Quantize(s, size, keep) ==
    IF QuantizeCapacity(size) = CapacityOf(s) THEN s
    ELSE Realloc(s, QuantizeCapacity(size), keep)
QuantizeGrowLate(s, more) ==    \* mutant: no room is kept for the terminator
    IF CapacityOf(s) < s.size + more THEN Realloc(s, QuantizeCapacity(s.size + more), TRUE)
    ELSE s
QuantizeGrow(s, more) ==
    IF CapacityOf(s) <= s.size + more THEN Realloc(s, QuantizeCapacity(s.size + more), TRUE)
    ELSE s

(* Bytes behind the text, and a terminator.                                *)
Extended(s, bytes) ==
    [size |-> s.size + Len(bytes), data |-> Written(s.data, s.size, Append(bytes, Nul))]

MakeString(bytes) ==
    Extended([size |-> 0, data |-> Fresh(QuantizeCapacity(Len(bytes)))], bytes)

Appended(s, bytes) ==
    IF bytes = <<>> THEN s ELSE Extended(QuantizeGrow(s, Len(bytes)), bytes)
PushedBack(s, bytes) == Extended(QuantizeGrow(s, Len(bytes)), bytes)
Added(s, bytes) == Extended(Quantize(s, s.size + Len(bytes), TRUE), bytes)

Assigned(s, bytes) ==
    Extended([Quantize(s, Len(bytes), FALSE) EXCEPT !.size = 0], bytes)

ByteLength == [b \in {"A", "run", "two", "three"} |->
                  CASE b = "A" -> 1 [] b = "run" -> 0 [] b = "two" -> 2 [] b = "three" -> 3]
IsLeading(b) == ByteLength[b] >= 1
IsInTable(b, charIsSigned) == charIsSigned => b = "A"

(* Whole characters: a leading byte, and its run-on bytes behind it.        *)
WellFormed(t) ==
    /\ t \in Seq(DOMAIN ByteLength)
    /\ t # <<>> => IsLeading(t[1])
    /\ \A i \in 1 .. Len(t) : IsLeading(t[i]) => LET next == i + ByteLength[t[i]] IN
         /\ next <= Len(t) + 1
         /\ \A k \in i + 1 .. next - 1 : ~IsLeading(t[k])
         /\ next <= Len(t) => IsLeading(t[next])

(* The positions, from 0, that ++ visits from the start, as far as what it *)
(* does is defined: it asserts that it is not at a run-on byte, and reads  *)
(* the length of the byte it is at in the table.                           *)
Forward(t, charIsSigned) ==
    LET from[i \in 0 .. Len(t)] ==
            IF i = Len(t) \/ ~IsLeading(t[i + 1]) \/ ~IsInTable(t[i + 1], charIsSigned)
            THEN <<i>>
            ELSE <<i>> \o from[i + ByteLength[t[i + 1]]]
    IN  from[0]

Init == strings = [x \in Names |-> Null] /\ text = [x \in Names |-> <<>>]

Set(x, s, t) ==
    /\ s.size <= MaxSize
    /\ strings' = [strings EXCEPT ![x] = s]
    /\ text' = [text EXCEPT ![x] = IF Contains(t, Junk) THEN Unsaid ELSE t]

Construct(x, t) == Set(x, MakeString(t), t)
CopyConstruct(x, y) == x # y /\ Set(x, MakeString(Bytes(strings[y])), text[y])
MoveConstruct(x, y) ==
    /\ x # y
    /\ strings' = [strings EXCEPT ![x] = strings[y], ![y] = Null]
    /\ text' = [text EXCEPT ![x] = text[y], ![y] = <<>>]
MoveAssign(x, y) ==
    /\ strings' = [strings EXCEPT ![x] = strings[y], ![y] = strings[x]]
    /\ text' = [text EXCEPT ![x] = text[y], ![y] = text[x]]

(* A string that is given itself and changes its capacity has lost what it *)
(* is given: released cells are copied by append, new ones by assignment.  *)
Moves(x, s) == CapacityOf(s) # CapacityOf(strings[x])
GivenTo(x, y, s) ==
    IF x = y /\ Moves(x, s) THEN [i \in 1 .. strings[y].size |-> Junk] ELSE Bytes(strings[y])

Append1(x, t) == Set(x, Appended(strings[x], t), text[x] \o t)
AppendString(x, y) ==
    LET s == Appended(strings[x], Bytes(strings[y]))
        given == GivenTo(x, y, s)
    IN  Set(x, Appended(strings[x], given), text[x] \o (IF given = text[y] THEN given ELSE Unsaid))

(* += reads the other string's block after its own has moved.              *)
AddText(x, t) == Set(x, Added(strings[x], t), text[x] \o t)
AddString(x, y) == Set(x, Added(strings[x], Bytes(strings[y])), text[x] \o text[y])

CopyAssign(x, y) ==
    LET s == Assigned(strings[x], Bytes(strings[y]))
        given == GivenTo(x, y, s)
    IN  Set(x, Assigned(strings[x], given), IF given = text[y] THEN given ELSE Unsaid)

(* A character that some build has: all, where char is unsigned.            *)
PushBack(x, t) ==
    /\ \E charIsSigned \in BOOLEAN : Forward(t, charIsSigned) = <<0, Len(t)>>
    /\ Set(x, PushedBack(strings[x], t), text[x] \o t)

(* The terminator stays where it was.                                      *)
Clear(x) == Set(x, [strings[x] EXCEPT !.size = 0], <<>>)

Next ==
    \E x \in Names :
        \/ \E t \in Texts :
             Construct(x, t) \/ Append1(x, t) \/ AddText(x, t) \/ PushBack(x, t)
        \/ \E y \in Names :
             \/ CopyConstruct(x, y) \/ MoveConstruct(x, y) \/ MoveAssign(x, y)
             \/ AppendString(x, y) \/ AddString(x, y) \/ CopyAssign(x, y)
        \/ Clear(x)

-----------------------------------------------------------------------------
(* Reading                                                                 *)

(* The positions that -- visits from the end.                              *)
Backward(t) ==
    LET back(i) == CHOOSE j \in 0 .. i - 1 :
                      IsLeading(t[j + 1]) /\ \A k \in j + 1 .. i - 1 : ~IsLeading(t[k + 1])
        from[i \in 0 .. Len(t)] == IF i = 0 THEN <<i>> ELSE <<i>> \o from[back(i)]
    IN  from[Len(t)]

(* utf8_charseq_idx_to_byte_idx, which steps as ++ does.                   *)
ByteIdx(t, n, charIsSigned) ==
    LET visited == Forward(t, charIsSigned)
    IN  visited[IF n < Len(visited) THEN n + 1 ELSE Len(visited)]

Equal(x, y) == Bytes(strings[x]) = Bytes(strings[y])

(* c_str, up to the terminator; a string without a block has none.         *)
CStr(s) ==
    SubSeq(s.data, 1, (CHOOSE i \in 1 .. CapacityOf(s) :
                          s.data[i] = Nul /\ \A j \in 1 .. i - 1 : s.data[j] # Nul) - 1)

Said(x) == ~Contains(text[x], Junk)

(* A string holds its text, inside its block and with a terminator inside  *)
(* the block, whatever it went through.  Only a string that was cleared    *)
(* and not written since shows another text as a C string.                 *)
HoldsText ==
    \A x \in Names : LET s == strings[x] IN
        /\ s # Null => s.size < CapacityOf(s)
        /\ Said(x) => Bytes(s) = text[x]
        /\ s.size > 0 /\ Said(x) => CStr(s) = text[x]
        /\ s # Null => \E i \in 1 .. CapacityOf(s) : s.data[i] = Nul
        /\ \A y \in Names : Said(x) /\ Said(y) => (Equal(x, y) <=> text[x] = text[y])

(* Iteration visits the same characters in either direction; forwards it   *)
(* comes to the end, unless it comes to a character that is not ASCII where*)
(* char is signed.  So far, the n-th character begins where it is said to. *)
IteratesBothWays ==
    \A x \in Names, charIsSigned \in BOOLEAN : Said(x) =>
        LET t == text[x]
            there == Forward(t, charIsSigned)
            back == Reverse(Backward(t))
        IN  /\ IsPrefix(there, back)
            /\ there # back => charIsSigned /\ t[Last(there) + 1] # "A"
            /\ \A n \in 0 .. Len(t) : LET i == ByteIdx(t, n, charIsSigned) IN
                 n < Len(there) \/ there = back => i = Len(t) \/ IsLeading(t[i + 1])

Agrees == HoldsText /\ IteratesBothWays

=============================================================================
