---------------------------- MODULE RopeSamples ----------------------------
(***************************************************************************)
(* Texts for the instances of Rope.                                        *)
(***************************************************************************)
EXTENDS Naturals, Sequences

(* A letter is a number that occurs once in a text, so that a piece of     *)
(* text that is moved, lost or repeated shows.  One that RUN follows leads *)
(* a character of several bytes.                                           *)
CR == 1000
LF == 1001
RUN == 1002
NUL == 1003

Letters(from, n) == [i \in 1 .. n |-> from + i]

(* No leaf, one leaf, three leaves, and five leaves under two branches.     *)
(* There is a CRLF where a leaf would have ended, and a leaf that begins   *)
(* with a lone LF.  One text more has a character of two bytes.            *)
TestTexts ==
    {<<>>, Letters(0, 5), [Letters(0, 25) EXCEPT ![9] = CR, ![10] = LF],
     [Letters(0, 44) EXCEPT ![10] = LF, ![36] = CR], <<1, 2, RUN>>}

(* One leaf, that ends in a character of two bytes; and five leaves, with  *)
(* characters of two and three bytes where a leaf would have ended and     *)
(* where the halves of a full leaf are cut.                                *)
WideTexts ==
    {<<1, 2, RUN>>,
     [Letters(0, 44) EXCEPT ![10] = RUN, ![13] = RUN, ![19] = RUN, ![20] = RUN,
                            ![24] = RUN, ![41] = RUN]}

WideInserts ==
    {<<401, RUN>>, <<402, RUN, RUN, 403, LF>>,
     [Letters(500, 20) EXCEPT ![9] = RUN, ![10] = RUN, ![11] = RUN]}

(* A few letters, a text that ends in CR, a line feed, a text too long for *)
(* one edit, and a character of two bytes.                                 *)
TestInserts ==
    {Letters(100, 3), <<201, CR>>, <<LF>>, Letters(300, 20), <<401, RUN>>}
=============================================================================
