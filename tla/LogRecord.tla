----------------------------- MODULE LogRecord -----------------------------
(***************************************************************************)
(* The record of a log call (include/atma/logging.hpp, with the memory     *)
(* stream of include/atma/streams.hpp that it is encoded into).            *)
(*                                                                         *)
(* send_log encodes a style, then colours and texts, into a stream over a  *)
(* buffer of Room bytes; what was written is sent to the logging runtime,  *)
(* and each handler decodes it.  A text is preceded by its size in two     *)
(* bytes.  The stream takes what fits of a write and the encoder does not  *)
(* look: a record that does not fit is cut, and its decoder reads on past  *)
(* its end.  A printed text is made in a smaller buffer first, and sprintf *)
(* does not know its end: what a longer text overruns is undefined.        *)
(*                                                                         *)
(* A byte is one of Base values; the code's buffer is smaller than the     *)
(* sizes that two bytes hold, and so is the model's.                       *)
(***************************************************************************)
EXTENDS Naturals, Sequences

CONSTANTS
    Base,       \* values of a byte (256)
    Room,       \* bytes of the buffer (8192)
    FormatRoom, \* bytes of the buffer a text is printed in (2048)
    Styles, Colors, LogTexts

VARIABLES
    stream,     \* the bytes written, up to the position of the stream
    logged      \* the style and the pieces logged, and what became of a write

vars == <<stream, logged>>

TextId == 1
ColorId == 2

(* A write takes as many bytes as fit.                                     *)
Write(s, bytes) == SubSeq(s \o bytes, 1, IF Len(s \o bytes) <= Room THEN Len(s \o bytes) ELSE Room)

SizeBytesSwapped(n) == <<(n \div Base) % Base, n % Base>>      \* mutant: big-endian
SizeBytes(n) == <<n % Base, (n \div Base) % Base>>

Encode(piece, written) ==
    /\ stream' = written
    /\ logged' = [logged EXCEPT !.pieces = Append(@, piece),
                                !.cut = @ \/ Len(stream') < Len(stream) + piece.length,
                                !.wrapped = @ \/ piece.length - 3 >= Base * Base]

Color(c) == [id |-> "color", color |-> c, length |-> 2]
Text(t) == [id |-> "text", text |-> t, length |-> 3 + Len(t)]

Init ==
    \E style \in Styles :
        /\ stream = Write(<<>>, <<style>>)
        /\ logged = [style |-> style, pieces |-> <<>>, cut |-> FALSE, wrapped |-> FALSE,
                      overran |-> FALSE]

EncodeColor(c) == Encode(Color(c), Write(stream, <<ColorId, c>>))
EncodeCstr(t) ==
    Encode(Text(t), Write(Write(stream, <<TextId>> \o SizeBytes(Len(t))), t))

(* The text is printed, with a zero at its end, behind room for its header *)
(* into a buffer of its own first.                                         *)
FitsFormatted(t) == 3 + Len(t) + 1 <= FormatRoom
EncodeSprintf(t) ==
    IF FitsFormatted(t)
    THEN Encode(Text(t), Write(stream, <<TextId>> \o SizeBytes(Len(t)) \o t))
    ELSE logged' = [logged EXCEPT !.overran = TRUE] /\ UNCHANGED stream

(* Nothing more is taken once a write was cut, or a text overran.           *)
Next ==
    /\ ~logged.cut /\ ~logged.overran
    /\ \/ \E c \in Colors : EncodeColor(c)
       \/ \E t \in LogTexts : EncodeCstr(t) \/ EncodeSprintf(t)

-----------------------------------------------------------------------------
Beyond == [id |-> "beyond"]

(* decode_logging_data from a position p on.  It stops at the end of the   *)
(* record, not behind it; a byte that is no instruction is skipped.        *)
Decoded ==
    LET size == Len(stream)
        at(p) == stream[p + 1]
        from[p \in 1 .. size] ==
            IF p = size THEN <<>>
            ELSE IF at(p) = ColorId THEN
                IF p + 2 > size THEN <<Beyond>> ELSE <<Color(at(p + 1))>> \o from[p + 2]
            ELSE IF at(p) = TextId THEN
                IF p + 3 > size THEN <<Beyond>>
                ELSE LET n == at(p + 1) + Base * at(p + 2)
                     IN  IF p + 3 + n > size THEN <<Beyond>>
                         ELSE <<Text(SubSeq(stream, p + 4, p + 3 + n))>> \o from[p + 3 + n]
            ELSE from[p + 1]
    IN  from[1]

(* A record that fits is decoded as it was logged.  One that was cut is    *)
(* decoded as it was logged up to the piece that was cut, where the        *)
(* decoder reads past the end of the record, unless nothing of the piece   *)
(* was written; only a text longer than its size can say is decoded as     *)
(* something else.  Nothing is said once a text overran its buffer.        *)
SaysWhatWasLogged ==
    LET pieces == logged.pieces
        whole == SubSeq(pieces, 1, Len(pieces) - 1)
    IN  ~logged.overran =>
        /\ Len(stream) <= Room
        /\ stream[1] = logged.style
        /\ ~logged.cut => Decoded = pieces
        /\ logged.cut /\ ~logged.wrapped => Decoded \in {whole, Append(whole, Beyond)}

=============================================================================
