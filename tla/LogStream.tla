----------------------------- MODULE LogStream -----------------------------
(***************************************************************************)
(* muduo/logging/LogStream.{h,cc}: the text of a number, and what a line   *)
(* of bounded size keeps of the items streamed into it.  A text is a       *)
(* sequence of digits with Minus for the sign; of any other item only the  *)
(* length matters.                                                         *)
(***************************************************************************)
EXTENDS Date, SequencesExt

SIZE == 4000              \* kSmallBuffer
kMaxNumericSize == 32

Minus == 16

\* digits and zero: the table read from its middle, by a remainder of either sign.
ZeroDigits == [lsd \in -9 .. 9 |-> IF lsd < 0 THEN -lsd ELSE lsd]

\* The do-while loops of convert and convertHex, lowest digit first.
Lsds[i \in Int] ==
    <<ZeroDigits[CMod(i, 10)]>> \o (IF CDiv(i, 10) = 0 THEN <<>> ELSE Lsds[CDiv(i, 10)])
HexLsds[i \in Nat] == <<i % 16>> \o (IF i \div 16 = 0 THEN <<>> ELSE HexLsds[i \div 16])

\* Mutant: the loop goes on while i > 0, which a negative value never is.
ConvertWhilePositive(value) ==
    IF value < 0 THEN <<Minus, ZeroDigits[CMod(value, 10)]>> ELSE Reverse(Lsds[value])

Convert(value) == Reverse(Lsds[value] \o (IF value < 0 THEN <<Minus>> ELSE <<>>))
ConvertHex(value) == Reverse(HexLsds[value])

\* What a reader makes of a text, counting downwards as the least int has no opposite.
ReadBack(text, base) ==
    LET digits == SelectSeq(text, LAMBDA d : d # Minus)
        low == FoldLeft(LAMBDA n, d : n * base - d, 0, digits)
    IN  IF text[1] = Minus THEN low ELSE -low

-----------------------------------------------------------------------------
(* FixedBuffer: its length, and the items it has kept.                     *)

EmptyBuffer == [length |-> 0, kept |-> <<>>]
Avail(b) == SIZE - b.length
Add(b, item, len) == [length |-> b.length + len, kept |-> Append(b.kept, item)]

Text(len) == [kind |-> "text", size |-> len]
Number(v) == [kind |-> "int", value |-> v]
Pointer(v) == [kind |-> "pointer", value |-> v]

\* The bytes an item takes.
Width(item) ==
    CASE item.kind = "int" -> Len(Convert(item.value))
      [] item.kind = "pointer" -> 2 + Len(ConvertHex(item.value))
      [] OTHER -> item.size

\* Mutant: a text may fill the buffer to its end.
AppendItemToEnd(b, item) ==
    IF item.kind = "text" THEN IF Avail(b) >= item.size THEN Add(b, item, item.size) ELSE b
    ELSE IF Avail(b) >= kMaxNumericSize THEN Add(b, item, Width(item)) ELSE b

\* operator<<: FixedBuffer::append for texts, bool, char and Fmt; formatInteger,
\* and its likes for pointers and doubles, convert in place.
AppendItem(b, item) ==
    IF item.kind = "text" THEN IF Avail(b) > item.size THEN Add(b, item, item.size) ELSE b
    ELSE IF Avail(b) >= kMaxNumericSize THEN Add(b, item, Width(item)) ELSE b

Stream(b, items) == FoldLeft(AppendItem, b, items)

=============================================================================
