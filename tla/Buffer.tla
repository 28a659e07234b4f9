------------------------------ MODULE Buffer --------------------------------
(***************************************************************************)
(* muduo/Buffer.{h,cpp}: a byte queue in one vector, with readerIndex_ and *)
(* writerIndex_ around the readable bytes and spare room in front of them. *)
(* The vector is modelled byte by byte, stale bytes included, so that what *)
(* makeSpace and readv move where is what the readers see.                 *)
(***************************************************************************)
EXTENDS Naturals, Sequences

CONSTANTS
    Byte,           \* the values of a byte
    Zero,           \* the byte that vector::resize fills with
    kCheapPrepend,
    kInitialSize,
    ExtraBuf,       \* the size of the stack buffer in readFd
    MaxLen,         \* bound: the longest string passed to one call
    MaxContent      \* bound: the number of readable bytes

ASSUME ByteAssumption == Zero \in Byte
ASSUME SizeAssumption ==
    /\ kCheapPrepend \in Nat /\ kInitialSize \in Nat /\ ExtraBuf \in Nat
    /\ MaxLen \in Nat /\ MaxContent \in Nat

VARIABLES
    buffer,       \* the vector; byte i of the code is buffer[i + 1]
    readerIndex,
    writerIndex,
    content       \* history: the queue of bytes a user of Buffer expects

vars == <<buffer, readerIndex, writerIndex, content>>

Strings == UNION {[1 .. n -> Byte] : n \in 0 .. MaxLen}

readableBytes == writerIndex - readerIndex

prependableBytes == readerIndex

\* n bytes of a fresh vector.
Zeros(n) == [i \in 1 .. n |-> Zero]

\* std::copy of data to offset pos of the vector b.
CopyTo(b, pos, data) ==
    [i \in 1 .. Len(b) |->
        IF pos < i /\ i <= pos + Len(data) THEN data[i - pos] ELSE b[i]]

-----------------------------------------------------------------------------
Init ==
    /\ buffer = Zeros(kCheapPrepend + kInitialSize)
    /\ readerIndex = kCheapPrepend
    /\ writerIndex = kCheapPrepend
    /\ content = <<>>

\* Mutant: the room kept for prepends is forgotten.
MustGrowIgnoringPrepend(size, r, w, len) == (size - w) + r < len

\* makeSpace: neither the free bytes behind nor those in front suffice.
MustGrow(size, r, w, len) == (size - w) + r < len + kCheapPrepend

\* Mutant: one byte of the moved ones is cut off.
MovedWriterShort(r, w) == kCheapPrepend + (w - r) - 1

\* makeSpace: where writerIndex is after the readable bytes moved to the front.
MovedWriter(r, w) == kCheapPrepend + (w - r)

\* ensureWritableBytes(len) for a vector b with indices r and w.
EnsureWritableBytes(b, r, w, len) ==
    IF Len(b) - w >= len THEN [b |-> b, r |-> r, w |-> w]
    ELSE IF MustGrow(Len(b), r, w, len)
         THEN [b |-> b \o Zeros(w + len - Len(b)), r |-> r, w |-> w]
         ELSE [b |-> CopyTo(b, kCheapPrepend, SubSeq(b, r + 1, w)),
               r |-> kCheapPrepend, w |-> MovedWriter(r, w)]

\* append(data) to a vector b with indices r and w.
Appended(b, r, w, data) ==
    LET s == EnsureWritableBytes(b, r, w, Len(data))
    IN  [b |-> CopyTo(s.b, s.w, data), r |-> s.r, w |-> s.w + Len(data)]

Become(s) == buffer' = s.b /\ readerIndex' = s.r /\ writerIndex' = s.w

\* append(data)
AppendBytes(data) ==
    /\ Len(content) + Len(data) <= MaxContent
    /\ Become(Appended(buffer, readerIndex, writerIndex, data))
    /\ content' = content \o data

\* retrieve(len), which retrieveUntil calls; its assertion is the caller's duty.
Retrieve(len) ==
    /\ len <= readableBytes
    /\ readerIndex' = readerIndex + len
    /\ content' = SubSeq(content, len + 1, Len(content))
    /\ UNCHANGED <<buffer, writerIndex>>

\* retrieveAll and retrieveAsString.
RetrieveAll ==
    /\ readerIndex' = kCheapPrepend
    /\ writerIndex' = kCheapPrepend
    /\ content' = <<>>
    /\ UNCHANGED buffer

\* prepend(data); its assertion is the caller's duty.
Prepend(data) ==
    /\ Len(content) + Len(data) <= MaxContent
    /\ Len(data) <= prependableBytes
    /\ readerIndex' = readerIndex - Len(data)
    /\ buffer' = CopyTo(buffer, readerIndex - Len(data), data)
    /\ content' = data \o content
    /\ UNCHANGED writerIndex

\* readFd: readv fills the writable bytes and then the stack buffer, whose
\* part is appended.  A failing read changes nothing.
ReadFd(data) ==
    LET writable == Len(buffer) - writerIndex
    IN  /\ Len(content) + Len(data) <= MaxContent
        /\ Len(data) <= writable + ExtraBuf
        /\ IF Len(data) <= writable
             THEN Become([b |-> CopyTo(buffer, writerIndex, data), r |-> readerIndex,
                          w |-> writerIndex + Len(data)])
             ELSE Become(Appended(CopyTo(buffer, writerIndex, SubSeq(data, 1, writable)),
                                  readerIndex, Len(buffer),
                                  SubSeq(data, writable + 1, Len(data))))
        /\ content' = content \o data

\* shrink(reserve): the readable bytes move to kCheapPrepend of a new vector,
\* the indices stay.
Shrink(reserve) ==
    /\ buffer' = CopyTo(Zeros(kCheapPrepend + readableBytes + reserve), kCheapPrepend,
                        SubSeq(buffer, readerIndex + 1, writerIndex))
    /\ UNCHANGED <<readerIndex, writerIndex, content>>

Next ==
    \/ \E data \in Strings : AppendBytes(data) \/ Prepend(data) \/ ReadFd(data)
    \/ \E len \in 0 .. MaxContent : Retrieve(len)
    \/ RetrieveAll

Spec == Init /\ [][Next]_vars

\* With shrink, which nothing in the library calls.
SpecWithShrink == Init /\ [][Next \/ \E n \in 0 .. MaxLen : Shrink(n)]_vars

-----------------------------------------------------------------------------
\* The values the fields take.
TypeOK ==
    /\ buffer \in Seq(Byte)
    /\ readerIndex \in Nat
    /\ writerIndex \in Nat
    /\ content \in Seq(Byte)

\* The layout Buffer.h draws: 0 <= readerIndex <= writerIndex <= size, so that
\* the unsigned differences readableBytes() and writableBytes() do not wrap.
Layout == readerIndex <= writerIndex /\ writerIndex <= Len(buffer)

\* The readable bytes are the ones appended, read and prepended, in order and
\* without those retrieved, wherever makeSpace has moved them.
ContentIsQueue == SubSeq(buffer, readerIndex + 1, writerIndex) = content

\* makeSpace moves the readable bytes only when that moves them towards the
\* front, as it asserts: std::copy may then work on the overlapping ranges.
MoveIsForward ==
    \A len \in 0 .. MaxLen :
        Len(buffer) - writerIndex < len
            /\ ~MustGrow(Len(buffer), readerIndex, writerIndex, len)
        => kCheapPrepend < readerIndex

=============================================================================
