---------------------------- MODULE BufferProofs ----------------------------
(***************************************************************************)
(* Buffer for every size, header room and string length: the indices stay  *)
(* in order and the bytes between them are the queue the user expects.     *)
(***************************************************************************)
EXTENDS Buffer, SequenceTheorems, TLAPS

\* The vector b with indices r and w holds the queue q; it has not become
\* smaller than the header room to which retrieveAll resets the indices.
Holds(b, r, w, q) ==
    /\ b \in Seq(Byte) /\ q \in Seq(Byte)
    /\ r \in Nat /\ w \in Nat
    /\ w = r + Len(q) /\ w <= Len(b) /\ kCheapPrepend <= Len(b)
    /\ \A i \in 1 .. Len(q) : b[r + i] = q[i]

\* The inductive invariant.
IInv == Holds(buffer, readerIndex, writerIndex, content)

-----------------------------------------------------------------------------
\* n fresh bytes are a sequence of length n.
LEMMA ZerosProperties ==
    ASSUME NEW n \in Nat
    PROVE  Zeros(n) \in Seq(Byte) /\ Len(Zeros(n)) = n
<1>1. Zeros(n) \in [1 .. n -> Byte]
  BY ByteAssumption, Zenon DEF Zeros
<1>2. Zeros(n) \in Seq(Byte)
  BY <1>1, SeqDef, Zenon
<1> QED BY <1>1, <1>2, LenProperties

\* std::copy changes the bytes of its target range and no others.
LEMMA CopyToProperties ==
    ASSUME NEW b \in Seq(Byte), NEW pos \in Nat, NEW data \in Seq(Byte)
    PROVE  /\ CopyTo(b, pos, data) \in Seq(Byte)
           /\ Len(CopyTo(b, pos, data)) = Len(b)
           /\ \A i \in 1 .. Len(b) : CopyTo(b, pos, data)[i] =
                 IF pos < i /\ i <= pos + Len(data) THEN data[i - pos] ELSE b[i]
<1>1. /\ Len(b) \in Nat /\ \A i \in 1 .. Len(b) : b[i] \in Byte
      /\ Len(data) \in Nat /\ \A i \in 1 .. Len(data) : data[i] \in Byte
  BY LenProperties, ElementOfSeq, Zenon
<1>2. CopyTo(b, pos, data) \in [1 .. Len(b) -> Byte]
  <2> SUFFICES ASSUME NEW i \in 1 .. Len(b), pos < i, i <= pos + Len(data)
               PROVE  data[i - pos] \in Byte
    BY <1>1, Zenon DEF CopyTo
  <2>1. i - pos \in 1 .. Len(data)
    BY <1>1
  <2> QED BY <1>1, <2>1, Zenon
<1>3. CopyTo(b, pos, data) \in Seq(Byte)
  BY <1>1, <1>2, SeqDef, Zenon
<1>4. Len(CopyTo(b, pos, data)) = Len(b)
  BY <1>1, <1>2, <1>3, LenProperties
<1> QED BY <1>3, <1>4, Zenon DEF CopyTo

\* Equal queues, seen as a subsequence of the vector.
LEMMA HoldsSubSeq ==
    ASSUME NEW b, NEW r, NEW w, NEW q, Holds(b, r, w, q)
    PROVE  SubSeq(b, r + 1, w) = q
<1>1. /\ b \in Seq(Byte) /\ q \in Seq(Byte) /\ r \in Nat /\ w \in Nat
      /\ w = r + Len(q) /\ w <= Len(b) /\ Len(b) \in Nat /\ Len(q) \in Nat
      /\ kCheapPrepend <= Len(b)
      /\ \A i \in 1 .. Len(q) : b[r + i] = q[i]
  BY LenProperties, Zenon DEF Holds
<1>2. \A i \in r + 1 .. w : b[i] \in Byte
  BY <1>1, ElementOfSeq
<1>3. /\ SubSeq(b, r + 1, w) \in Seq(Byte)
      /\ Len(SubSeq(b, r + 1, w)) = IF r + 1 <= w THEN w - (r + 1) + 1 ELSE 0
      /\ \A i \in 1 .. w - (r + 1) + 1 : SubSeq(b, r + 1, w)[i] = b[(r + 1) + i - 1]
  BY <1>1, <1>2, SubSeqProperties
<1>4. Len(SubSeq(b, r + 1, w)) = Len(q)
  BY <1>1, <1>3
<1>5. \A i \in 1 .. Len(q) : SubSeq(b, r + 1, w)[i] = q[i]
  <2> TAKE i \in 1 .. Len(q)
  <2>1. i \in 1 .. w - (r + 1) + 1 /\ (r + 1) + i - 1 = r + i
    BY <1>1
  <2> QED BY <1>1, <1>3, <2>1, Zenon
<1> QED BY <1>1, <1>3, <1>4, <1>5, SeqEqual, Zenon

\* ensureWritableBytes keeps the queue and makes the room asked for, whether it
\* does nothing, grows the vector or moves the bytes to the front.
LEMMA EnsureWritableProperties ==
    ASSUME NEW b, NEW r, NEW w, NEW q, Holds(b, r, w, q), NEW len \in Nat
    PROVE  LET s == EnsureWritableBytes(b, r, w, len)
           IN  Holds(s.b, s.r, s.w, q) /\ s.w + len <= Len(s.b)
<1> DEFINE s == EnsureWritableBytes(b, r, w, len)
<1>1. /\ b \in Seq(Byte) /\ q \in Seq(Byte) /\ r \in Nat /\ w \in Nat
      /\ w = r + Len(q) /\ w <= Len(b) /\ Len(b) \in Nat /\ Len(q) \in Nat
      /\ kCheapPrepend <= Len(b)
      /\ \A i \in 1 .. Len(q) : b[r + i] = q[i]
  BY LenProperties, Zenon DEF Holds
<1>2. CASE Len(b) - w >= len
  <2>1. s = [b |-> b, r |-> r, w |-> w]
    BY <1>2, Zenon DEF EnsureWritableBytes
  <2> QED BY <1>1, <1>2, <2>1
<1>3. CASE ~(Len(b) - w >= len) /\ MustGrow(Len(b), r, w, len)
  <2> DEFINE n == w + len - Len(b)
             b2 == b \o Zeros(n)
  <2>1. s = [b |-> b2, r |-> r, w |-> w]
    BY <1>3, Zenon DEF EnsureWritableBytes
  <2>2. n \in Nat
    BY <1>1, <1>3
  <2> HIDE DEF n
  <2>3. /\ b2 \in Seq(Byte) /\ Len(b2) = Len(b) + n
        /\ \A i \in 1 .. Len(b) + n : b2[i] = IF i <= Len(b) THEN b[i] ELSE Zeros(n)[i - Len(b)]
    <3> DEFINE z == Zeros(n)
    <3>1. z \in Seq(Byte) /\ Len(z) = n
      BY <2>2, ZerosProperties, Zenon
    <3> HIDE DEF z
    <3>2. /\ b \o z \in Seq(Byte) /\ Len(b \o z) = Len(b) + Len(z)
          /\ \A i \in 1 .. Len(b) + Len(z) :
                (b \o z)[i] = IF i <= Len(b) THEN b[i] ELSE z[i - Len(b)]
      BY <1>1, <3>1, ConcatProperties, Zenon
    <3> QED BY <3>1, <3>2, Zenon DEF z
  <2> HIDE DEF b2
  <2>4. \A i \in 1 .. Len(q) : b2[r + i] = b[r + i]
    BY <1>1, <2>2, <2>3
  <2>5. Len(b2) = w + len
    BY <1>1, <2>3 DEF n
  <2>6. kCheapPrepend <= Len(b2) /\ w <= Len(b2) /\ w + len <= Len(b2)
    BY <1>1, <2>2, <2>3, <2>5, SizeAssumption
  <2>7. Holds(b2, r, w, q)
    BY <1>1, <2>3, <2>4, <2>6, Zenon DEF Holds
  <2> QED BY <2>1, <2>6, <2>7
<1>4. CASE ~(Len(b) - w >= len) /\ ~MustGrow(Len(b), r, w, len)
  <2> DEFINE b2 == CopyTo(b, kCheapPrepend, q)
             w2 == MovedWriter(r, w)
  <2>1. s = [b |-> b2, r |-> kCheapPrepend, w |-> w2]
    BY <1>4, HoldsSubSeq, Zenon DEF EnsureWritableBytes
  <2>2. w2 = kCheapPrepend + Len(q) /\ w2 + len <= Len(b)
    BY <1>1, <1>4, SizeAssumption DEF MustGrow, MovedWriter
  <2> HIDE DEF w2
  <2>3. /\ b2 \in Seq(Byte) /\ Len(b2) = Len(b)
        /\ \A i \in 1 .. Len(b) : b2[i] =
              IF kCheapPrepend < i /\ i <= kCheapPrepend + Len(q)
              THEN q[i - kCheapPrepend] ELSE b[i]
    BY <1>1, SizeAssumption, CopyToProperties, Zenon
  <2> HIDE DEF b2
  <2>4. ASSUME NEW i \in 1 .. Len(q) PROVE b2[kCheapPrepend + i] = q[i]
    <3>1. /\ kCheapPrepend + i \in 1 .. Len(b) /\ kCheapPrepend < kCheapPrepend + i
          /\ kCheapPrepend + i <= kCheapPrepend + Len(q)
          /\ (kCheapPrepend + i) - kCheapPrepend = i
      BY <1>1, <2>2, <2>4, SizeAssumption
    <3> QED BY <2>3, <3>1, Zenon
  <2>5. Holds(b2, kCheapPrepend, w2, q) /\ w2 + len <= Len(b2)
    BY <1>1, <2>2, <2>3, <2>4, SizeAssumption DEF Holds
  <2> QED BY <2>1, <2>5
<1> QED BY <1>2, <1>3, <1>4, Zenon

\* Bytes copied right behind the queue, where there is room, extend it.
LEMMA WriteBehind ==
    ASSUME NEW b, NEW r, NEW w, NEW q, Holds(b, r, w, q),
           NEW data \in Seq(Byte), w + Len(data) <= Len(b)
    PROVE  Holds(CopyTo(b, w, data), r, w + Len(data), q \o data)
<1> DEFINE b2 == CopyTo(b, w, data)
           q2 == q \o data
<1>1. /\ b \in Seq(Byte) /\ q \in Seq(Byte) /\ r \in Nat /\ w \in Nat
      /\ w = r + Len(q) /\ w <= Len(b) /\ Len(b) \in Nat /\ Len(q) \in Nat
      /\ kCheapPrepend <= Len(b)
      /\ \A i \in 1 .. Len(q) : b[r + i] = q[i]
      /\ Len(data) \in Nat
  BY LenProperties, Zenon DEF Holds
<1>2. /\ b2 \in Seq(Byte) /\ Len(b2) = Len(b)
      /\ \A i \in 1 .. Len(b) : b2[i] =
            IF w < i /\ i <= w + Len(data) THEN data[i - w] ELSE b[i]
  BY <1>1, CopyToProperties
<1>3. /\ q2 \in Seq(Byte) /\ Len(q2) = Len(q) + Len(data)
      /\ \A i \in 1 .. Len(q) + Len(data) :
            q2[i] = IF i <= Len(q) THEN q[i] ELSE data[i - Len(q)]
  BY <1>1, ConcatProperties
<1> HIDE DEF b2, q2
<1>4. ASSUME NEW i \in 1 .. Len(q2) PROVE b2[r + i] = q2[i]
  <2>1. i \in 1 .. Len(q) + Len(data) /\ r + i \in 1 .. Len(b)
    BY <1>1, <1>3, <1>4
  <2>2. CASE i <= Len(q)
    <3>1. ~(w < r + i) /\ i \in 1 .. Len(q)
      BY <1>1, <2>1, <2>2
    <3> QED BY <1>1, <1>2, <1>3, <2>1, <2>2, <3>1, Zenon
  <2>3. CASE ~(i <= Len(q))
    <3>1. w < r + i /\ r + i <= w + Len(data) /\ (r + i) - w = i - Len(q)
      BY <1>1, <2>1, <2>3
    <3> QED BY <1>2, <1>3, <2>1, <2>3, <3>1, Zenon
  <2> QED BY <2>2, <2>3, Zenon
<1>5. Holds(b2, r, w + Len(data), q2)
  BY <1>1, <1>2, <1>3, <1>4 DEF Holds
<1> QED BY <1>5, Zenon DEF b2, q2

\* append extends the queue by its data.
LEMMA AppendedProperties ==
    ASSUME NEW b, NEW r, NEW w, NEW q, Holds(b, r, w, q), NEW data \in Seq(Byte)
    PROVE  LET s == Appended(b, r, w, data) IN Holds(s.b, s.r, s.w, q \o data)
<1> DEFINE s == EnsureWritableBytes(b, r, w, Len(data))
<1>1. Len(data) \in Nat
  BY LenProperties, Zenon
<1>2. Holds(s.b, s.r, s.w, q) /\ s.w + Len(data) <= Len(s.b)
  BY <1>1, EnsureWritableProperties, Zenon
<1> HIDE DEF s
<1>3. Holds(CopyTo(s.b, s.w, data), s.r, s.w + Len(data), q \o data)
  BY <1>2, WriteBehind, Zenon
<1> QED BY <1>3, Zenon DEF Appended, s

-----------------------------------------------------------------------------
\* What the invariant says of the fields.
LEMMA IInvFacts ==
    ASSUME IInv
    PROVE  /\ TypeOK /\ Layout /\ kCheapPrepend <= Len(buffer)
           /\ writerIndex = readerIndex + Len(content)
           /\ Len(content) \in Nat /\ Len(buffer) \in Nat
           /\ \A i \in 1 .. Len(content) : buffer[readerIndex + i] = content[i]
<1>1. Len(content) \in Nat /\ Len(buffer) \in Nat
  BY LenProperties, Zenon DEF IInv, Holds
<1> QED BY <1>1 DEF IInv, Holds, TypeOK, Layout

LEMMA InitIInv == Init => IInv
<1> SUFFICES ASSUME Init PROVE IInv
  BY Zenon
<1>1. kCheapPrepend + kInitialSize \in Nat
  BY SizeAssumption
<1>2. buffer \in Seq(Byte) /\ Len(buffer) = kCheapPrepend + kInitialSize
  BY <1>1, ZerosProperties, Zenon DEF Init
<1>3. content = <<>> /\ content \in Seq(Byte) /\ Len(content) = 0
  BY DEF Init
<1> QED BY <1>2, <1>3, SizeAssumption DEF Init, IInv, Holds

\* The strings of the calls are sequences of bytes.
LEMMA StringsAreSeqs == \A data \in Strings : data \in Seq(Byte)
BY SizeAssumption, SeqDef DEF Strings

LEMMA AppendStep ==
    ASSUME IInv, NEW data \in Strings, AppendBytes(data) PROVE IInv'
<1>1. data \in Seq(Byte)
  BY StringsAreSeqs, Zenon
<1> DEFINE s == Appended(buffer, readerIndex, writerIndex, data)
<1>2. Holds(s.b, s.r, s.w, content \o data)
  BY <1>1, AppendedProperties, Zenon DEF IInv
<1> QED BY <1>2, Zenon DEF AppendBytes, Become, IInv

LEMMA RetrieveStep ==
    ASSUME IInv, NEW len \in Nat, Retrieve(len) PROVE IInv'
<1> DEFINE q2 == SubSeq(content, len + 1, Len(content))
<1>1. /\ len <= Len(content)
      /\ readerIndex' = readerIndex + len /\ content' = q2
      /\ buffer' = buffer /\ writerIndex' = writerIndex
  BY IInvFacts DEF Retrieve, readableBytes, TypeOK
<1>2. \A i \in len + 1 .. Len(content) : content[i] \in Byte
  BY IInvFacts, ElementOfSeq DEF TypeOK
<1>3. /\ q2 \in Seq(Byte)
      /\ Len(q2) = IF len + 1 <= Len(content) THEN Len(content) - (len + 1) + 1 ELSE 0
      /\ \A i \in 1 .. Len(content) - (len + 1) + 1 : q2[i] = content[(len + 1) + i - 1]
  BY <1>2, IInvFacts, SubSeqProperties
<1> HIDE DEF q2
<1>4. Len(q2) = Len(content) - len
  BY <1>1, <1>3, IInvFacts
<1>5. ASSUME NEW i \in 1 .. Len(q2) PROVE buffer[(readerIndex + len) + i] = q2[i]
  <2>1. /\ i \in 1 .. Len(content) - (len + 1) + 1 /\ (len + 1) + i - 1 = len + i
        /\ len + i \in 1 .. Len(content)
        /\ (readerIndex + len) + i = readerIndex + (len + i)
    BY <1>1, <1>4, <1>5, IInvFacts DEF TypeOK
  <2> QED BY <1>3, <2>1, IInvFacts, Zenon
<1>6. readerIndex + len \in Nat /\ writerIndex = (readerIndex + len) + Len(q2)
  BY <1>1, <1>4, IInvFacts DEF TypeOK
<1> QED BY <1>1, <1>3, <1>5, <1>6, IInvFacts, Zenon DEF IInv, Holds, TypeOK, Layout

LEMMA PrependStep ==
    ASSUME IInv, NEW data \in Strings, Prepend(data) PROVE IInv'
<1>1. data \in Seq(Byte) /\ Len(data) \in Nat
  BY StringsAreSeqs, LenProperties, Zenon
<1> DEFINE r2 == readerIndex - Len(data)
           b2 == CopyTo(buffer, r2, data)
           q2 == data \o content
<1>2. /\ r2 \in Nat /\ r2 + Len(data) = readerIndex
      /\ readerIndex' = r2 /\ buffer' = b2 /\ content' = q2
      /\ writerIndex' = writerIndex
  BY <1>1, IInvFacts DEF Prepend, prependableBytes, TypeOK
<1> HIDE DEF r2
<1>3. /\ b2 \in Seq(Byte) /\ Len(b2) = Len(buffer)
      /\ \A i \in 1 .. Len(buffer) : b2[i] =
            IF r2 < i /\ i <= r2 + Len(data) THEN data[i - r2] ELSE buffer[i]
  BY <1>1, <1>2, IInvFacts, CopyToProperties, Zenon DEF TypeOK
<1>4. /\ q2 \in Seq(Byte) /\ Len(q2) = Len(data) + Len(content)
      /\ \A i \in 1 .. Len(data) + Len(content) :
            q2[i] = IF i <= Len(data) THEN data[i] ELSE content[i - Len(data)]
  BY <1>1, IInvFacts, ConcatProperties, Zenon DEF TypeOK
<1> HIDE DEF b2, q2
<1>5. ASSUME NEW i \in 1 .. Len(q2) PROVE b2[r2 + i] = q2[i]
  <2>1. i \in 1 .. Len(data) + Len(content) /\ r2 + i \in 1 .. Len(buffer)
    BY <1>1, <1>2, <1>4, <1>5, IInvFacts DEF TypeOK, Layout
  <2>2. CASE i <= Len(data)
    <3>1. r2 < r2 + i /\ r2 + i <= r2 + Len(data) /\ (r2 + i) - r2 = i
      BY <1>1, <1>2, <2>1, <2>2
    <3> QED BY <1>3, <1>4, <2>1, <2>2, <3>1, Zenon
  <2>3. CASE ~(i <= Len(data))
    <3>1. /\ ~(r2 + i <= r2 + Len(data)) /\ i - Len(data) \in 1 .. Len(content)
          /\ r2 + i = readerIndex + (i - Len(data))
      BY <1>1, <1>2, <2>1, <2>3, IInvFacts
    <3> QED BY <1>3, <1>4, <2>1, <2>3, <3>1, IInvFacts, Zenon
  <2> QED BY <2>2, <2>3, Zenon
<1>6. writerIndex = r2 + Len(q2)
  BY <1>1, <1>2, <1>4, IInvFacts DEF TypeOK
<1> QED BY <1>2, <1>3, <1>4, <1>5, <1>6, IInvFacts, Zenon DEF IInv, Holds, TypeOK, Layout

LEMMA ReadFdStep ==
    ASSUME IInv, NEW data \in Strings, ReadFd(data) PROVE IInv'
<1> DEFINE writable == Len(buffer) - writerIndex
<1>1. /\ data \in Seq(Byte) /\ Len(data) \in Nat /\ writable \in Nat
      /\ content' = content \o data
  BY StringsAreSeqs, LenProperties, IInvFacts DEF ReadFd, TypeOK, Layout
<1>2. CASE Len(data) <= writable
  <2>1. writerIndex + Len(data) <= Len(buffer)
    BY <1>1, <1>2, IInvFacts DEF TypeOK
  <2>2. Holds(CopyTo(buffer, writerIndex, data), readerIndex, writerIndex + Len(data),
              content \o data)
    BY <1>1, <2>1, WriteBehind, Zenon DEF IInv
  <2> QED BY <1>1, <1>2, <2>2, Zenon DEF ReadFd, Become, IInv
<1>3. CASE ~(Len(data) <= writable)
  <2> DEFINE d1 == SubSeq(data, 1, writable)
             d2 == SubSeq(data, writable + 1, Len(data))
             b2 == CopyTo(buffer, writerIndex, d1)
             s == Appended(b2, readerIndex, Len(buffer), d2)
  <2>1. \A i \in 1 .. Len(data) : data[i] \in Byte
    BY <1>1, ElementOfSeq, Zenon
  <2>2. d1 \in Seq(Byte) /\ Len(d1) = writable
    <3>1. \A i \in 1 .. writable : data[i] \in Byte
      BY <1>1, <1>3, <2>1
    <3> QED BY <1>1, <3>1, SubSeqProperties
  <2>3. d2 \in Seq(Byte)
    <3>1. \A i \in writable + 1 .. Len(data) : data[i] \in Byte
      BY <1>1, <2>1
    <3> QED BY <1>1, <3>1, SubSeqProperties
  <2>4. d1 \o d2 = data
    <3> HIDE DEF writable
    <3>1. /\ 1 \in 1 .. Len(data) + 1 /\ writable \in 1 - 1 .. Len(data)
          /\ Len(data) \in writable .. Len(data)
      BY <1>1, <1>3
    <3>2. SubSeq(data, 1, writable) \o SubSeq(data, writable + 1, Len(data))
             = SubSeq(data, 1, Len(data))
      BY <1>1, <3>1, ConcatAdjacentSubSeq, Zenon
    <3> QED BY <1>1, <3>2, SubSeqFull, Zenon
  <2>5. Holds(b2, readerIndex, Len(buffer), content \o d1)
    <3> HIDE DEF d1
    <3>1. writerIndex + Len(d1) = Len(buffer)
      <4>1. writerIndex \in Nat /\ Len(buffer) \in Nat
        BY IInvFacts, Zenon DEF TypeOK
      <4> QED BY <2>2, <4>1
    <3>2. writerIndex + Len(d1) <= Len(buffer)
      BY <3>1, IInvFacts
    <3>3. Holds(b2, readerIndex, writerIndex + Len(d1), content \o d1)
      BY <2>2, <3>2, WriteBehind, Zenon DEF IInv
    <3> QED BY <3>1, <3>3, Zenon
  <2>6. Holds(s.b, s.r, s.w, (content \o d1) \o d2)
    <3> HIDE DEF d1, d2, b2
    <3> QED BY <2>3, <2>5, AppendedProperties, Zenon
  <2>7. (content \o d1) \o d2 = content \o data
    <3>1. content \in Seq(Byte)
      BY IInvFacts, Zenon DEF TypeOK
    <3> HIDE DEF d1, d2
    <3>2. \A x, y, z \in Seq(Byte) : (x \o y) \o z = x \o (y \o z)
      BY ConcatAssociative
    <3>3. d1 \in Seq(Byte) /\ d2 \in Seq(Byte)
      BY <2>2, <2>3, Zenon
    <3>4. (content \o d1) \o d2 = content \o (d1 \o d2)
      BY <3>1, <3>2, <3>3, Zenon
    <3> QED BY <3>4, <2>4, Zenon
  <2>8. buffer' = s.b /\ readerIndex' = s.r /\ writerIndex' = s.w
    BY <1>3, Zenon DEF ReadFd, Become
  <2> HIDE DEF s
  <2> QED BY <1>1, <2>6, <2>7, <2>8, Zenon DEF IInv
<1> QED BY <1>2, <1>3, Zenon

LEMMA NextIInv == IInv /\ [Next]_vars => IInv'
<1> SUFFICES ASSUME IInv, [Next]_vars PROVE IInv'
  BY Zenon
<1>1. CASE RetrieveAll
  <2>1. content' = <<>> /\ content' \in Seq(Byte) /\ Len(content') = 0
    BY <1>1 DEF RetrieveAll
  <2> QED BY <1>1, <2>1, IInvFacts, SizeAssumption DEF RetrieveAll, IInv, Holds, TypeOK
<1>2. CASE UNCHANGED vars
  BY <1>2, Zenon DEF vars, IInv, Holds
<1>3. ASSUME NEW len \in 0 .. MaxContent, Retrieve(len) PROVE IInv'
  BY <1>3, RetrieveStep, SizeAssumption
<1> QED
  BY <1>1, <1>2, <1>3, AppendStep, PrependStep, ReadFdStep, Zenon DEF Next

THEOREM Invariance == Spec => []IInv
BY InitIInv, NextIInv, PTL DEF Spec

\* The fields of a Buffer always have their types.
THEOREM TypeCorrect == Spec => []TypeOK
<1>1. IInv => TypeOK
  BY IInvFacts, Zenon
<1> QED BY Invariance, <1>1, PTL

\* The layout drawn in Buffer.h holds for every size and every sequence of
\* appends, reads, prepends and retrieves.
THEOREM LayoutCorrect == Spec => []Layout
<1>1. IInv => Layout
  BY IInvFacts, Zenon
<1> QED BY Invariance, <1>1, PTL

\* The readable bytes are exactly the queue the user expects.
THEOREM ContentCorrect == Spec => []ContentIsQueue
<1>1. IInv => ContentIsQueue
  BY HoldsSubSeq, Zenon DEF IInv, ContentIsQueue
<1> QED BY Invariance, <1>1, PTL

\* The assertion of makeSpace holds: the readable bytes only move forward.
THEOREM MoveCorrect == Spec => []MoveIsForward
<1>1. IInv => MoveIsForward
  BY IInvFacts, SizeAssumption DEF TypeOK, Layout, MoveIsForward, MustGrow
<1> QED BY Invariance, <1>1, PTL

=============================================================================
