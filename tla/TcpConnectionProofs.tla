------------------------ MODULE TcpConnectionProofs ------------------------
(***************************************************************************)
(* TcpConnection for any number of messages: the life of a connection and  *)
(* its channel, and the order of its bytes.                                *)
(***************************************************************************)
EXTENDS TcpConnection, SequenceTheorems, TLAPS

Functor == Shared \cup Bare
Callback == {"close", "error", "read", "write"}
Closing == {"close", "read"}    \* the callbacks that may call handleClose
Up == {"kConnected", "kDisconnecting"}

TypeOK ==
    /\ pc \in {"poll", "handle", "batch"}
    /\ cbs \in Seq(Callback)
    /\ functors \in Seq(Functor) /\ batch \in Seq(Functor) /\ held \subseteq Shared
    /\ state \in {"none", "kConnected", "kDisconnecting", "kDisconnected"}
    /\ events \subseteq {"in", "out"}
    /\ registered \in BOOLEAN /\ watched \in BOOLEAN /\ inMap \in BOOLEAN
    /\ elsewhere \in BOOLEAN /\ userRef \in BOOLEAN /\ peerClosed \in BOOLEAN
    /\ caller \in Bare \cup {"none"}
    /\ outputBuffer \in Seq(Nat) /\ wire \in Seq(Nat) /\ submitted \in Seq(Nat)
    /\ fin \in BOOLEAN

\* At most one element of s is in F.
Once(F, s) == \A i, j \in DOMAIN s : s[i] \in F /\ s[j] \in F => i = j

\* connectDestroyed is in one of the two queues of the loop.
Destroying == "connectDestroyed" \in Range(functors) \cup Range(batch)

\* From the map to connectDestroyed the channel is registered; connectDestroyed is
\* queued once, when the connection leaves the map, which a callback does only while
\* the connection is still there, and at most one of those handleEvent has to call.
Life ==
    /\ inMap \/ Destroying <=> registered
    /\ ~(inMap /\ Destroying)
    /\ Once({"connectDestroyed"}, functors) /\ Once({"connectDestroyed"}, batch)
    /\ ~("connectDestroyed" \in Range(functors) /\ "connectDestroyed" \in Range(batch))
    /\ watched => inMap
    /\ registered => state \in Up
    /\ state = "kConnected" => registered
    /\ cbs # <<>> => pc = "handle" /\ registered
    /\ pc # "batch" => batch = <<>>
    /\ Range(cbs) \cap Closing # {} => inMap
    /\ Once(Closing, cbs)

\* Before the accept nothing has happened; without a second thread nothing is queued
\* with a bare pointer.
Calls ==
    /\ state = "none" => /\ functors = <<>> /\ batch = <<>> /\ caller = "none"
                         /\ ~userRef /\ outputBuffer = <<>>
    /\ ~elsewhere => caller = "none" /\ (Range(functors) \cup Range(batch)) \cap Bare = {}

\* What is in the output buffer is waited for; after the end of the stream, nothing is.
Output ==
    /\ wire \o outputBuffer = submitted
    /\ inMap /\ outputBuffer # <<>> => "out" \in events
    /\ fin /\ ~elsewhere => state \notin {"none", "kConnected"}
    /\ fin /\ inMap /\ ~elsewhere => outputBuffer = <<>>

IInv == TypeOK /\ Life /\ Calls /\ Output /\ AssertionsHold

-----------------------------------------------------------------------------
(* Queues.                                                                 *)

\* queueInLoop: the new functor is the last.
LEMMA AppendFacts ==
    ASSUME NEW S, NEW s \in Seq(S), NEW e \in S
    PROVE  /\ Append(s, e) \in Seq(S)
           /\ Range(Append(s, e)) = Range(s) \cup {e}
           /\ \A F : Once(F, s) /\ (e \in F => Range(s) \cap F = {}) => Once(F, Append(s, e))
<1> DEFINE t == Append(s, e)
<1>1. /\ t \in Seq(S) /\ DOMAIN t = 1 .. Len(s) + 1 /\ DOMAIN s = 1 .. Len(s) /\ Len(s) \in Nat
      /\ t[Len(s) + 1] = e /\ \A i \in 1 .. Len(s) : t[i] = s[i]
  BY AppendProperties, LenProperties
<1> HIDE DEF t
<1>2. \A x : x \in Range(t) <=> x \in Range(s) \cup {e}
  BY <1>1 DEF Range
<1>3. ASSUME NEW F, Once(F, s), e \in F => Range(s) \cap F = {} PROVE Once(F, t)
  <2> SUFFICES ASSUME NEW i \in DOMAIN t, NEW j \in DOMAIN t, t[i] \in F, t[j] \in F PROVE i = j
    BY Zenon DEF Once
  <2>1. CASE i \in DOMAIN s /\ j \in DOMAIN s
    BY <1>1, <1>3, <2>1, Zenon DEF Once
  <2>2. CASE i \in DOMAIN s /\ j = Len(s) + 1
    BY <1>1, <1>3, <2>2, Zenon DEF Range
  <2>3. CASE i = Len(s) + 1 /\ j \in DOMAIN s
    BY <1>1, <1>3, <2>3, Zenon DEF Range
  <2> QED BY <1>1, <2>1, <2>2, <2>3
<1> QED BY <1>1, <1>2, <1>3, Zenon DEF t

\* The loop takes the first functor, or handleEvent the next callback.
LEMMA TailFacts ==
    ASSUME NEW S, NEW s \in Seq(S), s # <<>>
    PROVE  /\ Tail(s) \in Seq(S) /\ Head(s) \in S
           /\ Range(s) = Range(Tail(s)) \cup {Head(s)}
           /\ \A F : Once(F, s) => /\ Once(F, Tail(s))
                                   /\ Head(s) \in F => Range(Tail(s)) \cap F = {}
<1> DEFINE t == Tail(s)
<1>1. /\ t \in Seq(S) /\ Len(t) = Len(s) - 1 /\ Head(s) = s[1]
      /\ \A i \in 1 .. Len(t) : t[i] = s[i + 1]
      /\ DOMAIN t = 1 .. Len(t) /\ DOMAIN s = 1 .. Len(s) /\ Len(s) \in Nat \ {0}
      /\ Head(s) \in S
  BY HeadTailProperties, LenProperties, EmptySeq
<1> HIDE DEF t
<1>2. /\ \A i \in DOMAIN t : t[i] = s[i + 1] /\ i + 1 \in DOMAIN s /\ i + 1 # 1
      /\ \A i \in DOMAIN s : i = 1 \/ (i - 1 \in DOMAIN t /\ s[i] = t[i - 1])
      /\ 1 \in DOMAIN s
  BY <1>1
<1>3. \A x : x \in Range(s) <=> x \in Range(t) \cup {s[1]}
  BY <1>2 DEF Range
<1>4. ASSUME NEW F, Once(F, s) PROVE Once(F, t) /\ (s[1] \in F => Range(t) \cap F = {})
  <2>1. Once(F, t)
    <3> SUFFICES ASSUME NEW i \in DOMAIN t, NEW j \in DOMAIN t, t[i] \in F, t[j] \in F PROVE i = j
      BY Zenon DEF Once
    <3>1. i + 1 = j + 1
      BY <1>2, <1>4, Zenon DEF Once
    <3> QED BY <1>1, <3>1
  <2>2. s[1] \in F => Range(t) \cap F = {}
    BY <1>2, <1>4 DEF Once, Range
  <2> QED BY <2>1, <2>2, Zenon
<1> QED BY <1>1, <1>3, <1>4, Zenon DEF t

LEMMA EmptyFacts ==
    /\ Range(<<>>) = {}
    /\ \A F : Once(F, <<>>)
BY DEF Range, Once

\* Two stretches of callbacks, of which at most one has an element of F.
LEMMA ConcatFacts ==
    ASSUME NEW S, NEW F, NEW s \in Seq(S), NEW t \in Seq(S), Once(F, s), Once(F, t),
           Range(s) \cap F = {} \/ Range(t) \cap F = {}
    PROVE  s \o t \in Seq(S) /\ Once(F, s \o t) /\ Range(s \o t) = Range(s) \cup Range(t)
<1> DEFINE u == s \o t
<1>1. /\ u \in Seq(S) /\ DOMAIN u = 1 .. Len(s) + Len(t)
      /\ DOMAIN s = 1 .. Len(s) /\ DOMAIN t = 1 .. Len(t) /\ Len(s) \in Nat /\ Len(t) \in Nat
      /\ \A i \in 1 .. Len(s) + Len(t) : u[i] = IF i <= Len(s) THEN s[i] ELSE t[i - Len(s)]
  BY ConcatProperties, LenProperties
<1>2. Range(u) = Range(s) \cup Range(t)
  BY RangeConcatenation
<1> HIDE DEF u
<1>3. Once(F, u)
  <2> SUFFICES ASSUME NEW i \in DOMAIN u, NEW j \in DOMAIN u, u[i] \in F, u[j] \in F PROVE i = j
    BY Zenon DEF Once
  <2>1. CASE i <= Len(s) /\ j <= Len(s)
    BY <1>1, <2>1 DEF Once
  <2>2. CASE ~(i <= Len(s)) /\ ~(j <= Len(s))
    <3>1. i - Len(s) \in DOMAIN t /\ j - Len(s) \in DOMAIN t
      BY <1>1, <2>2
    <3>2. i - Len(s) = j - Len(s)
      BY <1>1, <2>2, <3>1, Zenon DEF Once
    <3> QED BY <1>1, <3>2
  <2>3. CASE i <= Len(s) /\ ~(j <= Len(s))
    <3>1. i \in DOMAIN s /\ s[i] \in F
      BY <1>1, <2>3
    <3>2. j - Len(s) \in DOMAIN t /\ t[j - Len(s)] = u[j]
      BY <1>1, <2>3
    <3> QED BY <3>1, <3>2, Zenon DEF Range
  <2>4. CASE ~(i <= Len(s)) /\ j <= Len(s)
    <3>1. j \in DOMAIN s /\ s[j] \in F
      BY <1>1, <2>4
    <3>2. i - Len(s) \in DOMAIN t /\ t[i - Len(s)] \in F
      BY <1>1, <2>4
    <3> QED BY <3>1, <3>2, Zenon DEF Range
  <2> QED BY <2>1, <2>2, <2>3, <2>4, Zenon
<1> QED BY <1>1, <1>2, <1>3, Zenon DEF u

\* handleEvent: at most one of the callbacks it calls may close.
LEMMA CallbacksFacts ==
    ASSUME NEW r
    PROVE  Callbacks(r) \in Seq(Callback) /\ Once(Closing, Callbacks(r))
<1> DEFINE c == IF "hup" \in r /\ "in" \notin r THEN <<"close">> ELSE <<>>
           e == IF "err" \in r THEN <<"error">> ELSE <<>>
           i == IF "in" \in r THEN <<"read">> ELSE <<>>
           w == IF "out" \in r THEN <<"write">> ELSE <<>>
<1>1. \A x : x \in Callback => <<x>> \in Seq(Callback) /\ Range(<<x>>) = {x} /\ Once(Closing, <<x>>)
  BY DEF Range, Once
<1>2. /\ c \in Seq(Callback) /\ e \in Seq(Callback) /\ i \in Seq(Callback) /\ w \in Seq(Callback)
      /\ Once(Closing, c) /\ Once(Closing, e) /\ Once(Closing, i) /\ Once(Closing, w)
  <2>1. "close" \in Callback /\ "error" \in Callback /\ "read" \in Callback /\ "write" \in Callback
    BY Zenon DEF Callback
  <2> QED BY <1>1, <2>1, EmptyFacts, EmptySeq, Zenon
<1>3. /\ Range(e) \in {{}, {"error"}} /\ Range(w) \in {{}, {"write"}}
      /\ Range(c) = {} \/ Range(i) = {}
  BY EmptyFacts DEF Range
<1>4. /\ Range(e) \cap Closing = {} /\ Range(w) \cap Closing = {}
      /\ Range(c) \cap Closing = {} \/ Range(i) \cap Closing = {}
  BY <1>3, Zenon DEF Closing
<1> HIDE DEF c, e, i, w
<1>5. /\ c \o e \in Seq(Callback) /\ Once(Closing, c \o e)
      /\ Range(c \o e) \cap Closing = {} \/ Range(i) \cap Closing = {}
  BY <1>2, <1>4, ConcatFacts
<1>6. c \o e \o i \in Seq(Callback) /\ Once(Closing, c \o e \o i)
  BY <1>2, <1>5, ConcatFacts, Zenon
<1>7. c \o e \o i \o w \in Seq(Callback) /\ Once(Closing, c \o e \o i \o w)
  BY <1>2, <1>4, <1>6, ConcatFacts, Zenon
<1> QED BY <1>7, Zenon DEF Callbacks, c, e, i, w

LEMMA NoCallbacks == Callbacks({}) = <<>>
<1>1. <<>> \o <<>> = <<>>
  BY ConcatEmptySeq, EmptySeq, Zenon
<1> QED BY <1>1, Zenon DEF Callbacks

-----------------------------------------------------------------------------
(* Bytes.                                                                  *)

\* write(2) takes the first n bytes of data; the others are left.
LEMMA Split ==
    ASSUME NEW S, NEW data \in Seq(S), NEW n \in 0 .. Len(data)
    PROVE  /\ SubSeq(data, 1, n) \in Seq(S) /\ Unwritten(data, n) \in Seq(S)
           /\ SubSeq(data, 1, n) \o Unwritten(data, n) = data
           /\ n = 0 => SubSeq(data, 1, n) = <<>> /\ Unwritten(data, n) = data
           /\ n = Len(data) <=> Unwritten(data, n) = <<>>
<1>1. Len(data) \in Nat /\ \A i \in 1 .. Len(data) : data[i] \in S
  BY LenProperties, Zenon
<1>2. SubSeq(data, 1, n) \in Seq(S)
  BY <1>1, SubSeqProperties
<1>3. Unwritten(data, n) \in Seq(S) /\ Len(Unwritten(data, n)) = Len(data) - n
  <2>1. n + 1 \in Int /\ Len(data) \in Int /\ \A i \in n + 1 .. Len(data) : data[i] \in S
    BY <1>1
  <2>2. /\ SubSeq(data, n + 1, Len(data)) \in Seq(S)
        /\ Len(SubSeq(data, n + 1, Len(data))) = IF n + 1 <= Len(data) THEN Len(data) - (n + 1) + 1 ELSE 0
    BY <2>1, SubSeqProperties
  <2> QED BY <1>1, <2>2 DEF Unwritten
<1>4. SubSeq(data, 1, n) \o SubSeq(data, n + 1, Len(data)) = SubSeq(data, 1, Len(data))
  <2>1. 1 \in 1 .. Len(data) + 1 /\ n \in 1 - 1 .. Len(data) /\ Len(data) \in n .. Len(data)
    BY <1>1
  <2> QED BY <2>1, ConcatAdjacentSubSeq, Zenon
<1>5. SubSeq(data, 1, Len(data)) = data
  BY SubSeqFull, Zenon
<1>6. n = 0 => SubSeq(data, 1, n) = <<>> /\ Unwritten(data, n) = data
  BY <1>5, SubSeqEmpty DEF Unwritten
<1>7. n = Len(data) <=> Unwritten(data, n) = <<>>
  BY <1>1, <1>3, EmptySeq
<1> QED BY <1>2, <1>3, <1>4, <1>5, <1>6, <1>7, Zenon DEF Unwritten

LEMMA BytesAssociative ==
    ASSUME NEW s \in Seq(Nat), NEW t \in Seq(Nat), NEW u \in Seq(Nat)
    PROVE  (s \o t) \o u = s \o (t \o u)
BY ONLY ConcatAssociative, SMTT(30)

LEMMA MessageFacts ==
    ASSUME TypeOK
    PROVE  Message \in Seq(Nat) /\ Len(Message) = 2
BY LenProperties DEF TypeOK, Message

-----------------------------------------------------------------------------
(* The steps.                                                              *)

LEMMA InitIInv == Init => IInv
<1> SUFFICES ASSUME Init PROVE IInv
  BY Zenon
<1>1. TypeOK
  BY EmptySeq, Zenon DEF Init, TypeOK
<1>2. Life
  BY EmptyFacts, Zenon DEF Init, Life, Destroying
<1>3. Calls
  BY EmptyFacts, Zenon DEF Init, Calls
<1>4. Output
  BY ConcatEmptySeq, EmptySeq, Zenon DEF Init, Output
<1> QED BY <1>1, <1>2, <1>3, <1>4, Zenon DEF IInv, Init, AssertionsHold

LEMMA AcceptStep == ASSUME IInv, Accept PROVE IInv'
<1> USE DEF IInv, loopVars, dataVars
<1>1. TypeOK'
  BY Zenon DEF Accept, TypeOK
<1>2. Life'
  BY EmptyFacts, Zenon DEF Accept, Life, Destroying, Calls, Up
<1>3. Calls'
  BY Zenon DEF Accept, Calls
<1>4. Output'
  BY Zenon DEF Accept, Output, Calls
<1> QED BY <1>1, <1>2, <1>3, <1>4, Zenon DEF Accept, AssertionsHold

LEMMA PollStep == ASSUME IInv, NEW r, Poll(r) PROVE IInv'
<1> USE DEF IInv, connVars, dataVars, userVars
<1>1. /\ cbs' \in Seq(Callback) /\ Once(Closing, cbs')
      /\ cbs' # <<>> => registered /\ watched
  BY CallbacksFacts, NoCallbacks, Zenon DEF Poll
<1>2. TypeOK'
  BY <1>1 DEF Poll, TypeOK
<1>3. Life'
  <2>1. Range(cbs') \cap Closing # {} => cbs' # <<>>
    BY EmptyFacts, Zenon
  <2> QED BY <1>1, <2>1, Zenon DEF Poll, Life, Destroying
<1>4. Calls' /\ Output' /\ AssertionsHold'
  BY Zenon DEF Poll, Calls, Output, AssertionsHold
<1> QED BY <1>2, <1>3, <1>4, Zenon

LEMMA HandleReadOrErrorStep == ASSUME IInv, HandleReadOrError PROVE IInv'
<1> USE DEF IInv, connVars, dataVars, userVars
<1>1. /\ cbs' \in Seq(Callback) /\ Range(cbs') \subseteq Range(cbs) /\ Once(Closing, cbs')
      /\ cbs # <<>>
  BY TailFacts DEF HandleReadOrError, NextCallback, TypeOK, Life
<1>2. TypeOK'
  BY <1>1, ZenonT(30) DEF HandleReadOrError, NextCallback, TypeOK
<1>3. Life'
  BY <1>1, Zenon DEF HandleReadOrError, NextCallback, Life, Destroying
<1>4. Calls' /\ Output' /\ AssertionsHold'
  BY Zenon DEF HandleReadOrError, NextCallback, Calls, Output, AssertionsHold
<1> QED BY <1>2, <1>3, <1>4, Zenon

LEMMA HandleCloseStep == ASSUME IInv, HandleClose PROVE IInv'
<1> USE DEF IInv, connVars, dataVars, userVars
<1>1. /\ cbs' \in Seq(Callback) /\ Range(cbs') \cap Closing = {} /\ Once(Closing, cbs')
      /\ cbs # <<>> /\ Range(cbs) \cap Closing # {}
  <2>1. cbs \in Seq(Callback) /\ cbs # <<>> /\ Head(cbs) \in Closing /\ Once(Closing, cbs)
    BY Zenon DEF HandleClose, NextCallback, TypeOK, Life, Closing
  <2> QED BY <2>1, TailFacts DEF HandleClose, NextCallback
<1>2. /\ inMap /\ registered /\ ~Destroying /\ state \in Up /\ pc = "handle" /\ batch = <<>>
      /\ Range(functors) \cap {"connectDestroyed"} = {}
  BY <1>1, Zenon DEF Life, Destroying
<1>3. /\ functors' \in Seq(Functor) /\ Range(functors') = Range(functors) \cup {"connectDestroyed"}
      /\ Once({"connectDestroyed"}, functors')
  <2>1. "connectDestroyed" \in Functor /\ functors \in Seq(Functor) /\ Once({"connectDestroyed"}, functors)
    BY Zenon DEF Functor, Shared, TypeOK, Life
  <2> QED BY <1>2, <2>1, AppendFacts DEF HandleClose, RemoveConnection
<1>4. TypeOK'
  BY <1>1, <1>3, Zenon DEF HandleClose, NextCallback, RemoveConnection, DisableAll, TypeOK
<1>5. Life'
  BY <1>1, <1>2, <1>3, EmptyFacts, Zenon DEF HandleClose, NextCallback, RemoveConnection, DisableAll, Life, Destroying
<1>6. Calls'
  BY <1>2, <1>3, Zenon DEF HandleClose, NextCallback, RemoveConnection, Calls, Up, Bare
<1>7. Output'
  BY Zenon DEF HandleClose, RemoveConnection, Output
<1>8. AssertionsHold'
  BY <1>2, Zenon DEF HandleClose, Up, AssertionsHold
<1> QED BY <1>4, <1>5, <1>6, <1>7, <1>8, Zenon

\* functors' is functors, or has one more functor, a writeComplete.
LEMMA WriteCompleteFacts ==
    ASSUME IInv, functors' = functors \/ functors' = Append(functors, "writeComplete")
    PROVE  /\ functors' \in Seq(Functor) /\ Once({"connectDestroyed"}, functors')
           /\ "connectDestroyed" \in Range(functors') <=> "connectDestroyed" \in Range(functors)
           /\ Range(functors') \cap Bare = Range(functors) \cap Bare
<1>1. "writeComplete" \in Functor /\ "writeComplete" # "connectDestroyed" /\ "writeComplete" \notin Bare
  BY Zenon DEF Functor, Shared, Bare
<1>2. functors \in Seq(Functor) /\ Once({"connectDestroyed"}, functors)
  BY Zenon DEF IInv, TypeOK, Life
<1>3. CASE functors' = functors
  BY <1>2, <1>3, Zenon
<1>4. CASE functors' = Append(functors, "writeComplete")
  <2>1. /\ functors' \in Seq(Functor) /\ Once({"connectDestroyed"}, functors')
        /\ Range(functors') = Range(functors) \cup {"writeComplete"}
    BY <1>1, <1>2, <1>4, AppendFacts
  <2> QED BY <1>1, <2>1, Zenon
<1> QED BY <1>3, <1>4, Zenon

LEMMA HandleWriteStep == ASSUME IInv, NEW n \in Nat, HandleWrite(n) PROVE IInv'
<1> USE DEF IInv, userVars
<1> DEFINE left == Unwritten(outputBuffer, n)
           head == SubSeq(outputBuffer, 1, n)
<1>1. /\ cbs' \in Seq(Callback) /\ Range(cbs') \subseteq Range(cbs) /\ Once(Closing, cbs')
      /\ cbs # <<>> /\ pc = "handle" /\ registered
  BY TailFacts DEF HandleWrite, NextCallback, TypeOK, Life
<1>2. /\ functors' \in Seq(Functor) /\ Once({"connectDestroyed"}, functors')
      /\ "connectDestroyed" \in Range(functors') <=> "connectDestroyed" \in Range(functors)
      /\ Range(functors') \cap Bare = Range(functors) \cap Bare
  <2>1. functors' = functors \/ functors' = Append(functors, "writeComplete")
    BY Zenon DEF HandleWrite
  <2> QED BY <2>1, WriteCompleteFacts, Zenon
<1>3. /\ head \in Seq(Nat) /\ left \in Seq(Nat) /\ head \o left = outputBuffer
      /\ n = 0 => head = <<>> /\ left = outputBuffer
  <2>1. outputBuffer \in Seq(Nat) /\ n \in 0 .. Len(outputBuffer)
    BY LenProperties DEF TypeOK, HandleWrite
  <2> QED BY <2>1, Split, Zenon
<1>4. /\ wire' = wire \o head /\ outputBuffer' = left /\ submitted' = submitted
      /\ fin => n = 0
      /\ fin' <=> fin \/ (n > 0 /\ left = <<>> /\ state = "kDisconnecting")
      /\ events' = IF n > 0 /\ left = <<>> THEN events \ {"out"} ELSE events
      /\ UNCHANGED <<pc, batch, held, state, registered, watched, inMap, userVars, failed>>
  <2>1. wire' = wire \o head /\ submitted' = submitted /\ (fin => n = 0)
    BY Zenon DEF HandleWrite
  <2>2. outputBuffer' = left
    BY <1>3 DEF HandleWrite
  <2>3. fin' <=> fin \/ (n > 0 /\ left = <<>> /\ state = "kDisconnecting")
    BY Zenon DEF HandleWrite, ShutsDown, TypeOK
  <2>4. events' = IF n > 0 /\ left = <<>> THEN events \ {"out"} ELSE events
    BY Zenon DEF HandleWrite
  <2>5. UNCHANGED <<pc, batch, held, state, registered, watched, inMap, userVars, failed>>
    BY Zenon DEF HandleWrite, NextCallback
  <2> QED BY <2>1, <2>2, <2>3, <2>4, <2>5, Zenon
<1> HIDE DEF left, head
<1>5. wire \in Seq(Nat) /\ wire' \in Seq(Nat) /\ wire' \o outputBuffer' = wire \o outputBuffer
  <2>1. wire \in Seq(Nat) /\ head \in Seq(Nat) /\ left \in Seq(Nat)
    BY <1>3, Zenon DEF TypeOK
  <2>2. (wire \o head) \o left = wire \o (head \o left)
    BY <2>1, BytesAssociative, Zenon
  <2>3. wire \o head \in Seq(Nat)
    BY <1>3, <2>1, ConcatProperties, Zenon
  <2> QED BY <1>3, <1>4, <2>1, <2>2, <2>3, Zenon
<1>6. fin' \in BOOLEAN
  BY Zenon DEF HandleWrite, TypeOK
<1>7. TypeOK'
  BY <1>1, <1>2, <1>3, <1>4, <1>5, <1>6, Zenon DEF TypeOK
<1>8. Life'
  BY <1>1, <1>2, <1>4, Zenon DEF Life, Destroying
<1>9. Calls'
  BY <1>1, <1>2, <1>4, Zenon DEF Calls, Life, Up
<1>10. Output'
  BY <1>3, <1>4, <1>5, SMTT(30) DEF Output
<1>11. AssertionsHold'
  BY <1>4, Zenon DEF AssertionsHold
<1> QED BY <1>7, <1>8, <1>9, <1>10, <1>11, Zenon

\* sendInLoop, called by send() in the loop thread or run as a functor of the batch,
\* which has then lost only that.
LEMMA SendInLoopStep ==
    ASSUME IInv, NEW n \in 0 .. 2, SendInLoop(n, functors),
           state # "none", ~elsewhere => state = "kConnected",
           UNCHANGED <<pc, cbs, held, state, userVars>>,
           batch' \in Seq(Functor), Range(batch') \subseteq Range(batch),
           Once({"connectDestroyed"}, batch'), pc # "batch" => batch' = <<>>,
           "connectDestroyed" \in Range(batch) => "connectDestroyed" \in Range(batch')
    PROVE  IInv'
<1> USE DEF IInv, userVars
<1> DEFINE first == SubSeq(Message, 1, n)
           rest == Unwritten(Message, n)
<1>1. /\ functors' \in Seq(Functor) /\ Once({"connectDestroyed"}, functors')
      /\ "connectDestroyed" \in Range(functors') <=> "connectDestroyed" \in Range(functors)
      /\ Range(functors') \cap Bare = Range(functors) \cap Bare
  <2>1. functors' = functors \/ functors' = Append(functors, "writeComplete")
    BY Zenon DEF SendInLoop
  <2> QED BY <2>1, WriteCompleteFacts, Zenon
<1>2. Message \in Seq(Nat) /\ Len(Message) = 2
  BY MessageFacts, Zenon
<1>3. /\ first \in Seq(Nat) /\ rest \in Seq(Nat) /\ first \o rest = Message
      /\ n = 0 => first = <<>> /\ rest = Message
      /\ n = 2 => rest = <<>>
  BY <1>2, Split, ZenonT(30)
<1>4. /\ wire' = wire \o first /\ outputBuffer' = outputBuffer \o rest
      /\ submitted' = submitted \o Message
      /\ n # 0 => outputBuffer = <<>>
      /\ events' = IF n < 2 THEN events \cup {"out"} ELSE events
      /\ UNCHANGED <<registered, watched, inMap, fin>>
  <2>1. wire' = wire \o first /\ outputBuffer' = outputBuffer \o rest
    BY Zenon DEF SendInLoop
  <2>2. submitted' = submitted \o Message /\ UNCHANGED <<registered, watched, inMap, fin>>
    BY Zenon DEF SendInLoop
  <2>3. n # 0 => outputBuffer = <<>>
    BY Zenon DEF SendInLoop, WritesDirectly
  <2>4. events' = IF n < 2 THEN events \cup {"out"} ELSE events
    BY <1>2, Zenon DEF SendInLoop, EnablesWriting
  <2> QED BY <2>1, <2>2, <2>3, <2>4, Zenon
<1>5. failed' \subseteq {"updateChannel"} /\ (~elsewhere => failed' = {})
  <2>1. ~elsewhere => registered
    BY Zenon DEF Life
  <2> QED BY <2>1, Zenon DEF SendInLoop, AssertionsHold
<1> HIDE DEF first, rest
<1>6. wire \in Seq(Nat) /\ outputBuffer \in Seq(Nat) /\ submitted \in Seq(Nat)
  BY Zenon DEF TypeOK
<1>7. wire' \in Seq(Nat) /\ outputBuffer' \in Seq(Nat) /\ submitted' \in Seq(Nat)
  BY <1>2, <1>3, <1>4, <1>6, ConcatProperties, Zenon
<1>8. wire' \o outputBuffer' = submitted'
  <2>1. wire \o outputBuffer = submitted
    BY Zenon DEF Output
  <2>2. CASE n = 0
    <3>1. wire' = wire /\ outputBuffer' = outputBuffer \o Message
      BY <1>3, <1>4, <1>6, <2>2, ConcatEmptySeq, Zenon
    <3>2. (wire \o outputBuffer) \o Message = wire \o (outputBuffer \o Message)
      BY <1>2, <1>6, BytesAssociative, ZenonT(30)
    <3> QED BY <1>4, <2>1, <3>1, <3>2, Zenon
  <2>3. CASE n # 0
    <3>1. outputBuffer' = rest /\ submitted = wire
      BY <1>3, <1>4, <1>6, <2>1, <2>3, ConcatEmptySeq, Zenon
    <3>2. first \in Seq(Nat) /\ rest \in Seq(Nat)
      BY <1>3, Zenon
    <3>3. (wire \o first) \o rest = wire \o (first \o rest)
      BY <1>6, <3>2, BytesAssociative, ZenonT(30)
    <3> QED BY <1>3, <1>4, <3>1, <3>3, Zenon
  <2> QED BY <2>2, <2>3, Zenon
<1>9. outputBuffer' # <<>> => "out" \in events'
  <2>1. CASE n = 2
    <3>1. outputBuffer = <<>> /\ rest = <<>>
      BY <1>3, <1>4, <2>1
    <3>2. outputBuffer' = <<>>
      BY <1>4, <3>1, EmptySeq, ConcatEmptySeq, Zenon
    <3> QED BY <3>2, Zenon
  <2>2. CASE n < 2
    BY <1>4, <2>2, Zenon
  <2> QED BY <2>1, <2>2
<1>10. TypeOK'
  BY <1>1, <1>4, <1>7, SMTT(30) DEF TypeOK
<1>11. Life'
  BY <1>1, <1>4, Zenon DEF Life, Destroying
<1>12. Calls'
  BY <1>1, <1>4, Zenon DEF Calls
<1>13. Output'
  BY <1>4, <1>8, <1>9, Zenon DEF Output
<1> QED BY <1>5, <1>10, <1>11, <1>12, <1>13, Zenon DEF AssertionsHold

LEMMA SendStep == ASSUME IInv, NEW n \in 0 .. 2, Send(n) PROVE IInv'
<1>1. batch' \in Seq(Functor) /\ Once({"connectDestroyed"}, batch') /\ (pc # "batch" => batch' = <<>>)
  BY Zenon DEF Send, IInv, TypeOK, Life
<1> QED BY <1>1, SendInLoopStep, Zenon DEF Send

LEMMA ShutdownStep == ASSUME IInv, Shutdown PROVE IInv'
<1> USE DEF IInv, loopVars, userVars
<1>1. TypeOK'
  BY Zenon DEF Shutdown, ShutdownInLoop, TypeOK
<1>2. Life'
  BY Zenon DEF Shutdown, Life, Destroying, Up
<1>3. Calls' /\ AssertionsHold'
  BY Zenon DEF Shutdown, Calls, AssertionsHold
<1>4. Output'
  BY Zenon DEF Shutdown, ShutdownInLoop, Output
<1> QED BY <1>1, <1>2, <1>3, <1>4, Zenon

\* The other thread's two steps.
LEMMA StartCallStep == ASSUME IInv, NEW call \in Bare, StartCall(call) PROVE IInv'
<1> USE DEF IInv, loopVars, connVars, dataVars
<1>1. TypeOK'
  BY Zenon DEF StartCall, TypeOK
<1>2. Life' /\ Output' /\ AssertionsHold'
  BY Zenon DEF StartCall, Life, Destroying, Output, AssertionsHold
<1>3. Calls'
  BY Zenon DEF StartCall, Calls
<1> QED BY <1>1, <1>2, <1>3, Zenon

LEMMA FinishCallStep == ASSUME IInv, FinishCall PROVE IInv'
<1> USE DEF IInv, dataVars
<1>1. /\ functors' \in Seq(Functor) /\ Once({"connectDestroyed"}, functors')
      /\ "connectDestroyed" \in Range(functors') <=> "connectDestroyed" \in Range(functors)
  <2>1. /\ functors \in Seq(Functor) /\ Once({"connectDestroyed"}, functors)
        /\ caller \in Functor /\ caller # "connectDestroyed"
    BY Zenon DEF FinishCall, TypeOK, Life, Functor, Bare
  <2>2. /\ functors' \in Seq(Functor) /\ Once({"connectDestroyed"}, functors')
        /\ Range(functors') = Range(functors) \cup {caller}
    BY <2>1, AppendFacts DEF FinishCall
  <2> QED BY <2>1, <2>2, Zenon
<1>2. elsewhere /\ state # "none"
  BY Zenon DEF FinishCall, Calls, Bare
<1>3. TypeOK'
  BY <1>1, Zenon DEF FinishCall, StateAfter, TypeOK
<1>4. Life'
  BY <1>1, Zenon DEF FinishCall, StateAfter, Life, Destroying, Up
<1>5. Calls' /\ Output' /\ AssertionsHold'
  BY <1>2, Zenon DEF FinishCall, StateAfter, Calls, Output, AssertionsHold
<1> QED BY <1>3, <1>4, <1>5, Zenon

LEMMA DropRefOrPeerClosesStep == ASSUME IInv, DropRef \/ PeerCloses PROVE IInv'
<1> USE DEF IInv, loopVars, connVars, dataVars, DropRef, PeerCloses
<1>1. TypeOK'
  BY ZenonT(60) DEF TypeOK
<1>2. Life'
  BY DEF Life, Destroying
<1>3. Calls'
  BY Zenon DEF Calls, TypeOK
<1>4. Output' /\ AssertionsHold'
  <2>1. UNCHANGED <<wire, outputBuffer, submitted, inMap, events, fin, elsewhere, state, failed>>
    BY Zenon
  <2> QED BY <2>1, Zenon DEF Output, AssertionsHold
<1> QED BY <1>1, <1>2, <1>3, <1>4, Zenon

LEMMA SwapFunctorsStep == ASSUME IInv, SwapFunctors PROVE IInv'
<1> USE DEF IInv, connVars, dataVars, userVars
<1>1. batch = <<>> /\ Range(batch) = {} /\ Range(functors') = {}
  BY EmptyFacts, Zenon DEF SwapFunctors, Life
<1>2. TypeOK'
  BY EmptySeq, ZenonT(30) DEF SwapFunctors, TypeOK
<1>3. Life'
  BY <1>1, EmptyFacts, Zenon DEF SwapFunctors, Life, Destroying
<1>4. Calls'
  BY <1>1, Zenon DEF SwapFunctors, Calls
<1>5. Output' /\ AssertionsHold'
  BY Zenon DEF SwapFunctors, Output, AssertionsHold
<1> QED BY <1>2, <1>3, <1>4, <1>5, Zenon

\* The loop takes a functor of the batch.
LEMMA NextFunctorFacts ==
    ASSUME IInv, NEW which, NextFunctor(which)
    PROVE  /\ batch' \in Seq(Functor) /\ Range(batch) = Range(batch') \cup {which}
           /\ Once({"connectDestroyed"}, batch')
           /\ which = "connectDestroyed" => "connectDestroyed" \notin Range(batch')
           /\ pc = "batch" /\ cbs = <<>> /\ state # "none"
<1>1. batch \in Seq(Functor) /\ batch # <<>> /\ Once({"connectDestroyed"}, batch)
  BY Zenon DEF IInv, TypeOK, Life, NextFunctor
<1>2. /\ batch' \in Seq(Functor) /\ Range(batch) = Range(batch') \cup {which}
      /\ Once({"connectDestroyed"}, batch')
      /\ which = "connectDestroyed" => "connectDestroyed" \notin Range(batch')
  BY <1>1, TailFacts DEF NextFunctor
<1>3. pc = "batch" /\ cbs = <<>> /\ state # "none"
  BY <1>1, Zenon DEF IInv, Life, Calls, NextFunctor
<1> QED BY <1>2, <1>3, Zenon

LEMMA ConnectDestroyedStep == ASSUME IInv, ConnectDestroyed PROVE IInv'
<1> USE DEF IInv, dataVars, userVars
<1>1. /\ batch' \in Seq(Functor) /\ Range(batch) = Range(batch') \cup {"connectDestroyed"}
      /\ Once({"connectDestroyed"}, batch') /\ "connectDestroyed" \notin Range(batch')
      /\ pc = "batch" /\ cbs = <<>>
  BY NextFunctorFacts, Zenon DEF ConnectDestroyed
<1>2. registered /\ ~inMap /\ state \in Up /\ "connectDestroyed" \notin Range(functors)
  BY <1>1, Zenon DEF Life, Destroying
<1>3. TypeOK'
  BY <1>1, Zenon DEF ConnectDestroyed, NextFunctor, DisableAll, TypeOK
<1>4. Life'
  BY <1>1, <1>2, EmptyFacts, Zenon DEF ConnectDestroyed, NextFunctor, DisableAll, Life, Destroying
<1>5. Calls'
  BY <1>1, Zenon DEF ConnectDestroyed, NextFunctor, Calls
<1>6. Output'
  BY <1>2, Zenon DEF ConnectDestroyed, Output
<1>7. AssertionsHold'
  BY <1>2, Zenon DEF ConnectDestroyed, AssertionsHold, Up
<1> QED BY <1>3, <1>4, <1>5, <1>6, <1>7, Zenon

LEMMA RunWriteCompleteStep == ASSUME IInv, RunWriteComplete PROVE IInv'
<1> USE DEF IInv, connVars, dataVars, userVars
<1>1. /\ batch' \in Seq(Functor) /\ Range(batch) = Range(batch') \cup {"writeComplete"}
      /\ Once({"connectDestroyed"}, batch') /\ pc = "batch" /\ state # "none"
  BY NextFunctorFacts, Zenon DEF RunWriteComplete
<1>2. TypeOK'
  BY <1>1, Zenon DEF RunWriteComplete, NextFunctor, TypeOK
<1>3. Life'
  BY <1>1, Zenon DEF RunWriteComplete, NextFunctor, Life, Destroying
<1>4. Calls'
  BY <1>1, Zenon DEF RunWriteComplete, NextFunctor, Calls
<1>5. Output' /\ AssertionsHold'
  BY Zenon DEF RunWriteComplete, Output, AssertionsHold
<1> QED BY <1>2, <1>3, <1>4, <1>5, Zenon

LEMMA RunSendInLoopStep == ASSUME IInv, NEW n \in 0 .. 2, RunSendInLoop(n) PROVE IInv'
<1>1. /\ batch' \in Seq(Functor) /\ Range(batch) = Range(batch') \cup {"sendInLoop"}
      /\ Once({"connectDestroyed"}, batch') /\ pc = "batch" /\ state # "none"
  BY NextFunctorFacts, Zenon DEF RunSendInLoop
<1>2. elsewhere
  BY <1>1, Zenon DEF IInv, Calls, Bare, TypeOK
<1>3. UNCHANGED <<pc, cbs, held, state, userVars>>
  BY Zenon DEF RunSendInLoop, NextFunctor
<1>4. SendInLoop(n, functors)
  BY Zenon DEF RunSendInLoop
<1>5. "connectDestroyed" \in Range(batch) => "connectDestroyed" \in Range(batch')
  BY <1>1, Zenon
<1> QED BY <1>1, <1>2, <1>3, <1>4, <1>5, SendInLoopStep, Zenon

LEMMA RunShutdownInLoopStep == ASSUME IInv, RunShutdownInLoop PROVE IInv'
<1> USE DEF IInv, connVars, userVars
<1>1. /\ batch' \in Seq(Functor) /\ Range(batch) = Range(batch') \cup {"shutdownInLoop"}
      /\ Once({"connectDestroyed"}, batch') /\ pc = "batch" /\ state # "none"
  BY NextFunctorFacts, Zenon DEF RunShutdownInLoop
<1>2. elsewhere
  BY <1>1, Zenon DEF Calls, Bare, TypeOK
<1>3. TypeOK'
  BY <1>1, Zenon DEF RunShutdownInLoop, ShutdownInLoop, NextFunctor, TypeOK
<1>4. Life'
  BY <1>1, Zenon DEF RunShutdownInLoop, NextFunctor, Life, Destroying
<1>5. Calls'
  BY <1>1, <1>2, Zenon DEF RunShutdownInLoop, NextFunctor, Calls
<1>6. Output' /\ AssertionsHold'
  BY <1>2, Zenon DEF RunShutdownInLoop, Output, AssertionsHold
<1> QED BY <1>3, <1>4, <1>5, <1>6, Zenon

LEMMA EndBatchStep == ASSUME IInv, EndBatch PROVE IInv'
<1> USE DEF IInv, connVars, dataVars, userVars
<1>1. TypeOK'
  BY DEF EndBatch, TypeOK
<1>2. Life'
  BY Zenon DEF EndBatch, Life, Destroying
<1>3. Calls' /\ Output' /\ AssertionsHold'
  BY Zenon DEF EndBatch, Calls, Output, AssertionsHold
<1> QED BY <1>1, <1>2, <1>3, Zenon

LEMMA StutterStep == ASSUME IInv, UNCHANGED vars PROVE IInv'
<1> USE DEF IInv, vars, loopVars, connVars, dataVars, userVars
<1>1. TypeOK'
  BY DEF TypeOK
<1>2. Life'
  BY Zenon DEF Life, Destroying
<1>3. Calls' /\ Output' /\ AssertionsHold'
  BY Zenon DEF Calls, Output, AssertionsHold
<1> QED BY <1>1, <1>2, <1>3, Zenon

LEMMA IInvStep == IInv /\ [Next]_vars => IInv'
<1> SUFFICES ASSUME IInv, [Next]_vars PROVE IInv'
  BY Zenon
<1>1. CASE LoopStep
  <2>1. ASSUME NEW r, Poll(r) PROVE IInv'
    BY <2>1, PollStep, Zenon
  <2>2. CASE HandleReadOrError
    BY <2>2, HandleReadOrErrorStep, Zenon
  <2>3. CASE HandleClose
    BY <2>3, HandleCloseStep, Zenon
  <2>4. CASE SwapFunctors
    BY <2>4, SwapFunctorsStep, Zenon
  <2>5. CASE ConnectDestroyed
    BY <2>5, ConnectDestroyedStep, Zenon
  <2>6. CASE RunWriteComplete
    BY <2>6, RunWriteCompleteStep, Zenon
  <2>7. CASE RunShutdownInLoop
    BY <2>7, RunShutdownInLoopStep, Zenon
  <2>8. CASE EndBatch
    BY <2>8, EndBatchStep, Zenon
  <2>9. ASSUME NEW n \in 0 .. 2 * MaxSends, HandleWrite(n) PROVE IInv'
    <3>1. n \in Nat
      BY BoundAssumption
    <3> QED BY <2>9, <3>1, HandleWriteStep, Zenon
  <2>10. ASSUME NEW n \in 0 .. 2, RunSendInLoop(n) PROVE IInv'
    BY <2>10, RunSendInLoopStep, Zenon
  <2> QED BY <1>1, <2>1, <2>2, <2>3, <2>4, <2>5, <2>6, <2>7, <2>8, <2>9, <2>10, Zenon DEF LoopStep
<1>2. CASE Accept
  BY <1>2, AcceptStep, Zenon
<1>3. CASE Shutdown
  BY <1>3, ShutdownStep, Zenon
<1>4. CASE FinishCall
  BY <1>4, FinishCallStep, Zenon
<1>5. CASE DropRef \/ PeerCloses
  BY <1>5, DropRefOrPeerClosesStep, Zenon
<1>6. ASSUME NEW n \in 0 .. 2, Send(n) PROVE IInv'
  BY <1>6, SendStep, Zenon
<1>7. ASSUME NEW call \in Bare, StartCall(call) PROVE IInv'
  BY <1>7, StartCallStep, Zenon
<1>8. CASE UNCHANGED vars
  BY <1>8, StutterStep, Zenon
<1> QED BY <1>1, <1>2, <1>3, <1>4, <1>5, <1>6, <1>7, <1>8, Zenon DEF Next

THEOREM Invariance == Spec => []IInv
BY InitIInv, IInvStep, PTL DEF Spec

-----------------------------------------------------------------------------
(* The theorems.                                                           *)

\* For any number of messages, and with another thread that sends and shuts down at
\* any time: handleClose and connectDestroyed each run once, in the states they
\* assert, and find the connection in the map and the channel in the poller.
THEOREM AssertionsCorrect == Spec => []AssertionsHold
BY Invariance, PTL DEF IInv

\* The connection is not destroyed while its channel is registered in the poller, or
\* while handleEvent has callbacks to call.
THEOREM NoDanglingChannelCorrect == Spec => []NoDanglingChannel
<1>1. IInv => NoDanglingChannel
  <2> SUFFICES ASSUME IInv, registered \/ cbs # <<>> PROVE Alive
    BY Zenon DEF NoDanglingChannel
  <2>1. inMap \/ Destroying
    BY Zenon DEF IInv, Life
  <2>2. Destroying => (Range(functors) \cup Range(batch)) \cap Shared # {}
    BY Zenon DEF Destroying, Shared
  <2> QED BY <2>1, <2>2, Zenon DEF Alive
<1> QED BY <1>1, Invariance, PTL

\* Every byte passed to sendInLoop is on the wire or in the output buffer, in order,
\* and the end of the stream follows the last of them: whatever write(2) takes.
THEOREM InOrderCorrect == Spec => []InOrder
<1>1. IInv => InOrder
  <2> SUFFICES ASSUME IInv PROVE InOrder
    BY Zenon
  <2>1. wire \o <<>> = wire
    BY ConcatEmptySeq, Zenon DEF IInv, TypeOK
  <2> QED BY <2>1, Zenon DEF IInv, Output, InOrder
<1> QED BY <1>1, Invariance, PTL

=============================================================================
