--------------------------- MODULE LoggingProofs ---------------------------
(***************************************************************************)
(* The queue of AsyncLoggingQueue for any producers and any capacity: the  *)
(* single notifications of BoundedBlockingQueue are enough.  Both loggers  *)
(* of MCLogging for any number of lines: the spare buffers of the one are  *)
(* back in time, the files of either roll when they are due, and the lines *)
(* reach them in order.                                                    *)
(***************************************************************************)
EXTENDS MCLogging, SequenceTheorems, FiniteSetTheorems, TLAPS

\* A clock beside the program, without MCLogging's bound.
AnyTick == now' \in Nat /\ UNCHANGED <<queueVars, lines, putting, running, latch, user, pc, msg, output>>

Spec == Init /\ capacity \in Nat /\ [][Next \/ AnyTick]_vars

\* The inductive invariant: only threads in put() wait for room, and never in an
\* unbounded queue; only the logging thread waits for lines; the capacity holds.
IInv ==
    /\ queue \in Seq(Nat) /\ capacity \in Nat /\ lines \in Nat
    /\ putting \subseteq Producers
    /\ notFull \subseteq Wanting
    /\ notEmpty \subseteq {Logger}
    /\ capacity = Unbounded => notFull = {}
    /\ capacity # Unbounded => Len(queue) <= capacity
    /\ NobodySleeps

\* Nobody begins to wait, nobody leaves put(), and the queue is the same.
LEMMA MoreAwake ==
    ASSUME IInv,
           queue' = queue, capacity' = capacity, lines' \in Nat,
           putting' \subseteq Producers, Wanting \subseteq Wanting',
           notFull' \subseteq notFull, notEmpty' \subseteq notEmpty
    PROVE  IInv'
<1>1. IsFiniteSet(Wanting')
  <2>1. IsFiniteSet(putting')
    BY FS_Subset, ProducersAssumption, Zenon
  <2>2. Wanting' = putting' \/ Wanting' = putting' \cup {User}
    BY Zenon DEF Wanting
  <2> QED BY <2>1, <2>2, FS_AddElement
<1>2. /\ IsFiniteSet((Wanting \ notFull)') /\ Wanting \ notFull \in SUBSET ((Wanting \ notFull)')
  BY <1>1, FS_Difference, Zenon
<1>3. Cardinality(Wanting \ notFull) <= Cardinality((Wanting \ notFull)')
  BY <1>2, FS_Subset, Zenon
<1>4. Cardinality(Wanting \ notFull) \in Nat /\ Cardinality((Wanting \ notFull)') \in Nat
  BY <1>2, FS_Subset, FS_CardinalityType, Zenon
<1>5. NobodySleeps'
  <2>1. Len(queue) \in Nat
    BY LenProperties, Zenon DEF IInv
  <2>2. notFull' # {} => capacity' - Len(queue') <= Cardinality((Wanting \ notFull)')
    BY <1>3, <1>4, <2>1 DEF IInv, NobodySleeps
  <2> QED BY <2>2, Zenon DEF IInv, NobodySleeps
<1> QED BY <1>5, Zenon DEF IInv

\* A thread in put() finds the queue full and waits.
LEMMA WaitNotFullStep ==
    ASSUME IInv, NEW t \in Wanting, WaitNotFull(t),
           UNCHANGED <<lines, putting, user>>
    PROVE  IInv'
<1>1. /\ capacity # Unbounded /\ Len(queue) = capacity
      /\ notFull' = notFull \cup {t} /\ UNCHANGED <<queue, capacity, notEmpty>>
  BY Zenon DEF WaitNotFull, Full
<1>2. Wanting' = Wanting
  BY Zenon DEF Wanting
<1>3. IsFiniteSet(Wanting \ notFull')
  <2>1. IsFiniteSet(putting)
    BY FS_Subset, ProducersAssumption, Zenon DEF IInv
  <2>2. Wanting = putting \/ Wanting = putting \cup {User}
    BY Zenon DEF Wanting
  <2> QED BY <2>1, <2>2, FS_AddElement, FS_Difference, Zenon
<1>4. Cardinality(Wanting \ notFull') \in Nat
  BY <1>3, FS_CardinalityType, Zenon
<1>5. NobodySleeps'
  BY <1>1, <1>2, <1>4 DEF IInv, NobodySleeps
<1> QED BY <1>1, <1>2, <1>5, Zenon DEF IInv

\* A thread in put() that does not wait puts its element and leaves: there is one place
\* less and one thread less awake.
LEMMA PutStep ==
    ASSUME IInv, NEW t \in Wanting, NEW x \in Nat, Put(t, x),
           Wanting' = Wanting \ {t}, putting' \subseteq Producers, lines' \in Nat
    PROVE  IInv'
<1>1. /\ t \notin notFull /\ ~(capacity # Unbounded /\ Len(queue) = capacity)
      /\ queue' = Append(queue, x) /\ notEmpty' = {} /\ UNCHANGED <<capacity, notFull>>
  BY Zenon DEF Put, Full, Notify, IInv
<1>2. queue' \in Seq(Nat) /\ Len(queue') = Len(queue) + 1 /\ Len(queue) \in Nat
  BY <1>1, AppendProperties, LenProperties, Zenon DEF IInv
<1>3. IsFiniteSet(Wanting \ notFull)
  <2>1. IsFiniteSet(putting)
    BY FS_Subset, ProducersAssumption, Zenon DEF IInv
  <2>2. Wanting = putting \/ Wanting = putting \cup {User}
    BY Zenon DEF Wanting
  <2> QED BY <2>1, <2>2, FS_AddElement, FS_Difference, Zenon
<1>4. (Wanting \ notFull)' = (Wanting \ notFull) \ {t} /\ t \in Wanting \ notFull
  BY <1>1, Zenon
<1>5. /\ Cardinality((Wanting \ notFull)') = Cardinality(Wanting \ notFull) - 1
      /\ Cardinality(Wanting \ notFull) \in Nat
  BY <1>3, <1>4, FS_RemoveElement, FS_CardinalityType, ZenonT(30)
<1>6. NobodySleeps'
  <2>1. notFull' # {} => capacity' - Len(queue') <= Cardinality((Wanting \ notFull)')
    BY <1>1, <1>2, <1>5 DEF IInv, NobodySleeps
  <2> QED BY <1>1, <2>1, Zenon DEF NobodySleeps
<1> QED BY <1>1, <1>2, <1>6 DEF IInv

\* take() makes one place and, if a thread waits for it, wakes one.
LEMMA TakeStep ==
    ASSUME IInv, Take(Logger), UNCHANGED <<lines, putting, user>>
    PROVE  IInv'
<1>1. /\ Logger \notin notEmpty /\ queue # <<>> /\ queue' = Tail(queue)
      /\ \/ notFull = {} /\ notFull' = {}
         \/ \E t \in notFull : notFull' = notFull \ {t}
      /\ UNCHANGED <<capacity, notEmpty>>
  BY Zenon DEF Take, Notify
<1>2. queue' \in Seq(Nat) /\ Len(queue') = Len(queue) - 1 /\ Len(queue) \in Nat /\ Len(queue') \in Nat
  BY <1>1, HeadTailProperties, LenProperties, EmptySeq, Zenon DEF IInv
<1>3. Wanting' = Wanting /\ notEmpty' = {}
  BY <1>1, Zenon DEF Wanting, IInv
<1>4. IsFiniteSet(Wanting \ notFull)
  <2>1. IsFiniteSet(putting)
    BY FS_Subset, ProducersAssumption, Zenon DEF IInv
  <2>2. Wanting = putting \/ Wanting = putting \cup {User}
    BY Zenon DEF Wanting
  <2> QED BY <2>1, <2>2, FS_AddElement, FS_Difference, Zenon
<1>5. notFull' # {} => capacity' - Len(queue') <= Cardinality((Wanting \ notFull)')
  <2> SUFFICES ASSUME notFull' # {} PROVE capacity' - Len(queue') <= Cardinality((Wanting \ notFull)')
    BY Zenon
  <2>1. PICK t \in notFull : notFull' = notFull \ {t}
    BY <1>1, Zenon
  <2>2. (Wanting \ notFull)' = (Wanting \ notFull) \cup {t} /\ t \notin Wanting \ notFull
    BY <1>3, <2>1, Zenon DEF IInv
  <2>3. /\ Cardinality((Wanting \ notFull)') = Cardinality(Wanting \ notFull) + 1
        /\ Cardinality(Wanting \ notFull) \in Nat
    BY <1>4, <2>2, FS_AddElement, FS_CardinalityType, Zenon
  <2>4. capacity - Len(queue) <= Cardinality(Wanting \ notFull)
    BY <2>1, Zenon DEF IInv, NobodySleeps
  <2> QED BY <1>1, <1>2, <2>3, <2>4 DEF IInv
<1>6. NobodySleeps'
  BY <1>3, <1>5, Zenon DEF NobodySleeps
<1> QED BY <1>1, <1>2, <1>3, <1>6 DEF IInv

-----------------------------------------------------------------------------

LEMMA InitIInv == Init /\ capacity \in Nat => IInv
<1> SUFFICES ASSUME Init, capacity \in Nat PROVE IInv
  BY Zenon
<1>1. queue = <<>> /\ queue \in Seq(Nat) /\ Len(queue) = 0
  BY EmptySeq, Zenon DEF Init
<1> QED BY <1>1 DEF Init, IInv, NobodySleeps

LEMMA IInvStep ==
    ASSUME IInv, [Next \/ AnyTick]_vars
    PROVE  IInv'
<1> USE ProducersAssumption DEF queueVars
<1>1. ASSUME NEW p \in Producers, CallAppend(p) PROVE IInv'
  BY <1>1, MoreAwake, Zenon DEF CallAppend, Wanting, IInv
<1>2. ASSUME NEW p \in Producers, PutLine(p) PROVE IInv'
  <2>1. p \in Wanting /\ user' = user
    BY <1>2, Zenon DEF PutLine, Wanting
  <2>2. CASE WaitNotFull(p) /\ UNCHANGED <<lines, putting>>
    BY <2>1, <2>2, WaitNotFullStep, Zenon
  <2>3. CASE Put(p, lines + 1) /\ lines' = lines + 1 /\ putting' = putting \ {p}
    <3>1. Wanting' = Wanting \ {p}
      BY <2>1, <2>3, Zenon DEF Wanting
    <3>2. lines + 1 \in Nat /\ lines' \in Nat /\ putting' \subseteq Producers
      BY <2>3 DEF IInv
    <3> QED BY <2>1, <2>3, <3>1, <3>2, PutStep, Zenon
  <2> QED BY <1>2, <2>2, <2>3, Zenon DEF PutLine
<1>3. CASE Start \/ Started \/ Stop \/ ThreadFunc \/ WriteMsg \/ AnyTick \/ UNCHANGED vars
  <2>1. UNCHANGED <<queue, capacity, notEmpty, notFull, lines, putting>>
    BY <1>3, Zenon DEF Start, Started, Stop, ThreadFunc, WriteMsg, AnyTick, vars
  <2>2. user = "stopping" => user' = "stopping"
    BY <1>3, Zenon DEF Start, Started, Stop, ThreadFunc, WriteMsg, AnyTick, vars
  <2>3. Wanting \subseteq Wanting'
    BY <2>1, <2>2, Zenon DEF Wanting
  <2> QED BY <2>1, <2>3, MoreAwake, Zenon DEF IInv
<1>4. CASE PutStop
  <2>1. User \in Wanting /\ UNCHANGED <<lines, putting>> /\ User \notin putting
    BY <1>4, Zenon DEF PutStop, Wanting, IInv
  <2>2. CASE WaitNotFull(User) /\ user' = user
    BY <2>1, <2>2, WaitNotFullStep, Zenon
  <2>3. CASE Put(User, Empty) /\ user' = "joining"
    <3>1. Wanting' = Wanting \ {User}
      BY <2>1, <2>3, Zenon DEF Wanting
    <3>2. Empty \in Nat /\ lines' \in Nat /\ putting' \subseteq Producers
      BY <2>1, Zenon DEF IInv, Empty
    <3> QED BY <2>1, <2>3, <3>1, <3>2, PutStep, Zenon
  <2> QED BY <1>4, <2>2, <2>3, Zenon DEF PutStop
<1>5. CASE Stopped
  <2>1. UNCHANGED <<queue, capacity, notEmpty, notFull, lines, putting>> /\ Wanting' = Wanting
    BY <1>5, Zenon DEF Stopped, Wanting
  <2> QED BY <2>1, MoreAwake, Zenon DEF IInv
<1>6. CASE TakeMsg
  <2>1. UNCHANGED <<lines, putting, user>>
    BY <1>6, Zenon DEF TakeMsg
  <2>2. CASE WaitNotEmpty(Logger)
    <3>1. /\ queue = <<>> /\ notEmpty' = {Logger} /\ UNCHANGED <<queue, capacity, notFull>>
      BY <2>2, Zenon DEF WaitNotEmpty, IInv
    <3>2. Wanting' = Wanting
      BY <2>1, Zenon DEF Wanting
    <3> QED BY <2>1, <3>1, <3>2, Zenon DEF IInv, NobodySleeps
  <2>3. CASE Take(Logger)
    BY <2>1, <2>3, TakeStep, Zenon
  <2> QED BY <1>6, <2>2, <2>3, Zenon DEF TakeMsg
<1>7. ASSUME NEW t \in Producers \cup {User, Logger}, Wakeup(t) PROVE IInv'
  <2>1. /\ UNCHANGED <<queue, capacity, lines, putting, user>>
        /\ notFull' \subseteq notFull /\ notEmpty' \subseteq notEmpty
    BY <1>7, Zenon DEF Wakeup, SpuriousWakeup
  <2>2. Wanting' = Wanting
    BY <2>1, Zenon DEF Wanting
  <2> QED BY <2>1, <2>2, MoreAwake, Zenon DEF IInv
<1> QED BY <1>1, <1>2, <1>3, <1>4, <1>5, <1>6, <1>7, Zenon DEF Next, LogStep

\* BoundedBlockingQueue.h, put and take, for any producers and any capacity: when
\* threads wait for room, at least as many others are awake in put() as there are
\* places, although each take() wakes one thread only; and the logging thread never
\* waits while there are lines.
THEOREM NobodySleepsCorrect == Spec => []NobodySleeps
<1>1. IInv /\ [Next \/ AnyTick]_vars => IInv'
  BY IInvStep, Zenon
<1>2. IInv => NobodySleeps
  BY Zenon DEF IInv
<1> QED BY InitIInv, <1>1, <1>2, PTL DEF Spec

-----------------------------------------------------------------------------
(* Both loggers, in MCLogging's program.                                   *)

Files == [name : Nat, lines : Seq(Nat)]
LogFiles ==
    [count : Nat, startOfPeriod : Int, lastRoll : Nat, lastFlush : Nat, files : Seq(Files),
     writtenBytes : Nat, unflushed : BOOLEAN, failed : BOOLEAN]

\* The files are named in the order they were opened, the last at lastRoll.
Named(lf) ==
    /\ \A i \in DOMAIN lf.files : lf.files[i].name <= lf.lastRoll
    /\ \A i, j \in DOMAIN lf.files : i < j => lf.files[i].name < lf.files[j].name

LoggersTypeOK ==
    /\ lines \in Nat /\ now \in Nat /\ output \in LogFiles
    /\ queue \in Seq(Nat) /\ msg \in Nat
    /\ currentBuffer \in Seq(Nat) /\ nextBuffer \in Seq(Nat) /\ buffers \in Seq(Seq(Nat))
    /\ newBuffer1 \in Seq(Nat) /\ newBuffer2 \in Seq(Nat)
    /\ buffersToWrite \in Seq(Seq(Nat)) /\ next \in Nat \ {0}

\* The spares of double buffering: the next buffer is missing only while a full one
\* waits, so that where the second spare was handed out two buffers are to be written.
Spares ==
    IF logger = "double"
      THEN /\ nextBuffer \in {D!None, <<>>}
           /\ nextBuffer = D!None => buffers # <<>>
           /\ pc \in {"loop", "lock", "wait"} => newBuffer1 = <<>> /\ newBuffer2 = <<>>
           /\ pc \in {"drop", "write"} =>
                 /\ newBuffer1 = D!None /\ newBuffer2 \in {D!None, <<>>}
                 /\ Len(buffersToWrite) >= 1
                 /\ newBuffer2 = D!None => Len(buffersToWrite) >= 2
      ELSE pc \in {"none", "start", "take", "taken", "end"}

\* The inductive invariant of the program.
LoggersInv == LoggersTypeOK /\ Named(output) /\ Spares

-----------------------------------------------------------------------------
(* The LogFile.                                                            *)

\* What RollsOver says of a step.
Rolls(lf, new, time) ==
    new.writtenBytes > lf.writtenBytes =>
        /\ new.writtenBytes > rollSize => time <= new.lastRoll
        /\ new.count = 0 /\ lf.count > kCheckTimeRoll =>
              new.startOfPeriod = Period(time) \/ time <= new.lastRoll

\* rollFile: a file is opened, for a later second, or nothing changes.
LEMMA RollFileFacts ==
    ASSUME NEW lf \in LogFiles, Named(lf), NEW time \in Nat
    PROVE  /\ RollFile(lf, time) \in LogFiles /\ Named(RollFile(lf, time))
           /\ \/ RollFile(lf, time).writtenBytes = 0
              \/ RollFile(lf, time) = lf /\ time <= lf.lastRoll
<1>1. CASE time > lf.lastRoll
  <2> DEFINE f == [name |-> time, lines |-> <<>>]
             r == RollFile(lf, time)
  <2>1. r = [lf EXCEPT !.lastRoll = time, !.lastFlush = time, !.startOfPeriod = Period(time),
                       !.files = Append(lf.files, f), !.writtenBytes = 0, !.unflushed = FALSE]
    BY <1>1, Zenon DEF RollFile
  <2>2. f \in Files /\ f.name = time
    BY DEF Files
  <2>3. Period(time) \in Int
    BY LogFileAssumption DEF Period
  <2>4. lf.files \in Seq(Files) /\ lf.lastRoll \in Nat
    BY Zenon DEF LogFiles
  <2>5. /\ Append(lf.files, f) \in Seq(Files)
        /\ DOMAIN Append(lf.files, f) = 1 .. Len(lf.files) + 1 /\ DOMAIN lf.files = 1 .. Len(lf.files)
        /\ Len(lf.files) \in Nat /\ Append(lf.files, f)[Len(lf.files) + 1] = f
        /\ \A i \in 1 .. Len(lf.files) : Append(lf.files, f)[i] = lf.files[i]
    BY <2>2, <2>4, AppendProperties, LenProperties
  <2> HIDE DEF f, r
  <2>6. /\ r.files = Append(lf.files, f) /\ r.lastRoll = time /\ r.writtenBytes = 0
        /\ r \in LogFiles
    <3> DEFINE fs == Append(lf.files, f)
    <3>1. fs \in Seq(Files)
      BY <2>5, Zenon
    <3> HIDE DEF fs
    <3>2. r = [lf EXCEPT !.lastRoll = time, !.lastFlush = time, !.startOfPeriod = Period(time),
                         !.files = fs, !.writtenBytes = 0, !.unflushed = FALSE]
      BY <2>1, Zenon DEF fs
    <3>3. r.files = fs /\ r.lastRoll = time /\ r.writtenBytes = 0 /\ r \in LogFiles
      BY <2>3, <3>1, <3>2, Zenon DEF LogFiles
    <3> QED BY <3>3, Zenon DEF fs
  <2>7. \A i \in DOMAIN lf.files : lf.files[i].name \in Nat
    <3>1. \A i \in 1 .. Len(lf.files) : lf.files[i] \in Files
      BY <2>4, ElementOfSeq, Zenon
    <3> QED BY <2>5, <3>1, Zenon DEF Files
  <2>8. Named(r)
    <3> DEFINE fs == r.files
               len == Len(lf.files)
    <3>1. /\ len \in Nat /\ DOMAIN fs = 1 .. len + 1 /\ fs[len + 1].name = time
          /\ \A i \in 1 .. len : fs[i].name = lf.files[i].name
      BY <2>2, <2>5, <2>6, Zenon
    <3>2. \A i \in 1 .. len : lf.files[i].name <= lf.lastRoll /\ lf.files[i].name \in Nat
      BY <2>5, <2>7, Zenon DEF Named
    <3>3. \A i, j \in 1 .. len : i < j => lf.files[i].name < lf.files[j].name
      BY <2>5, Zenon DEF Named
    <3> HIDE DEF fs, len
    <3>4. \A i \in 1 .. len : fs[i].name < time
      BY <1>1, <2>4, <3>1, <3>2
    <3>5. ASSUME NEW i \in DOMAIN fs, NEW j \in DOMAIN fs, i < j
          PROVE  fs[i].name < fs[j].name
      <4>1. i \in 1 .. len
        BY <3>1, <3>5
      <4>2. CASE j \in 1 .. len
        BY <3>1, <3>3, <3>5, <4>1, <4>2, Zenon
      <4>3. CASE j = len + 1
        BY <3>1, <3>4, <4>1, <4>3, Zenon
      <4> QED BY <3>1, <4>2, <4>3
    <3>6. ASSUME NEW i \in DOMAIN fs PROVE fs[i].name <= time
      <4>1. i \in 1 .. len \/ i = len + 1
        BY <3>1
      <4>2. fs[i].name \in Nat
        BY <3>1, <3>2, <4>1, Zenon
      <4> QED BY <3>1, <3>4, <4>1, <4>2
    <3> QED BY <2>6, <3>5, <3>6, Zenon DEF Named, fs
  <2> QED BY <2>6, <2>8, Zenon DEF r
<1>2. CASE ~(time > lf.lastRoll)
  <2>1. RollFile(lf, time) = lf /\ lf.lastRoll \in Nat
    BY <1>2, Zenon DEF RollFile, LogFiles
  <2> QED BY <1>2, <2>1
<1> QED BY <1>1, <1>2, Zenon

\* File::append: the names stay.
LEMMA FileAppendFacts ==
    ASSUME NEW lf \in LogFiles, Named(lf), NEW data \in Seq(Nat), NEW n \in 0 .. Len(data)
    PROVE  /\ FileAppend(lf, data, n) \in LogFiles /\ Named(FileAppend(lf, data, n))
           /\ FileAppend(lf, data, n).count = lf.count
<1> DEFINE r == FileAppend(lf, data, n)
           last == Len(lf.files)
           file == [lf.files[last] EXCEPT !.lines = @ \o SubSeq(data, 1, n)]
           files == [lf.files EXCEPT ![last] = file]
<1>1. r = [lf EXCEPT !.files = files, !.writtenBytes = lf.writtenBytes + Len(data),
                     !.unflushed = lf.unflushed \/ n > 0, !.failed = lf.failed \/ n < Len(data)]
  BY Zenon DEF FileAppend
<1>2. lf.files \in Seq(Files) /\ lf.writtenBytes \in Nat /\ lf.lastRoll \in Nat
  BY Zenon DEF LogFiles
<1>3. last \in Nat /\ DOMAIN lf.files = 1 .. last /\ Len(data) \in Nat
  BY <1>2, LenProperties, Zenon
<1>4. SubSeq(data, 1, n) \in Seq(Nat)
  BY <1>3, SubSeqProperties
<1>5. last > 0 => file \in Files /\ file.name = lf.files[last].name
  <2> SUFFICES ASSUME last > 0 PROVE file \in Files /\ file.name = lf.files[last].name
    BY Zenon
  <2>1. lf.files[last] \in Files
    BY <1>2, <1>3, ElementOfSeq
  <2>2. lf.files[last].lines \o SubSeq(data, 1, n) \in Seq(Nat)
    BY <1>4, <2>1, ConcatProperties, Zenon DEF Files
  <2> QED BY <2>1, <2>2, Zenon DEF Files
<1> HIDE DEF file
<1>6. /\ files \in Seq(Files) /\ DOMAIN files = DOMAIN lf.files
      /\ \A i \in DOMAIN files : files[i].name = lf.files[i].name
  <2>1. CASE last = 0
    <3>1. files = lf.files
      BY <1>2, <1>3, <2>1
    <3> QED BY <1>2, <3>1, Zenon
  <2>2. CASE last > 0
    <3>1. files \in Seq(Files) /\ DOMAIN files = DOMAIN lf.files
      BY <1>2, <1>3, <1>5, <2>2, ExceptSeq
    <3>2. \A i \in DOMAIN files : files[i] = IF i = last THEN file ELSE lf.files[i]
      BY <1>2, <1>3, <3>1, Zenon
    <3> QED BY <1>5, <2>2, <3>1, <3>2, Zenon
  <2> QED BY <1>3, <2>1, <2>2
<1> HIDE DEF files, last
<1>7. lf.writtenBytes + Len(data) \in Nat
  BY <1>2, <1>3
<1>8. r \in LogFiles /\ r.files = files /\ r.lastRoll = lf.lastRoll /\ r.count = lf.count
  BY <1>1, <1>6, <1>7, Zenon DEF LogFiles
<1> HIDE DEF r
<1>9. Named(r)
  BY <1>6, <1>8, Zenon DEF Named
<1> QED BY <1>8, <1>9, Zenon DEF r

\* append_unlocked: a full file, or one of another day, is rolled when the time allows.
LEMMA AppendFileFacts ==
    ASSUME NEW lf \in LogFiles, Named(lf), NEW data \in Seq(Nat), NEW n \in 0 .. Len(data),
           NEW time \in Nat
    PROVE  /\ AppendFile(lf, data, n, time) \in LogFiles /\ Named(AppendFile(lf, data, n, time))
           /\ Rolls(lf, AppendFile(lf, data, n, time), time)
<1> DEFINE f == FileAppend(lf, data, n)
           r == CheckRoll(f, time)
<1>1. f \in LogFiles /\ Named(f) /\ f.count = lf.count
  BY FileAppendFacts, Zenon
<1>2. /\ lf.writtenBytes \in Nat /\ f.writtenBytes \in Nat /\ f.lastRoll \in Nat
      /\ f.count \in Nat /\ f.lastFlush \in Nat
  BY <1>1, Zenon DEF LogFiles
<1> HIDE DEF f
<1> USE LogFileAssumption
<1>3. CASE f.writtenBytes > rollSize
  <2>1. r = RollFile(f, time)
    BY <1>3, Zenon DEF CheckRoll
  <2>2. /\ r \in LogFiles /\ Named(r)
        /\ r.writtenBytes = 0 \/ (r = f /\ time <= f.lastRoll)
    BY <1>1, <2>1, RollFileFacts, Zenon
  <2> HIDE DEF r
  <2>3. Rolls(lf, r, time)
    BY <1>2, <2>2 DEF Rolls
  <2> QED BY <2>2, <2>3, Zenon DEF AppendFile, r, f
<1>4. CASE ~(f.writtenBytes > rollSize) /\ f.count > kCheckTimeRoll
  <2> DEFINE g == [f EXCEPT !.count = 0]
  <2>1. g \in LogFiles /\ g.writtenBytes = f.writtenBytes /\ g.lastRoll = f.lastRoll
        /\ g.startOfPeriod = f.startOfPeriod /\ g.files = f.files
    BY <1>1, Zenon DEF LogFiles
  <2>2. Named(g)
    BY <1>1, <2>1, Zenon DEF Named
  <2>3. CASE Period(time) # f.startOfPeriod
    <3>1. r = RollFile(g, time)
      BY <1>4, <2>3, Zenon DEF CheckRoll
    <3> HIDE DEF g
    <3>2. /\ r \in LogFiles /\ Named(r)
          /\ r.writtenBytes = 0 \/ (r = g /\ time <= g.lastRoll)
      BY <2>1, <2>2, <3>1, RollFileFacts, Zenon
    <3> HIDE DEF r
    <3>3. Rolls(lf, r, time)
      BY <1>2, <2>1, <3>2 DEF Rolls
    <3> QED BY <3>2, <3>3, Zenon DEF AppendFile, r, f
  <2>4. CASE Period(time) = f.startOfPeriod
    <3> DEFINE h == [f EXCEPT !.count = 0, !.lastFlush = time]
    <3>1. r = g \/ r = FlushFile(h)
      BY <1>4, <2>4, Zenon DEF CheckRoll
    <3>2. /\ FlushFile(h) \in LogFiles /\ FlushFile(h).writtenBytes = f.writtenBytes
          /\ FlushFile(h).startOfPeriod = f.startOfPeriod /\ FlushFile(h).files = f.files
          /\ FlushFile(h).lastRoll = f.lastRoll
      BY <1>1, Zenon DEF LogFiles, FlushFile
    <3> HIDE DEF g, h
    <3>3. /\ r \in LogFiles /\ r.writtenBytes = f.writtenBytes /\ r.files = f.files
          /\ r.startOfPeriod = f.startOfPeriod /\ r.lastRoll = f.lastRoll
      BY <2>1, <3>1, <3>2, Zenon
    <3> HIDE DEF r
    <3>4. Named(r) /\ Rolls(lf, r, time)
      BY <1>1, <1>2, <1>4, <2>4, <3>3, Zenon DEF Named, Rolls
    <3> QED BY <3>3, <3>4, Zenon DEF AppendFile, r, f
  <2> QED BY <2>3, <2>4, Zenon
<1>5. CASE ~(f.writtenBytes > rollSize) /\ ~(f.count > kCheckTimeRoll)
  <2>1. r = [f EXCEPT !.count = f.count + 1]
    BY <1>5, Zenon DEF CheckRoll
  <2>2. /\ r \in LogFiles /\ r.writtenBytes = f.writtenBytes /\ r.files = f.files
        /\ r.lastRoll = f.lastRoll
    <3> DEFINE c == f.count + 1
    <3>1. c \in Nat
      BY <1>2
    <3> HIDE DEF c
    <3>2. r = [f EXCEPT !.count = c]
      BY <2>1, Zenon DEF c
    <3> QED BY <1>1, <3>1, <3>2, Zenon DEF LogFiles
  <2> HIDE DEF r
  <2>3. Named(r) /\ Rolls(lf, r, time)
    BY <1>1, <1>2, <1>5, <2>2, Zenon DEF Named, Rolls
  <2> QED BY <2>2, <2>3, Zenon DEF AppendFile, r, f
<1> QED BY <1>3, <1>4, <1>5, Zenon

\* The LogFile's constructor, and flush().
LEMMA NewLogFileFacts ==
    ASSUME NEW time \in Nat
    PROVE  /\ NewLogFile(time) \in LogFiles /\ Named(NewLogFile(time))
           /\ NewLogFile(time).writtenBytes = 0
           /\ NoLogFile \in LogFiles /\ Named(NoLogFile)
<1>1. /\ NoLogFile \in LogFiles /\ NoLogFile.files = <<>> /\ NoLogFile.writtenBytes = 0
  BY EmptySeq DEF NoLogFile, LogFiles
<1>2. Named(NoLogFile)
  BY <1>1 DEF Named
<1> QED BY <1>1, <1>2, RollFileFacts, Zenon DEF NewLogFile

LEMMA FlushFileFacts ==
    ASSUME NEW lf \in LogFiles, Named(lf), NEW time \in Nat
    PROVE  /\ FlushFile(lf) \in LogFiles /\ Named(FlushFile(lf))
           /\ Rolls(lf, FlushFile(lf), time)
<1>1. /\ FlushFile(lf) \in LogFiles /\ FlushFile(lf).files = lf.files
      /\ FlushFile(lf).writtenBytes = lf.writtenBytes /\ FlushFile(lf).lastRoll = lf.lastRoll
      /\ lf.writtenBytes \in Nat
  BY Zenon DEF LogFiles, FlushFile
<1> QED BY <1>1 DEF Named, Rolls

\* Both loggers use the same LogFile.
LEMMA SameLogFile ==
    ASSUME NEW lf, NEW data, NEW n, NEW time
    PROVE  /\ D!AppendFile(lf, data, n, time) = AppendFile(lf, data, n, time)
           /\ D!Takes(lf, data) = Takes(lf, data)
           /\ D!FlushFile(lf) = FlushFile(lf)
           /\ D!NewLogFile(time) = NewLogFile(time)
<1> USE DEF D!RollFile, RollFile, D!Period, Period, D!FlushFile, FlushFile
<1>1. D!FileAppend(lf, data, n) = FileAppend(lf, data, n)
  BY Zenon DEF D!FileAppend, FileAppend
<1>2. \A f : D!CheckRoll(f, time) = CheckRoll(f, time)
  BY Zenon DEF D!CheckRoll, CheckRoll
<1>3. D!AppendFile(lf, data, n, time) = AppendFile(lf, data, n, time)
  BY <1>1, <1>2, Zenon DEF D!AppendFile, AppendFile
<1> QED BY <1>3, Zenon DEF D!Takes, Takes, D!NewLogFile, NewLogFile, D!NoLogFile, NoLogFile

-----------------------------------------------------------------------------
(* The loggers' steps.                                                     *)

\* What a step does with the files.
OutputStep == output' = output \/ Rolls(output, output', now)

\* append() of double buffering.
LEMMA DoubleAppendStep ==
    ASSUME LoggersInv, Double(D!AppendLine)
    PROVE  LoggersInv' /\ OutputStep
<1> USE DEF D!frontVars, D!userVars, D!backVars, doubleOnly, queueOnly
<1>1. /\ logger = "double" /\ lines' = lines + 1
      /\ UNCHANGED <<logger, queue, msg, now, pc, newBuffer1, newBuffer2, buffersToWrite, next, output>>
  BY Zenon DEF Double, D!AppendLine
<1>2. lines' \in Nat
  BY <1>1 DEF LoggersInv, LoggersTypeOK
<1>3. CASE Len(currentBuffer) < Capacity
  <2>1. currentBuffer' = Append(currentBuffer, lines') /\ UNCHANGED <<nextBuffer, buffers>>
    BY <1>3, Zenon DEF Double, D!AppendLine
  <2>2. currentBuffer' \in Seq(Nat)
    BY <1>2, <2>1, AppendProperties, Zenon DEF LoggersInv, LoggersTypeOK
  <2> QED BY <1>1, <1>2, <2>1, <2>2, Zenon DEF LoggersInv, LoggersTypeOK, Spares, OutputStep
<1>4. CASE ~(Len(currentBuffer) < Capacity)
  <2>1. /\ buffers' = Append(buffers, currentBuffer) /\ nextBuffer' = D!None
        /\ \/ currentBuffer' = nextBuffer \o <<lines'>>
           \/ currentBuffer' = <<>> \o <<lines'>>
    BY <1>4, Zenon DEF Double, D!AppendLine, D!FullBuffers
  <2>2. buffers' \in Seq(Seq(Nat)) /\ buffers' # <<>>
    <3>1. /\ buffers' \in Seq(Seq(Nat)) /\ Len(buffers') = Len(buffers) + 1
          /\ Len(buffers) \in Nat
      BY <2>1, AppendProperties, LenProperties, Zenon DEF LoggersInv, LoggersTypeOK
    <3> QED BY <3>1, EmptySeq
  <2>3. currentBuffer' \in Seq(Nat)
    <3>1. <<lines'>> \in Seq(Nat) /\ <<>> \in Seq(Nat) /\ nextBuffer \in Seq(Nat)
      BY <1>2 DEF LoggersInv, LoggersTypeOK
    <3> QED BY <2>1, <3>1, ConcatProperties, Zenon
  <2>4. nextBuffer' \in Seq(Nat)
    BY <2>1 DEF D!None
  <2> QED BY <1>1, <1>2, <2>1, <2>2, <2>3, <2>4, Zenon DEF LoggersInv, LoggersTypeOK, Spares, OutputStep
<1> QED BY <1>3, <1>4, Zenon

\* The logging thread of double buffering takes what there is.
LEMMA DoubleSwapStep ==
    ASSUME LoggersInv, Double(D!Swap)
    PROVE  LoggersInv' /\ OutputStep
<1> USE DEF D!frontVars, D!userVars, D!backVars, doubleOnly, queueOnly
<1>1. /\ logger = "double" /\ pc \in {"lock", "wait"} /\ pc' = "drop"
      /\ buffersToWrite' = Append(buffers, currentBuffer) /\ buffers' = <<>>
      /\ currentBuffer' = newBuffer1 /\ newBuffer1' = D!None
      /\ UNCHANGED <<logger, lines, queue, msg, now, next, output>>
  BY Zenon DEF Double, D!Swap
<1>2. newBuffer1 = <<>> /\ newBuffer2 = <<>>
  BY <1>1, Zenon DEF LoggersInv, Spares
<1>3. /\ buffersToWrite' \in Seq(Seq(Nat)) /\ Len(buffersToWrite') = Len(buffers) + 1
      /\ Len(buffers) \in Nat
  BY <1>1, AppendProperties, LenProperties, Zenon DEF LoggersInv, LoggersTypeOK
<1>4. <<>> \in Seq(Nat) /\ <<>> \in Seq(Seq(Nat)) /\ D!None \in Seq(Nat) /\ D!None # <<>>
  BY DEF D!None
<1>5. CASE nextBuffer = D!None
  <2>1. nextBuffer' = <<>> /\ newBuffer2' = D!None
    BY <1>2, <1>5, Zenon DEF Double, D!Swap, D!RefillsNext
  <2>2. Len(buffersToWrite') >= 2
    <3>1. buffers # <<>> /\ buffers \in Seq(Seq(Nat))
      BY <1>1, <1>5, Zenon DEF LoggersInv, LoggersTypeOK, Spares
    <3>2. Len(buffers) # 0
      BY <3>1, EmptySeq, Zenon
    <3> QED BY <1>3, <3>2
  <2> QED BY <1>1, <1>2, <1>3, <1>4, <2>1, <2>2 DEF LoggersInv, LoggersTypeOK, Spares, OutputStep
<1>6. CASE nextBuffer # D!None
  <2>1. nextBuffer' = nextBuffer /\ newBuffer2' = <<>> /\ nextBuffer = <<>>
    BY <1>1, <1>2, <1>6, Zenon DEF Double, D!Swap, D!RefillsNext, LoggersInv, Spares
  <2>2. Len(buffersToWrite') >= 1
    BY <1>3
  <2> QED BY <1>1, <1>2, <1>3, <1>4, <2>1, <2>2, Zenon DEF LoggersInv, LoggersTypeOK, Spares, OutputStep
<1> QED BY <1>5, <1>6, Zenon

\* ... drops most of it when it is too much, ...
LEMMA DoubleDropStep ==
    ASSUME LoggersInv, Double(D!Drop)
    PROVE  LoggersInv' /\ OutputStep
<1> USE DEF D!frontVars, D!userVars, D!backVars, doubleOnly, queueOnly
<1>1. /\ logger = "double" /\ pc = "drop" /\ pc' = "write" /\ next' = 1
      /\ buffersToWrite' = D!Kept(buffersToWrite)
      /\ UNCHANGED <<logger, lines, queue, msg, now, currentBuffer, nextBuffer, buffers,
                     newBuffer1, newBuffer2>>
  BY Zenon DEF Double, D!Drop
<1>2. /\ buffersToWrite \in Seq(Seq(Nat)) /\ Len(buffersToWrite) \in Nat
      /\ output \in LogFiles /\ Named(output) /\ now \in Nat
      /\ Len(buffersToWrite) >= 1 /\ (newBuffer2 = D!None => Len(buffersToWrite) >= 2)
  BY <1>1, LenProperties, Zenon DEF LoggersInv, LoggersTypeOK, Spares
<1>3. CASE Len(buffersToWrite) > MaxBuffers
  <2> DEFINE len == Len(buffersToWrite)
  <2>1. buffersToWrite' = SubSeq(buffersToWrite, len - 1, len)
    BY <1>1, <1>3, Zenon DEF D!Kept
  <2>2. len \in Nat /\ len - 1 \in 1 .. len + 1 /\ len \in len - 1 - 1 .. len
    BY <1>2, <1>3, SizeAssumption
  <2>3. buffersToWrite' \in Seq(Seq(Nat)) /\ Len(buffersToWrite') = 2
    <3>1. len - 1 <= len
      BY <2>2
    <3>2. /\ SubSeq(buffersToWrite, len - 1, len) \in Seq(Seq(Nat))
          /\ Len(SubSeq(buffersToWrite, len - 1, len)) = len - (len - 1) + 1
      BY <1>2, <2>2, <3>1, SubSeqProperties
    <3> QED BY <2>1, <2>2, <3>2
  <2>4. PICK n \in Takes(output, <<D!DropMsg>>) :
            output' = AppendFile(output, <<D!DropMsg>>, n, now)
    BY <1>3, SameLogFile, Zenon DEF Double, D!Drop
  <2>5. <<D!DropMsg>> \in Seq(Nat) /\ n \in 0 .. Len(<<D!DropMsg>>)
    BY <2>4 DEF D!DropMsg, Takes
  <2>6. output' \in LogFiles /\ Named(output') /\ Rolls(output, output', now)
    BY <1>2, <2>4, <2>5, AppendFileFacts, Zenon
  <2> QED BY <1>1, <2>3, <2>6 DEF LoggersInv, LoggersTypeOK, Spares, OutputStep
<1>4. CASE ~(Len(buffersToWrite) > MaxBuffers)
  <2>1. buffersToWrite' = buffersToWrite /\ output' = output
    BY <1>1, <1>4, Zenon DEF Double, D!Drop, D!Kept
  <2> QED BY <1>1, <1>2, <2>1 DEF LoggersInv, LoggersTypeOK, Spares, OutputStep
<1> QED BY <1>3, <1>4, Zenon

\* ... writes the rest, buffer by buffer, ...
LEMMA DoubleWriteStep ==
    ASSUME LoggersInv, Double(D!Write)
    PROVE  LoggersInv' /\ OutputStep
<1> USE DEF D!frontVars, D!userVars, D!backVars, doubleOnly, queueOnly
<1>1. /\ logger = "double" /\ pc = "write" /\ next' = next + 1 /\ next <= Len(buffersToWrite)
      /\ UNCHANGED <<logger, lines, queue, msg, now, currentBuffer, nextBuffer, buffers, pc,
                     newBuffer1, newBuffer2, buffersToWrite>>
  BY Zenon DEF Double, D!Write
<1>2. /\ buffersToWrite \in Seq(Seq(Nat)) /\ Len(buffersToWrite) \in Nat /\ next \in Nat \ {0}
      /\ output \in LogFiles /\ Named(output) /\ now \in Nat
  BY LenProperties, Zenon DEF LoggersInv, LoggersTypeOK
<1> DEFINE data == buffersToWrite[next]
<1>3. data \in Seq(Nat)
  BY <1>1, <1>2, ElementOfSeq
<1>4. PICK n \in Takes(output, data) : output' = AppendFile(output, data, n, now)
  BY SameLogFile, Zenon DEF Double, D!Write
<1> HIDE DEF data
<1>5. n \in 0 .. Len(data)
  BY <1>3, <1>4, LenProperties DEF Takes
<1>6. output' \in LogFiles /\ Named(output') /\ Rolls(output, output', now)
  BY <1>2, <1>3, <1>4, <1>5, AppendFileFacts, Zenon
<1>7. next' \in Nat \ {0}
  BY <1>1, <1>2
<1> QED BY <1>1, <1>6, <1>7, Zenon DEF LoggersInv, LoggersTypeOK, Spares, OutputStep

\* ... and makes spares of two of the buffers.
LEMMA DoubleRecycleStep ==
    ASSUME LoggersInv, Double(D!Recycle)
    PROVE  LoggersInv' /\ OutputStep
<1> USE DEF D!frontVars, D!userVars, D!backVars, doubleOnly, queueOnly
<1> DEFINE spare == D!Recycled(buffersToWrite)
           left == IF newBuffer1 = D!None THEN Len(spare) - 1 ELSE Len(spare)
<1>1. /\ logger = "double" /\ pc = "write" /\ pc' = "loop" /\ next' = 1 /\ buffersToWrite' = <<>>
      /\ output' = FlushFile(output)
      /\ newBuffer1' = IF newBuffer1 = D!None /\ spare # <<>> THEN <<>> ELSE newBuffer1
      /\ newBuffer2' = IF newBuffer2 = D!None /\ left > 0 THEN <<>> ELSE newBuffer2
      /\ UNCHANGED <<logger, lines, queue, msg, now, currentBuffer, nextBuffer, buffers>>
  BY SameLogFile, Zenon DEF Double, D!Recycle, D!Reset
<1>2. /\ buffersToWrite \in Seq(Seq(Nat)) /\ Len(buffersToWrite) \in Nat
      /\ output \in LogFiles /\ Named(output) /\ now \in Nat
      /\ Len(buffersToWrite) >= 1 /\ (newBuffer2 = D!None => Len(buffersToWrite) >= 2)
      /\ newBuffer1 = D!None /\ newBuffer2 \in {D!None, <<>>}
  BY <1>1, LenProperties, Zenon DEF LoggersInv, LoggersTypeOK, Spares
<1>3. Len(spare) = IF Len(buffersToWrite) > 2 THEN 2 ELSE Len(buffersToWrite)
  <2> DEFINE k == IF Len(buffersToWrite) > 2 THEN 2 ELSE Len(buffersToWrite)
  <2>1. k \in 1 .. Len(buffersToWrite) /\ k - 1 + 1 = k
    BY <1>2
  <2> HIDE DEF k
  <2>2. Len(SubSeq(buffersToWrite, 1, k)) = k
    BY <1>2, <2>1, SubSeqProperties
  <2> QED BY <2>2, Zenon DEF D!Recycled, k
<1>4. spare # <<>> /\ (newBuffer2 = D!None => left > 0)
  <2>1. Len(spare) # 0 /\ (newBuffer2 = D!None => Len(spare) - 1 > 0)
    BY <1>2, <1>3
  <2> HIDE DEF spare
  <2> QED BY <1>2, <2>1
<1> HIDE DEF spare, left
<1>5. newBuffer1' = <<>> /\ newBuffer2' = <<>>
  BY <1>1, <1>2, <1>4, Zenon
<1>6. output' \in LogFiles /\ Named(output') /\ Rolls(output, output', now)
  BY <1>1, <1>2, FlushFileFacts, Zenon
<1>7. <<>> \in Seq(Nat) /\ <<>> \in Seq(Seq(Nat)) /\ 1 \in Nat \ {0}
  OBVIOUS
<1> QED BY <1>1, <1>5, <1>6, <1>7, Zenon DEF LoggersInv, LoggersTypeOK, Spares, OutputStep

\* The other steps of double buffering.
LEMMA DoubleStep ==
    ASSUME LoggersInv, Double(D!Next)
    PROVE  LoggersInv' /\ OutputStep
<1> USE DEF D!frontVars, D!userVars, D!backVars, doubleOnly, queueOnly
<1>1. output \in LogFiles /\ Named(output) /\ now \in Nat
  BY Zenon DEF LoggersInv, LoggersTypeOK
<1>2. CASE Double(D!Start) \/ Double(D!Started) \/ Double(D!Stop) \/ Double(D!Stopped)
           \/ Double(D!Wait)
  <2>1. /\ logger = "double"
        /\ UNCHANGED <<logger, lines, queue, msg, now, output, currentBuffer, nextBuffer, buffers,
                       newBuffer1, newBuffer2, buffersToWrite, next>>
        /\ pc' = pc \/ pc' = "start" \/ (pc = "lock" /\ pc' = "wait")
    BY <1>2, Zenon DEF Double, D!Start, D!Started, D!Stop, D!Stopped, D!Wait
  <2> QED BY <2>1, Zenon DEF LoggersInv, LoggersTypeOK, Spares, OutputStep
<1>3. CASE Double(D!ThreadFunc)
  <2>1. /\ logger = "double" /\ pc' = "loop" /\ output' = NewLogFile(now)
        /\ newBuffer1' = <<>> /\ newBuffer2' = <<>>
        /\ UNCHANGED <<logger, lines, queue, msg, now, currentBuffer, nextBuffer, buffers,
                       buffersToWrite, next>>
    BY <1>3, SameLogFile, Zenon DEF Double, D!ThreadFunc
  <2>2. output' \in LogFiles /\ Named(output') /\ output'.writtenBytes = 0
    BY <1>1, <2>1, NewLogFileFacts, Zenon
  <2>3. Rolls(output, output', now)
    BY <1>1, <2>2 DEF Rolls, LogFiles
  <2>4. <<>> \in Seq(Nat)
    OBVIOUS
  <2> QED BY <2>1, <2>2, <2>3, <2>4, Zenon DEF LoggersInv, LoggersTypeOK, Spares, OutputStep
<1>4. CASE Double(D!CheckRunning)
  <2>1. /\ logger = "double" /\ pc = "loop" /\ pc' \in {"lock", "end"}
        /\ output' = output \/ output' = FlushFile(output)
        /\ UNCHANGED <<logger, lines, queue, msg, now, currentBuffer, nextBuffer, buffers,
                       newBuffer1, newBuffer2, buffersToWrite, next>>
    BY <1>4, SameLogFile, Zenon DEF Double, D!CheckRunning
  <2>2. output' \in LogFiles /\ Named(output') /\ OutputStep
    BY <1>1, <2>1, FlushFileFacts, Zenon DEF OutputStep
  <2> QED BY <2>1, <2>2, Zenon DEF LoggersInv, LoggersTypeOK, Spares
<1>5. \/ Double(D!AppendLine) \/ Double(D!Start) \/ Double(D!Started) \/ Double(D!Stop)
      \/ Double(D!Stopped) \/ Double(D!Wait) \/ Double(D!ThreadFunc) \/ Double(D!CheckRunning)
      \/ Double(D!Swap) \/ Double(D!Drop) \/ Double(D!Write) \/ Double(D!Recycle)
  BY Zenon DEF Double, D!Next, D!LogStep
<1> QED BY <1>2, <1>3, <1>4, <1>5, DoubleAppendStep, DoubleSwapStep, DoubleDropStep,
           DoubleWriteStep, DoubleRecycleStep, Zenon

\* The steps of the logger with a queue.
LEMMA QueueStep ==
    ASSUME LoggersInv, Queue(Next)
    PROVE  LoggersInv' /\ OutputStep
<1> USE DEF queueVars
<1>1. /\ logger = "queue" /\ logger' = logger
      /\ UNCHANGED <<currentBuffer, nextBuffer, buffers, newBuffer1, newBuffer2, buffersToWrite, next>>
      /\ Next
  BY Zenon DEF Queue, doubleOnly
<1>2. output \in LogFiles /\ Named(output) /\ now \in Nat /\ msg \in Nat /\ queue \in Seq(Nat)
  BY Zenon DEF LoggersInv, LoggersTypeOK
<1>3. ASSUME pc' \in {"none", "start", "take", "taken", "end"}, lines' \in Nat, queue' \in Seq(Nat),
             msg' \in Nat, now' = now, output' \in LogFiles, Named(output'), OutputStep
      PROVE  LoggersInv' /\ OutputStep
  BY <1>1, <1>3, Zenon DEF LoggersInv, LoggersTypeOK, Spares
<1>4. pc \in {"none", "start", "take", "taken", "end"} /\ lines \in Nat
  BY <1>1, Zenon DEF LoggersInv, LoggersTypeOK, Spares
<1>5. ASSUME NEW p \in Producers, CallAppend(p) \/ PutLine(p) PROVE LoggersInv' /\ OutputStep
  <2>1. UNCHANGED <<pc, msg, now, output>>
    BY <1>5, Zenon DEF CallAppend, PutLine
  <2>2. (queue' = queue /\ lines' = lines) \/ (queue' = Append(queue, lines + 1) /\ lines' = lines + 1)
    BY <1>5, Zenon DEF CallAppend, PutLine, WaitNotFull, Put
  <2>3. queue' \in Seq(Nat) /\ lines' \in Nat
    <3>1. lines + 1 \in Nat
      BY <1>4
    <3>2. Append(queue, lines + 1) \in Seq(Nat)
      BY <1>2, <3>1, AppendProperties, Zenon
    <3> QED BY <1>2, <1>4, <2>2, <3>1, <3>2, Zenon
  <2> QED BY <1>2, <1>3, <1>4, <2>1, <2>3, Zenon DEF OutputStep
<1>6. CASE PutStop
  <2>1. UNCHANGED <<pc, msg, now, output, lines>> /\ (queue' = queue \/ queue' = Append(queue, 0))
    BY <1>6, Zenon DEF PutStop, WaitNotFull, Put, Empty
  <2>2. queue' \in Seq(Nat)
    BY <1>2, <2>1, AppendProperties
  <2> QED BY <1>2, <1>3, <1>4, <2>1, <2>2, Zenon DEF OutputStep
<1>7. CASE TakeMsg
  <2>1. UNCHANGED <<now, output, lines>> /\ pc' \in {"take", "taken"}
    BY <1>7, Zenon DEF TakeMsg
  <2>2. \/ queue' = queue /\ msg' = msg
        \/ queue # <<>> /\ queue' = Tail(queue) /\ msg' = Head(queue)
    BY <1>7, Zenon DEF TakeMsg, WaitNotEmpty, Take
  <2>3. queue' \in Seq(Nat) /\ msg' \in Nat
    BY <1>2, <2>2, HeadTailProperties, Zenon
  <2> QED BY <1>2, <1>3, <1>4, <2>1, <2>3, Zenon DEF OutputStep
<1>8. CASE WriteMsg
  <2>1. UNCHANGED <<queue, now, lines>> /\ pc' \in {"end", "take"} /\ msg' = 0
    BY <1>8, Zenon DEF WriteMsg, Empty
  <2>2. CASE msg = Empty
    <3>1. output' = FlushFile(output)
      BY <1>8, <2>2, Zenon DEF WriteMsg
    <3>2. output' \in LogFiles /\ Named(output') /\ OutputStep
      BY <1>2, <3>1, FlushFileFacts, Zenon DEF OutputStep
    <3> QED BY <1>2, <1>3, <1>4, <2>1, <3>2, Zenon
  <2>3. CASE msg # Empty
    <3>1. PICK n \in Takes(output, <<msg>>) : output' = AppendFile(output, <<msg>>, n, now)
      BY <1>8, <2>3, Zenon DEF WriteMsg
    <3>2. <<msg>> \in Seq(Nat) /\ n \in 0 .. Len(<<msg>>)
      BY <1>2, <3>1 DEF Takes
    <3>3. output' \in LogFiles /\ Named(output') /\ OutputStep
      BY <1>2, <3>1, <3>2, AppendFileFacts, Zenon DEF OutputStep
    <3> QED BY <1>2, <1>3, <1>4, <2>1, <3>3, Zenon
  <2> QED BY <2>2, <2>3, Zenon
<1>9. CASE ThreadFunc
  <2>1. UNCHANGED <<queue, now, lines, msg>> /\ pc' = "take" /\ output' = NewLogFile(now)
    BY <1>9, Zenon DEF ThreadFunc
  <2>2. output' \in LogFiles /\ Named(output') /\ output'.writtenBytes = 0
    BY <1>2, <2>1, NewLogFileFacts, Zenon
  <2>3. OutputStep
    BY <1>2, <2>2 DEF Rolls, LogFiles, OutputStep
  <2> QED BY <1>2, <1>3, <1>4, <2>1, <2>2, <2>3, Zenon
<1>10. CASE Start \/ Started \/ Stop \/ Stopped \/ \E t \in Producers \cup {User, Logger} : Wakeup(t)
  <2>1. UNCHANGED <<queue, now, lines, msg, output>> /\ (pc' = pc \/ pc' = "start")
    BY <1>10, Zenon DEF Start, Started, Stop, Stopped, Wakeup, SpuriousWakeup
  <2> QED BY <1>2, <1>3, <1>4, <2>1, Zenon DEF OutputStep
<1> QED BY <1>1, <1>5, <1>6, <1>7, <1>8, <1>9, <1>10, Zenon DEF Next, LogStep

LEMMA LoggersInit == MCInit => LoggersInv
<1> SUFFICES ASSUME MCInit PROVE LoggersInv
  BY Zenon
<1>1. /\ lines = 0 /\ now = 1 /\ output = NoLogFile /\ queue = <<>> /\ msg = 0 /\ pc = "none"
      /\ currentBuffer = <<>> /\ nextBuffer = <<>> /\ buffers = <<>> /\ buffersToWrite = <<>>
      /\ newBuffer1 = D!None /\ newBuffer2 = D!None /\ next = 1
  BY Zenon DEF MCInit, Init, D!Init, Empty
<1>2. output \in LogFiles /\ Named(output)
  BY <1>1, NewLogFileFacts, Zenon
<1>3. /\ <<>> \in Seq(Nat) /\ <<>> \in Seq(Seq(Nat)) /\ D!None \in Seq(Nat) /\ D!None # <<>>
      /\ 0 \in Nat /\ 1 \in Nat \ {0}
  BY DEF D!None
<1> QED BY <1>1, <1>2, <1>3, Zenon DEF LoggersInv, LoggersTypeOK, Spares

LEMMA LoggersStep ==
    ASSUME LoggersInv, [MCNext]_allVars
    PROVE  LoggersInv' /\ OutputStep
<1>1. CASE Tick
  <2>1. UNCHANGED <<lines, output, logger, queue, msg, pc, currentBuffer, nextBuffer, buffers,
                    newBuffer1, newBuffer2, buffersToWrite, next>>
    BY <1>1, Zenon DEF Tick, doubleOnly, queueOnly
  <2>2. now' \in Nat
    <3>1. now' \in {now - 1, now + 1} /\ now' \in 1 .. MaxTime /\ now \in Nat
      BY <1>1, Zenon DEF Tick, LoggersInv, LoggersTypeOK
    <3> QED BY <3>1
  <2> QED BY <2>1, <2>2, Zenon DEF LoggersInv, LoggersTypeOK, Spares, OutputStep
<1>2. CASE UNCHANGED allVars
  <2>1. UNCHANGED <<now, lines, output, logger, queue, msg, pc, currentBuffer, nextBuffer, buffers,
                    newBuffer1, newBuffer2, buffersToWrite, next>>
    BY <1>2, Zenon DEF allVars, vars, queueVars, doubleOnly
  <2> QED BY <2>1, Zenon DEF LoggersInv, LoggersTypeOK, Spares, OutputStep
<1> QED BY <1>1, <1>2, DoubleStep, QueueStep, Zenon DEF MCNext

\* AsyncLoggingDoubleBuffering.h, threadFunc, for any size of a buffer and any number
\* of buffers from which on some are dropped, two at least: where the loop asserts that
\* both spares are there and empty they are.
THEOREM SparesReadyCorrect == MCSpec => []SparesReady
<1>1. LoggersInv /\ [MCNext]_allVars => LoggersInv'
  BY LoggersStep, Zenon
<1>2. LoggersInv => SparesReady
  BY Zenon DEF LoggersInv, Spares, SparesReady, D!SparesReady
<1> QED BY LoggersInit, <1>1, <1>2, PTL DEF MCSpec

\* LogFile.cc, append_unlocked and rollFile, for any roll size and periods, with either
\* logger and a clock that may be set back: a file outgrows the roll size only within
\* the second it was opened in, a new day is noticed, and no two files have one name.
THEOREM RollsOverCorrect == MCSpec => RollsOver
<1>1. LoggersInv /\ [MCNext]_allVars => LoggersInv'
  BY LoggersStep, Zenon
<1> DEFINE A ==
      /\ output'.writtenBytes > output.writtenBytes =>
             /\ output'.writtenBytes > rollSize => now <= output'.lastRoll
             /\ output'.count = 0 /\ output.count > kCheckTimeRoll =>
                   output'.startOfPeriod = Period(now) \/ now <= output'.lastRoll
      /\ \A i, j \in DOMAIN output'.files : i < j => output'.files[i].name # output'.files[j].name
<1>2. LoggersInv /\ [MCNext]_allVars => [A]_output
  <2> SUFFICES ASSUME LoggersInv, [MCNext]_allVars, output' # output PROVE A
    BY Zenon
  <2>1. Rolls(output, output', now) /\ LoggersInv'
    BY LoggersStep, Zenon DEF OutputStep
  <2>2. output' \in LogFiles /\ Named(output')
    BY <2>1, Zenon DEF LoggersInv, LoggersTypeOK
  <2>3. \A i, j \in DOMAIN output'.files : i < j => output'.files[i].name # output'.files[j].name
    <3>1. \A i \in DOMAIN output'.files : output'.files[i].name \in Nat
      <4>1. output'.files \in Seq(Files)
        BY <2>2, Zenon DEF LogFiles
      <4>2. \A i \in DOMAIN output'.files : output'.files[i] \in Files
        BY <4>1, ElementOfSeq, LenProperties, Zenon
      <4> QED BY <4>2, Zenon DEF Files
    <3> QED BY <2>2, <3>1 DEF Named
  <2> QED BY <2>1, <2>3, Zenon DEF Rolls
<1>3. RollsOver <=> [][A]_output
  BY Zenon DEF RollsOver
<1> QED BY LoggersInit, <1>1, <1>2, <1>3, PTL DEF MCSpec

-----------------------------------------------------------------------------
(* The order of the lines.                                                 *)

\* Lists of buffers, in which the lines are looked at.
Buffers == Seq(Seq(Nat))

\* Every line of one list of buffers comes before every line of another.
Below(a, b) ==
    \A x, y \in Nat \ {0} : Holds(a, x) /\ Holds(b, y) => x < y

\* A single buffer.
In(s, n) == \E k \in DOMAIN s : s[k] = n
Rising(s) == \A k, l \in DOMAIN s : k < l /\ s[k] # 0 /\ s[l] # 0 => s[k] < s[l]

\* The lines of two buffers, and of two lists of buffers, joined.
LEMMA InConcat ==
    ASSUME NEW s \in Seq(Nat), NEW t \in Seq(Nat), NEW n
    PROVE  In(s \o t, n) <=> In(s, n) \/ In(t, n)
<1>1. /\ \A i \in DOMAIN s : i \in DOMAIN (s \o t) /\ (s \o t)[i] = s[i]
      /\ \A i \in DOMAIN t : i + Len(s) \in DOMAIN (s \o t) /\ (s \o t)[i + Len(s)] = t[i]
      /\ \A i \in DOMAIN (s \o t) : i \in DOMAIN s \/ i - Len(s) \in DOMAIN t
      /\ \A i \in DOMAIN (s \o t) : i \notin DOMAIN s => (s \o t)[i] = t[i - Len(s)]
  OBVIOUS
<1> QED BY <1>1, Zenon DEF In

LEMMA HoldsConcat ==
    ASSUME NEW a \in Buffers, NEW b \in Buffers, NEW n
    PROVE  Holds(a \o b, n) <=> Holds(a, n) \/ Holds(b, n)
<1> DEFINE u == a \o b
<1>1. /\ \A i \in DOMAIN a : i \in DOMAIN u /\ u[i] = a[i]
      /\ \A i \in DOMAIN b : i + Len(a) \in DOMAIN u /\ u[i + Len(a)] = b[i]
      /\ \A i \in DOMAIN u : i \in DOMAIN a \/ i - Len(a) \in DOMAIN b
      /\ \A i \in DOMAIN u : i \notin DOMAIN a => u[i] = b[i - Len(a)]
  BY DEF Buffers
<1> HIDE DEF u
<1>2. ASSUME NEW i \in DOMAIN a, NEW k \in DOMAIN a[i], a[i][k] = n PROVE Holds(u, n)
  <2>1. i \in DOMAIN u /\ u[i] = a[i]
    BY <1>1, Zenon
  <2> QED BY <1>2, <2>1, Zenon DEF Holds
<1>3. ASSUME NEW i \in DOMAIN b, NEW k \in DOMAIN b[i], b[i][k] = n PROVE Holds(u, n)
  <2>1. i + Len(a) \in DOMAIN u /\ u[i + Len(a)] = b[i]
    BY <1>1, Zenon
  <2> QED BY <1>3, <2>1, Zenon DEF Holds
<1>4. ASSUME NEW i \in DOMAIN u, NEW k \in DOMAIN u[i], u[i][k] = n
      PROVE  Holds(a, n) \/ Holds(b, n)
  <2>1. CASE i \in DOMAIN a
    <3>1. u[i] = a[i]
      BY <1>1, <2>1, Zenon
    <3> QED BY <1>4, <2>1, <3>1, Zenon DEF Holds
  <2>2. CASE i \notin DOMAIN a
    <3>1. i - Len(a) \in DOMAIN b /\ u[i] = b[i - Len(a)]
      BY <1>1, <2>2, Zenon
    <3> QED BY <1>4, <3>1, Zenon DEF Holds
  <2> QED BY <2>1, <2>2, Zenon
<1> QED BY <1>2, <1>3, <1>4, Zenon DEF Holds, u

\* They are in order if both parts are and the one is below the other.
LEMMA RisingConcat ==
    ASSUME NEW s \in Seq(Nat), NEW t \in Seq(Nat)
    PROVE  Rising(s \o t) <=> /\ Rising(s) /\ Rising(t)
                              /\ \A x, y \in Nat \ {0} : In(s, x) /\ In(t, y) => x < y
<1> DEFINE u == s \o t
           m == Len(s)
<1>1. /\ m \in Nat /\ DOMAIN s = 1 .. m /\ DOMAIN t = 1 .. Len(t) /\ Len(t) \in Nat
      /\ DOMAIN u = 1 .. m + Len(t)
      /\ \A i \in 1 .. m : u[i] = s[i]
      /\ \A i \in 1 .. Len(t) : u[i + m] = t[i]
      /\ \A i \in 1 .. m : s[i] \in Nat
      /\ \A i \in 1 .. Len(t) : t[i] \in Nat
  OBVIOUS
<1> HIDE DEF u, m
<1>2. ASSUME Rising(u) PROVE Rising(s)
  BY <1>1, <1>2 DEF Rising
<1>3. ASSUME Rising(u) PROVE Rising(t)
  <2> SUFFICES ASSUME NEW k \in DOMAIN t, NEW l \in DOMAIN t, k < l, t[k] # 0, t[l] # 0
               PROVE  t[k] < t[l]
    BY Zenon DEF Rising
  <2>1. k + m \in DOMAIN u /\ l + m \in DOMAIN u /\ k + m < l + m
    BY <1>1
  <2>2. u[k + m] = t[k] /\ u[l + m] = t[l]
    BY <1>1, Zenon
  <2> QED BY <1>3, <2>1, <2>2, Zenon DEF Rising
<1>4. ASSUME Rising(u), NEW x \in Nat \ {0}, NEW y \in Nat \ {0}, In(s, x), In(t, y) PROVE x < y
  <2>1. PICK k \in DOMAIN s, l \in DOMAIN t : s[k] = x /\ t[l] = y
    BY <1>4, Zenon DEF In
  <2>2. k \in DOMAIN u /\ l + m \in DOMAIN u /\ k < l + m
    BY <1>1
  <2>3. u[k] = x /\ u[l + m] = y
    BY <1>1, <2>1, Zenon
  <2> QED BY <1>4, <2>2, <2>3, Zenon DEF Rising
<1>5. ASSUME Rising(s), Rising(t), \A x, y \in Nat \ {0} : In(s, x) /\ In(t, y) => x < y
      PROVE  Rising(u)
  <2> SUFFICES ASSUME NEW k \in DOMAIN u, NEW l \in DOMAIN u, k < l, u[k] # 0, u[l] # 0
               PROVE  u[k] < u[l]
    BY Zenon DEF Rising
  <2>1. CASE k \in DOMAIN s /\ l \in DOMAIN s
    BY <1>1, <1>5, <2>1, Zenon DEF Rising
  <2>2. CASE k \in DOMAIN s /\ l \notin DOMAIN s
    <3>1. l - m \in DOMAIN t /\ l = (l - m) + m
      BY <1>1, <2>2
    <3>2. u[l] = t[l - m] /\ u[k] = s[k] /\ u[l] \in Nat \ {0} /\ u[k] \in Nat \ {0}
      BY <1>1, <2>2, <3>1, Zenon
    <3>3. In(s, u[k]) /\ In(t, u[l])
      BY <2>2, <3>1, <3>2, Zenon DEF In
    <3> QED BY <1>5, <3>2, <3>3, Zenon
  <2>3. CASE k \notin DOMAIN s
    <3>1. /\ k - m \in DOMAIN t /\ k = (k - m) + m
          /\ l - m \in DOMAIN t /\ l = (l - m) + m /\ k - m < l - m
      BY <1>1, <2>3
    <3>2. u[l] = t[l - m] /\ u[k] = t[k - m]
      BY <1>1, <3>1, Zenon
    <3> QED BY <1>5, <3>1, <3>2, Zenon DEF Rising
  <2> QED BY <2>1, <2>2, <2>3, Zenon
<1> QED BY <1>2, <1>3, <1>4, <1>5, Zenon DEF u

LEMMA AscendingConcat ==
    ASSUME NEW a \in Buffers, NEW b \in Buffers
    PROVE  Ascending(a \o b) <=> Ascending(a) /\ Ascending(b) /\ Below(a, b)
<1> DEFINE u == a \o b
           m == Len(a)
<1>1. /\ m \in Nat /\ DOMAIN a = 1 .. m /\ DOMAIN b = 1 .. Len(b) /\ Len(b) \in Nat
      /\ DOMAIN u = 1 .. m + Len(b)
  BY DEF Buffers
<1>7. /\ \A i \in 1 .. m : u[i] = a[i]
      /\ \A i \in 1 .. Len(b) : u[i + m] = b[i]
      /\ \A i \in 1 .. m : a[i] \in Seq(Nat)
      /\ \A i \in 1 .. Len(b) : b[i] \in Seq(Nat)
  BY DEF Buffers
<1>2. \A s \in Seq(Nat) : \A k \in DOMAIN s : k \in Nat /\ s[k] \in Nat
  OBVIOUS
<1> HIDE DEF u, m
<1>3. ASSUME Ascending(u) PROVE Ascending(a)
  <2>1. \A i \in DOMAIN a : i \in DOMAIN u /\ u[i] = a[i]
    BY <1>1, <1>7
  <2> QED BY <1>3, <2>1, Zenon DEF Ascending
<1>4. ASSUME Ascending(u) PROVE Ascending(b)
  <2>1. \A i \in DOMAIN b : i + m \in DOMAIN u /\ u[i + m] = b[i]
    <3>1. \A i \in DOMAIN b : i + m \in DOMAIN u
      BY <1>1
    <3> QED BY <1>1, <1>7, <3>1, Zenon
  <2>2. \A i, j \in DOMAIN b : (i < j <=> i + m < j + m) /\ (i = j <=> i + m = j + m)
    BY <1>1
  <2> SUFFICES ASSUME NEW i \in DOMAIN b, NEW j \in DOMAIN b, NEW k \in DOMAIN b[i], NEW l \in DOMAIN b[j],
                      i < j \/ (i = j /\ k < l), b[i][k] # 0, b[j][l] # 0
               PROVE  b[i][k] < b[j][l]
    BY Zenon DEF Ascending
  <2>3. i + m < j + m \/ (i + m = j + m /\ k < l)
    BY <2>2, Zenon
  <2> QED BY <1>4, <2>1, <2>3, Zenon DEF Ascending
<1>5. ASSUME Ascending(u) PROVE Below(a, b)
  <2> SUFFICES ASSUME NEW x \in Nat \ {0}, NEW y \in Nat \ {0}, Holds(a, x), Holds(b, y) PROVE x < y
    BY Zenon DEF Below
  <2>1. PICK i \in DOMAIN a : \E k \in DOMAIN a[i] : a[i][k] = x
    BY Zenon DEF Holds
  <2>2. PICK k \in DOMAIN a[i] : a[i][k] = x
    BY <2>1, Zenon
  <2>3. PICK j \in DOMAIN b : \E l \in DOMAIN b[j] : b[j][l] = y
    BY Zenon DEF Holds
  <2>4. PICK l \in DOMAIN b[j] : b[j][l] = y
    BY <2>3, Zenon
  <2>5. i \in DOMAIN u /\ j + m \in DOMAIN u /\ i < j + m
    BY <1>1
  <2>6. u[i] = a[i] /\ u[j + m] = b[j] /\ x # 0 /\ y # 0
    BY <1>1, <1>7, Zenon
  <2> QED BY <1>5, <2>2, <2>4, <2>5, <2>6, Zenon DEF Ascending
<1>6. ASSUME Ascending(a), Ascending(b), Below(a, b) PROVE Ascending(u)
  <2> SUFFICES ASSUME NEW i \in DOMAIN u, NEW j \in DOMAIN u, NEW k \in DOMAIN u[i], NEW l \in DOMAIN u[j],
                      i < j \/ (i = j /\ k < l), u[i][k] # 0, u[j][l] # 0
               PROVE  u[i][k] < u[j][l]
    BY Zenon DEF Ascending
  <2>1. CASE i \in DOMAIN a /\ j \in DOMAIN a
    <3>1. u[i] = a[i] /\ u[j] = a[j]
      BY <1>1, <1>7, <2>1, Zenon
    <3> QED BY <1>6, <2>1, <3>1, Zenon DEF Ascending
  <2>2. CASE i \in DOMAIN a /\ j \notin DOMAIN a
    <3>1. j - m \in DOMAIN b /\ j = (j - m) + m
      BY <1>1, <2>2
    <3>2. u[i] = a[i] /\ u[j] = b[j - m] /\ a[i] \in Seq(Nat) /\ b[j - m] \in Seq(Nat)
      BY <1>1, <1>7, <2>2, <3>1, Zenon
    <3>3. Holds(a, u[i][k]) /\ Holds(b, u[j][l])
      BY <2>2, <3>1, <3>2, Zenon DEF Holds
    <3>4. u[i][k] \in Nat \ {0} /\ u[j][l] \in Nat \ {0}
      BY <1>2, <3>2, Zenon
    <3> QED BY <1>6, <3>3, <3>4, Zenon DEF Below
  <2>3. CASE i \notin DOMAIN a
    <3>1. /\ i - m \in DOMAIN b /\ i = (i - m) + m
          /\ j - m \in DOMAIN b /\ j = (j - m) + m
          /\ i - m < j - m \/ (i - m = j - m /\ k < l)
      <4> DEFINE n == Len(b)
                 p == k < l
      <4>1. i \in 1 .. m + n /\ j \in 1 .. m + n /\ i \notin 1 .. m /\ n \in Nat /\ DOMAIN b = 1 .. n
        BY <1>1, <2>3, Zenon
      <4>2. i < j \/ (i = j /\ p)
        BY Zenon
      <4> HIDE DEF n, p
      <4>3. i - m \in 1 .. n /\ j - m \in 1 .. n /\ i = (i - m) + m /\ j = (j - m) + m
        BY <1>1, <4>1, <4>2
      <4>4. i < j => i - m < j - m
        BY <1>1, <4>1
      <4> QED BY <4>1, <4>2, <4>3, <4>4, Zenon DEF p
    <3>2. u[i] = b[i - m] /\ u[j] = b[j - m]
      BY <1>1, <1>7, <3>1, Zenon
    <3> QED BY <1>6, <3>1, <3>2, Zenon DEF Ascending
  <2> QED BY <2>1, <2>2, <2>3, Zenon
<1> QED BY <1>3, <1>4, <1>5, <1>6, Zenon DEF u

\* A list of one buffer, of none, and a buffer of one line.
LEMMA OneBuffer ==
    ASSUME NEW s \in Seq(Nat)
    PROVE  /\ <<s>> \in Buffers
           /\ \A n : Holds(<<s>>, n) <=> In(s, n)
           /\ Ascending(<<s>>) <=> Rising(s)
<1>1. DOMAIN <<s>> = {1} /\ <<s>>[1] = s /\ <<s>> \in Seq(Seq(Nat))
  OBVIOUS
<1> DEFINE u == <<s>>
<1> HIDE DEF u
<1>2. DOMAIN u = {1} /\ u[1] = s /\ u \in Seq(Seq(Nat))
  BY <1>1, Zenon DEF u
<1>3. ~(1 < 1)
  OBVIOUS
<1>4. (\A n : Holds(u, n) <=> In(s, n)) /\ (Ascending(u) <=> Rising(s))
  BY <1>2, <1>3, Zenon DEF Holds, In, Ascending, Rising
<1> QED BY <1>2, <1>4, Zenon DEF u, Buffers

LEMMA NoBuffer ==
    /\ <<>> \in Buffers /\ <<>> \in Seq(Nat)
    /\ Ascending(<<>>) /\ (\A n : ~Holds(<<>>, n))
    /\ Rising(<<>>) /\ (\A n : ~In(<<>>, n))
    /\ \A a \in Buffers : a \o <<>> = a /\ <<>> \o a = a
  BY DEF Buffers, Ascending, Holds, Rising, In

LEMMA OneLine ==
    ASSUME NEW n \in Nat
    PROVE  /\ <<n>> \in Seq(Nat) /\ Rising(<<n>>)
           /\ \A x : In(<<n>>, x) <=> x = n
  BY DEF Rising, In

\* An empty buffer is added.
LEMMA EmptyBuffer ==
    ASSUME NEW r \in Buffers
    PROVE  /\ r \o <<<<>>>> \in Buffers
           /\ \A x : Holds(r \o <<<<>>>>, x) <=> Holds(r, x)
           /\ Ascending(r) => Ascending(r \o <<<<>>>>)
<1>1. <<<<>>>> \in Buffers /\ (\A x : ~Holds(<<<<>>>>, x)) /\ Ascending(<<<<>>>>)
  BY NoBuffer, OneBuffer, Zenon
<1>2. r \o <<<<>>>> \in Buffers
  BY <1>1 DEF Buffers
<1>3. Below(r, <<<<>>>>)
  BY <1>1, Zenon DEF Below
<1> QED BY <1>1, <1>2, <1>3, HoldsConcat, AscendingConcat, Zenon

\* A buffer in the list grows.
LEMMA Extended ==
    ASSUME NEW p \in Buffers, NEW s \in Seq(Nat), NEW d \in Seq(Nat)
    PROVE  /\ p \o <<s>> \in Buffers /\ p \o <<s \o d>> \in Buffers
           /\ \A n : Holds(p \o <<s \o d>>, n) <=> Holds(p \o <<s>>, n) \/ In(d, n)
           /\ /\ Ascending(p \o <<s>>) /\ Rising(d)
              /\ \A x, y \in Nat \ {0} : Holds(p \o <<s>>, x) /\ In(d, y) => x < y
              => Ascending(p \o <<s \o d>>)
<1> DEFINE t == s \o d
<1>1. t \in Seq(Nat)
  OBVIOUS
<1>2. \A n : In(t, n) <=> In(s, n) \/ In(d, n)
  BY InConcat, Zenon
<1>3. Rising(t) <=> /\ Rising(s) /\ Rising(d)
                    /\ \A x, y \in Nat \ {0} : In(s, x) /\ In(d, y) => x < y
  BY RisingConcat, Zenon
<1> HIDE DEF t
<1>4. <<s>> \in Buffers /\ <<t>> \in Buffers
  BY <1>1, OneBuffer, Zenon
<1>5. p \o <<s>> \in Buffers /\ p \o <<t>> \in Buffers
  BY <1>4 DEF Buffers
<1>6. /\ \A n : Holds(p \o <<s>>, n) <=> Holds(p, n) \/ In(s, n)
      /\ \A n : Holds(p \o <<t>>, n) <=> Holds(p, n) \/ In(t, n)
  BY <1>1, <1>4, HoldsConcat, OneBuffer, Zenon
<1>7. /\ Ascending(p \o <<s>>) <=> Ascending(p) /\ Rising(s) /\ Below(p, <<s>>)
      /\ Ascending(p \o <<t>>) <=> Ascending(p) /\ Rising(t) /\ Below(p, <<t>>)
  BY <1>1, <1>4, AscendingConcat, OneBuffer, Zenon
<1>8. /\ Below(p, <<s>>) <=> \A x, y \in Nat \ {0} : Holds(p, x) /\ In(s, y) => x < y
      /\ Below(p, <<t>>) <=> \A x, y \in Nat \ {0} : Holds(p, x) /\ In(t, y) => x < y
  BY <1>1, OneBuffer, Zenon DEF Below
<1>9. \A n : Holds(p \o <<t>>, n) <=> Holds(p \o <<s>>, n) \/ In(d, n)
  BY <1>2, <1>6, Zenon
<1>10. ASSUME Ascending(p \o <<s>>), Rising(d),
              \A x, y \in Nat \ {0} : Holds(p \o <<s>>, x) /\ In(d, y) => x < y
       PROVE  Ascending(p \o <<t>>)
  <2>1. Rising(t)
    BY <1>3, <1>6, <1>7, <1>10, Zenon
  <2>2. Below(p, <<t>>)
    BY <1>2, <1>6, <1>7, <1>8, <1>10, Zenon
  <2> QED BY <1>7, <1>10, <2>1, <2>2, Zenon
<1> QED BY <1>5, <1>9, <1>10, Zenon DEF t

\* What is left of a buffer when fwrite takes only a part of it.
LEMMA Taken ==
    ASSUME NEW s \in Seq(Nat), NEW n \in 0 .. Len(s)
    PROVE  /\ SubSeq(s, 1, n) \in Seq(Nat)
           /\ \A x : In(SubSeq(s, 1, n), x) => In(s, x)
           /\ Rising(s) => Rising(SubSeq(s, 1, n))
           /\ n = Len(s) => SubSeq(s, 1, n) = s
<1>1. /\ SubSeq(s, 1, n) \in Seq(Nat) /\ DOMAIN SubSeq(s, 1, n) \subseteq DOMAIN s
      /\ \A k \in DOMAIN SubSeq(s, 1, n) : SubSeq(s, 1, n)[k] = s[k]
  OBVIOUS
<1>2. n = Len(s) => SubSeq(s, 1, n) = s
  OBVIOUS
<1> QED BY <1>1, <1>2, Zenon DEF In, Rising

-----------------------------------------------------------------------------
\* The lines in the files of a LogFile.
WrittenIn(lf) == [i \in DOMAIN lf.files |-> lf.files[i].lines]

\* They are a list of buffers, one for each file.
LEMMA WrittenInFacts ==
    ASSUME NEW lf \in LogFiles
    PROVE  /\ WrittenIn(lf) \in Buffers /\ Len(WrittenIn(lf)) = Len(lf.files)
           /\ lf.files = <<>> => WrittenIn(lf) = <<>>
           /\ lf.files # <<>> => Len(lf.files) > 0
<1> DEFINE fs == lf.files
<1>1. fs \in Seq(Files)
  BY Zenon DEF LogFiles
<1> HIDE DEF fs
<1>2. DOMAIN fs = 1 .. Len(fs) /\ Len(fs) \in Nat /\ \A i \in 1 .. Len(fs) : fs[i] \in Files
  BY <1>1
<1>3. \A i \in 1 .. Len(fs) : fs[i].lines \in Seq(Nat)
  BY <1>2, Zenon DEF Files
<1> DEFINE w == [i \in 1 .. Len(fs) |-> fs[i].lines]
<1>4. w \in Seq(Seq(Nat)) /\ Len(w) = Len(fs)
  BY <1>2, <1>3
<1>5. fs # <<>> => Len(fs) > 0
  BY <1>1
<1>6. fs = <<>> => w = <<>>
  OBVIOUS
<1> QED BY <1>2, <1>4, <1>5, <1>6, Zenon DEF WrittenIn, Buffers, fs

\* File::append: the last file grows.
LEMMA FileAppendWritten ==
    ASSUME NEW lf \in LogFiles, lf.files # <<>>, NEW data \in Seq(Nat), NEW n \in 0 .. Len(data)
    PROVE  /\ \E front \in Buffers, last \in Seq(Nat) :
                 /\ WrittenIn(lf) = front \o <<last>>
                 /\ WrittenIn(FileAppend(lf, data, n)) = front \o <<last \o SubSeq(data, 1, n)>>
           /\ FileAppend(lf, data, n).failed = (lf.failed \/ n < Len(data))
           /\ FileAppend(lf, data, n).files # <<>>
<1> DEFINE r == FileAppend(lf, data, n)
           len == Len(lf.files)
           d == SubSeq(data, 1, n)
           file == [lf.files[len] EXCEPT !.lines = @ \o d]
           files == [lf.files EXCEPT ![len] = file]
           w == WrittenIn(lf)
<1>1. r = [lf EXCEPT !.files = files, !.writtenBytes = lf.writtenBytes + Len(data),
                     !.unflushed = lf.unflushed \/ n > 0, !.failed = lf.failed \/ n < Len(data)]
  BY Zenon DEF FileAppend
<1>2. lf.files \in Seq(Files)
  BY Zenon DEF LogFiles
<1>3. w \in Seq(Seq(Nat)) /\ Len(w) = len /\ len \in Nat /\ len > 0 /\ DOMAIN lf.files = 1 .. len
  BY <1>2, WrittenInFacts DEF Buffers
<1>4. d \in Seq(Nat)
  BY Taken, Zenon
<1>5. r.files = files /\ r.failed = (lf.failed \/ n < Len(data))
  BY <1>1, Zenon DEF LogFiles
<1>6. /\ DOMAIN files = 1 .. len /\ files[len] = file
      /\ \A i \in 1 .. len : i # len => files[i] = lf.files[i]
  BY <1>3
<1>7. lf.files[len] \in Files
  BY <1>2, <1>3
<1>8. file.lines = lf.files[len].lines \o d
  BY <1>7, Zenon DEF Files
<1> HIDE DEF file, files, r, d
<1>9. files # <<>>
  <2>1. 1 \in DOMAIN files /\ DOMAIN <<>> = {}
    BY <1>3, <1>6
  <2> QED BY <2>1, Zenon
<1> DEFINE front == SubSeq(w, 1, len - 1)
           last == w[len]
<1>10. w[len] = lf.files[len].lines /\ \A i \in 1 .. len : w[i] = lf.files[i].lines
  <2>1. \A i \in 1 .. len : w[i] = lf.files[i].lines
    BY <1>3, Zenon DEF WrittenIn
  <2>2. len \in 1 .. len
    BY <1>3
  <2> QED BY <2>1, <2>2, Zenon
<1>11. WrittenIn(r) = [i \in 1 .. len |-> IF i = len THEN last \o d ELSE w[i]]
  <2>1. \A i \in 1 .. len : files[i].lines = IF i = len THEN last \o d ELSE w[i]
    BY <1>3, <1>6, <1>8, <1>10, Zenon
  <2>2. WrittenIn(r) = [i \in 1 .. len |-> files[i].lines]
    BY <1>5, <1>6, Zenon DEF WrittenIn
  <2> QED BY <2>1, <2>2, Zenon
<1> HIDE DEF w
<1>12. /\ front \in Seq(Seq(Nat)) /\ last \in Seq(Nat) /\ w = front \o <<last>>
  BY <1>3
<1>13. WrittenIn(r) = front \o <<last \o d>>
  <2> DEFINE e == last \o d
  <2>1. e \in Seq(Nat)
    BY <1>4, <1>12
  <2> HIDE DEF e
  <2>2. [i \in 1 .. len |-> IF i = len THEN e ELSE w[i]] = front \o <<e>>
    BY <1>3, <2>1
  <2> QED BY <1>11, <2>2, Zenon DEF e
<1> QED BY <1>5, <1>9, <1>12, <1>13, Zenon DEF r, w, d, Buffers

\* rollFile: perhaps an empty file is added.
LEMMA RollFileWritten ==
    ASSUME NEW lf \in LogFiles, NEW time
    PROVE  /\ WrittenIn(RollFile(lf, time)) \in {WrittenIn(lf), WrittenIn(lf) \o <<<<>>>>}
           /\ RollFile(lf, time).failed = lf.failed
           /\ lf.files # <<>> => RollFile(lf, time).files # <<>>
<1>1. CASE time > lf.lastRoll
  <2> DEFINE f == [name |-> time, lines |-> <<>>]
             r == RollFile(lf, time)
             len == Len(lf.files)
  <2>1. r = [lf EXCEPT !.lastRoll = time, !.lastFlush = time, !.startOfPeriod = Period(time),
                       !.files = Append(lf.files, f), !.writtenBytes = 0, !.unflushed = FALSE]
    BY <1>1, Zenon DEF RollFile
  <2>2. r.files = Append(lf.files, f) /\ r.failed = lf.failed
    BY <2>1, Zenon DEF LogFiles
  <2>3. lf.files \in Seq(Files)
    BY Zenon DEF LogFiles
  <2>4. f.lines = <<>>
    BY Zenon
  <2> HIDE DEF f, r
  <2>5. /\ len \in Nat /\ DOMAIN lf.files = 1 .. len /\ DOMAIN r.files = 1 .. len + 1
        /\ r.files[len + 1] = f /\ \A i \in 1 .. len : r.files[i] = lf.files[i]
        /\ \A i \in 1 .. len + 1 : i = len + 1 \/ i \in 1 .. len
    BY <2>2, <2>3
  <2>6. r.files # <<>>
    BY <2>5
  <2> DEFINE w == WrittenIn(lf)
  <2>7. w \in Seq(Seq(Nat)) /\ Len(w) = len
    BY WrittenInFacts, Zenon DEF Buffers
  <2>8. WrittenIn(r) = [i \in 1 .. len + 1 |-> IF i = len + 1 THEN <<>> ELSE w[i]]
    <3>1. \A i \in 1 .. len + 1 : r.files[i].lines = IF i = len + 1 THEN <<>> ELSE w[i]
      <4>1. \A i \in 1 .. len : w[i] = lf.files[i].lines
        BY <2>5, Zenon DEF WrittenIn
      <4> QED BY <2>4, <2>5, <4>1, Zenon
    <3> QED BY <2>5, <3>1, Zenon DEF WrittenIn
  <2> HIDE DEF w
  <2>9. [i \in 1 .. len + 1 |-> IF i = len + 1 THEN <<>> ELSE w[i]] = w \o <<<<>>>>
    BY <2>5, <2>7
  <2> QED BY <2>2, <2>6, <2>8, <2>9, Zenon DEF r, w
<1>2. CASE ~(time > lf.lastRoll)
  BY <1>2, Zenon DEF RollFile
<1> QED BY <1>1, <1>2, Zenon

\* append_unlocked: the last file grows, and perhaps an empty one is added.
LEMMA AppendFileWritten ==
    ASSUME NEW lf \in LogFiles, Named(lf), lf.files # <<>>, NEW data \in Seq(Nat),
           NEW n \in 0 .. Len(data), NEW time \in Nat, NEW r, r = AppendFile(lf, data, n, time)
    PROVE  /\ WrittenIn(r) \in Buffers /\ r.files # <<>>
           /\ r.failed = (lf.failed \/ n < Len(data))
           /\ \A x : Holds(WrittenIn(r), x) <=>
                        Holds(WrittenIn(lf), x) \/ In(SubSeq(data, 1, n), x)
           /\ /\ Ascending(WrittenIn(lf)) /\ Rising(data)
              /\ \A x, y \in Nat \ {0} : Holds(WrittenIn(lf), x) /\ In(data, y) => x < y
              => Ascending(WrittenIn(r))
<1> DEFINE f == FileAppend(lf, data, n)
           w == WrittenIn(f)
<1>1. f \in LogFiles /\ f.failed = (lf.failed \/ n < Len(data)) /\ f.files # <<>>
  BY FileAppendFacts, FileAppendWritten, Zenon
<1>2. w \in Buffers
  BY <1>1, WrittenInFacts, Zenon
<1>3. /\ \A x : Holds(w, x) <=> Holds(WrittenIn(lf), x) \/ In(SubSeq(data, 1, n), x)
      /\ /\ Ascending(WrittenIn(lf)) /\ Rising(data)
         /\ \A x, y \in Nat \ {0} : Holds(WrittenIn(lf), x) /\ In(data, y) => x < y
         => Ascending(w)
  <2>1. PICK front \in Buffers, last \in Seq(Nat) :
            /\ WrittenIn(lf) = front \o <<last>>
            /\ w = front \o <<last \o SubSeq(data, 1, n)>>
    BY FileAppendWritten, Zenon
  <2> DEFINE d == SubSeq(data, 1, n)
  <2>2. d \in Seq(Nat) /\ (\A x : In(d, x) => In(data, x)) /\ (Rising(data) => Rising(d))
    BY Taken, Zenon
  <2>3. /\ \A x : Holds(w, x) <=> Holds(WrittenIn(lf), x) \/ In(d, x)
        /\ /\ Ascending(WrittenIn(lf)) /\ Rising(d)
           /\ \A x, y \in Nat \ {0} : Holds(WrittenIn(lf), x) /\ In(d, y) => x < y
           => Ascending(w)
    <3> HIDE DEF w, d
    <3> DEFINE v == WrittenIn(lf)
    <3>1. v = front \o <<last>> /\ w = front \o <<last \o d>>
      BY <2>1, Zenon DEF d
    <3> HIDE DEF v
    <3>2. /\ \A x : Holds(w, x) <=> Holds(v, x) \/ In(d, x)
          /\ /\ Ascending(v) /\ Rising(d)
             /\ \A x, y \in Nat \ {0} : Holds(v, x) /\ In(d, y) => x < y
             => Ascending(w)
      BY <2>2, <3>1, Extended, Zenon
    <3> QED BY <3>2, Zenon DEF v
  <2> QED BY <2>2, <2>3, Zenon
<1>4. /\ WrittenIn(r) \in {w, w \o <<<<>>>>} /\ r.failed = f.failed /\ r.files # <<>>
  <2>1. r = CheckRoll(f, time)
    BY Zenon DEF AppendFile
  <2> HIDE DEF f
  <2> DEFINE g == [f EXCEPT !.count = 0]
             h == [f EXCEPT !.count = 0, !.lastFlush = time]
             i == [f EXCEPT !.count = f.count + 1]
             j == FlushFile(h)
  <2>2. /\ g.files = f.files /\ g.failed = f.failed
        /\ j.files = f.files /\ j.failed = f.failed
        /\ i.files = f.files /\ i.failed = f.failed
    BY <1>1, Zenon DEF LogFiles, FlushFile
  <2>3. g \in LogFiles
    BY <1>1, Zenon DEF LogFiles
  <2>4. r \in {RollFile(f, time), RollFile(g, time), j, g, i}
    BY <2>1, Zenon DEF CheckRoll
  <2> HIDE DEF g, h, i, j
  <2>5. WrittenIn(g) = w /\ WrittenIn(j) = w /\ WrittenIn(i) = w
    BY <2>2, Zenon DEF WrittenIn
  <2> HIDE DEF w
  <2>6. w = WrittenIn(f)
    BY Zenon DEF w
  <2> QED BY <1>1, <2>2, <2>3, <2>4, <2>5, <2>6, RollFileWritten, Zenon
<1> HIDE DEF w, f
<1>5. /\ w \o <<<<>>>> \in Buffers /\ (\A x : Holds(w \o <<<<>>>>, x) <=> Holds(w, x))
      /\ Ascending(w) => Ascending(w \o <<<<>>>>)
  BY <1>2, EmptyBuffer, Zenon
<1>6. \/ WrittenIn(r) = w
      \/ WrittenIn(r) = w \o <<<<>>>>
  BY <1>4, Zenon
<1> QED BY <1>1, <1>2, <1>3, <1>4, <1>5, <1>6, Zenon

\* What InOrder says of the lines, of one list and of the files w and the rest r.
Whole(ss, n, d, f) ==
    /\ Ascending(ss)
    /\ \A m \in 1 .. n : m = n \/ ~d => Holds(ss, m) \/ f
    /\ \A i \in DOMAIN ss : \A k \in DOMAIN ss[i] : ss[i][k] \in 0 .. n
Order(w, r, n, d, f) ==
    /\ Ascending(w) /\ Ascending(r) /\ Below(w, r)
    /\ \A m \in 1 .. n : m = n \/ ~d => Holds(w, m) \/ Holds(r, m) \/ f
    /\ \A x : Holds(w, x) \/ Holds(r, x) => x \in 0 .. n

\* The two say the same.
LEMMA OrderParts ==
    ASSUME NEW w \in Buffers, NEW r \in Buffers, NEW n, NEW d, NEW f
    PROVE  Whole(w \o r, n, d, f) <=> Order(w, r, n, d, f)
<1> DEFINE u == w \o r
<1>1. \A x : Holds(u, x) <=> Holds(w, x) \/ Holds(r, x)
  BY HoldsConcat, Zenon
<1>2. Ascending(u) <=> Ascending(w) /\ Ascending(r) /\ Below(w, r)
  BY AscendingConcat, Zenon
<1> HIDE DEF u
<1>3. (\A i \in DOMAIN u : \A k \in DOMAIN u[i] : u[i][k] \in 0 .. n) <=> \A x : Holds(u, x) => x \in 0 .. n
  BY Zenon DEF Holds
<1> QED BY <1>1, <1>2, <1>3, Zenon DEF Whole, Order, u

\* A line is appended.
LEMMA NewLine ==
    ASSUME NEW w, NEW r, NEW r2, NEW n \in Nat, NEW d, NEW f, Order(w, r, n, d, f),
           Ascending(r2), \A y : Holds(r2, y) <=> Holds(r, y) \/ y = n + 1
    PROVE  Order(w, r2, n + 1, d, f)
<1>1. Below(w, r2)
  <2> SUFFICES ASSUME NEW x \in Nat \ {0}, NEW y \in Nat \ {0}, Holds(w, x), Holds(r2, y) PROVE x < y
    BY Zenon DEF Below
  <2>1. CASE Holds(r, y)
    BY <2>1, Zenon DEF Order, Below
  <2>2. CASE y = n + 1
    <3>1. x \in 0 .. n
      BY Zenon DEF Order
    <3> QED BY <2>2, <3>1
  <2> QED BY <2>1, <2>2, Zenon
<1>2. ASSUME NEW m \in 1 .. n + 1, m = n + 1 \/ ~d PROVE Holds(w, m) \/ Holds(r2, m) \/ f
  <2>1. m \in 1 .. n \/ m = n + 1
    OBVIOUS
  <2>2. n + 1 # n
    OBVIOUS
  <2> QED BY <1>2, <2>1, <2>2, Zenon DEF Order
<1>3. ASSUME NEW x, Holds(w, x) \/ Holds(r2, x) PROVE x \in 0 .. n + 1
  <2>1. x \in 0 .. n \/ x = n + 1
    BY <1>3, Zenon DEF Order
  <2> QED BY <2>1
<1> QED BY <1>1, <1>2, <1>3, Zenon DEF Order

\* ... to the last buffer, ...
LEMMA LastLine ==
    ASSUME NEW w, NEW p \in Buffers, NEW c \in Seq(Nat), NEW n \in Nat, NEW d, NEW f,
           Order(w, p \o <<c>>, n, d, f)
    PROVE  Order(w, p \o <<c \o <<n + 1>>>>, n + 1, d, f)
<1> DEFINE r == p \o <<c>>
           e == <<n + 1>>
           r2 == p \o <<c \o e>>
<1>1. n + 1 \in Nat
  OBVIOUS
<1>2. e \in Seq(Nat) /\ Rising(e) /\ \A x : In(e, x) <=> x = n + 1
  BY <1>1, OneLine, Zenon
<1>3. Ascending(r) /\ \A x : Holds(r, x) => x \in 0 .. n
  BY Zenon DEF Order
<1> HIDE DEF e
<1>4. \A y : Holds(r2, y) <=> Holds(r, y) \/ In(e, y)
  BY <1>2, Extended, Zenon
<1>5. \A x, y \in Nat \ {0} : Holds(r, x) /\ In(e, y) => x < y
  <2> SUFFICES ASSUME NEW x \in Nat \ {0}, NEW y \in Nat \ {0}, Holds(r, x), In(e, y) PROVE x < y
    BY Zenon
  <2>1. x \in 0 .. n /\ y = n + 1
    BY <1>2, <1>3, Zenon
  <2> QED BY <2>1
<1>6. Ascending(r2)
  BY <1>2, <1>3, <1>5, Extended, Zenon
<1> HIDE DEF r, r2
<1>7. Order(w, r, n, d, f)
  BY Zenon DEF r
<1>8. Order(w, r2, n + 1, d, f)
  BY <1>2, <1>4, <1>6, <1>7, NewLine, Zenon
<1> QED BY <1>8, Zenon DEF r2, e

\* ... or in a buffer of its own.
LEMMA NextBuffer ==
    ASSUME NEW w, NEW r \in Buffers, NEW n \in Nat, NEW d, NEW f, Order(w, r, n, d, f)
    PROVE  Order(w, r \o <<<<n + 1>>>>, n + 1, d, f)
<1> DEFINE e == <<<<n + 1>>>>
           r2 == r \o e
<1>1. n + 1 \in Nat
  OBVIOUS
<1>2. <<n + 1>> \in Seq(Nat) /\ Rising(<<n + 1>>) /\ \A x : In(<<n + 1>>, x) <=> x = n + 1
  BY <1>1, OneLine, Zenon
<1>3. e \in Buffers /\ Ascending(e) /\ \A x : Holds(e, x) <=> x = n + 1
  BY <1>2, OneBuffer, Zenon
<1>4. Ascending(r) /\ \A x : Holds(r, x) => x \in 0 .. n
  BY Zenon DEF Order
<1> HIDE DEF e
<1>5. Below(r, e)
  <2> SUFFICES ASSUME NEW x \in Nat \ {0}, NEW y \in Nat \ {0}, Holds(r, x), Holds(e, y) PROVE x < y
    BY Zenon DEF Below
  <2>1. x \in 0 .. n /\ y = n + 1
    BY <1>3, <1>4, Zenon
  <2> QED BY <2>1
<1>6. Ascending(r2)
  BY <1>3, <1>4, <1>5, AscendingConcat, Zenon
<1>7. \A y : Holds(r2, y) <=> Holds(r, y) \/ y = n + 1
  BY <1>3, HoldsConcat, Zenon
<1> HIDE DEF r2
<1>8. Order(w, r2, n + 1, d, f)
  BY <1>6, <1>7, NewLine, Zenon
<1> QED BY <1>8, Zenon DEF r2, e

\* A buffer is appended to the LogFile.
LEMMA BufferWritten ==
    ASSUME NEW lf \in LogFiles, Named(lf), lf.files # <<>>, NEW data \in Seq(Nat),
           NEW k \in 0 .. Len(data), NEW time \in Nat, NEW out, out = AppendFile(lf, data, k, time),
           NEW q \in Buffers, NEW n, NEW d,
           Order(WrittenIn(lf), <<data>> \o q, n, d, lf.failed)
    PROVE  Order(WrittenIn(out), q, n, d, out.failed) /\ out.files # <<>>
<1> DEFINE w == WrittenIn(lf)
           w2 == WrittenIn(out)
           r == <<data>> \o q
<1>1. <<data>> \in Buffers /\ (\A x : Holds(<<data>>, x) <=> In(data, x)) /\ (Ascending(<<data>>) <=> Rising(data))
  BY OneBuffer, Zenon
<1>2. (\A x : Holds(r, x) <=> In(data, x) \/ Holds(q, x))
  BY <1>1, HoldsConcat, Zenon
<1>3. Ascending(r) <=> Rising(data) /\ Ascending(q) /\ Below(<<data>>, q)
  BY <1>1, AscendingConcat, Zenon
<1> HIDE DEF r
<1>4. /\ Ascending(w) /\ Ascending(r) /\ Below(w, r)
      /\ \A m \in 1 .. n : m = n \/ ~d => Holds(w, m) \/ Holds(r, m) \/ lf.failed
      /\ \A x : Holds(w, x) \/ Holds(r, x) => x \in 0 .. n
  BY Zenon DEF Order, r
<1>5. \A x, y \in Nat \ {0} : Holds(w, x) /\ In(data, y) => x < y
  BY <1>2, <1>4, Zenon DEF Below
<1> DEFINE e == SubSeq(data, 1, k)
<1>6. /\ out.files # <<>> /\ (out.failed = (lf.failed \/ k < Len(data)))
      /\ \A x : Holds(w2, x) <=> Holds(w, x) \/ In(e, x)
      /\ Ascending(w2)
  BY <1>3, <1>4, <1>5, AppendFileWritten, Zenon
<1>7. (\A x : In(e, x) => In(data, x)) /\ (k = Len(data) => e = data)
  BY Taken, Zenon
<1>8. k = Len(data) \/ k < Len(data)
  <2>1. Len(data) \in Nat
    OBVIOUS
  <2> QED BY <2>1
<1> HIDE DEF w, w2, e
<1>9. Below(w2, q)
  <2>1. Below(w, q)
    BY <1>2, <1>4, Zenon DEF Below
  <2>2. \A x, y \in Nat \ {0} : In(data, x) /\ Holds(q, y) => x < y
    BY <1>1, <1>3, <1>4, Zenon DEF Below
  <2> QED BY <1>6, <1>7, <2>1, <2>2, Zenon DEF Below
<1>10. \A m \in 1 .. n : m = n \/ ~d => Holds(w2, m) \/ Holds(q, m) \/ out.failed
  BY <1>2, <1>4, <1>6, <1>7, <1>8, Zenon
<1>11. \A x : Holds(w2, x) \/ Holds(q, x) => x \in 0 .. n
  BY <1>2, <1>4, <1>6, <1>7, Zenon
<1> QED BY <1>3, <1>4, <1>6, <1>9, <1>10, <1>11, Zenon DEF Order, w2

\* Facts of sequences.
LEMMA AppendConcat ==
    ASSUME NEW S, NEW a \in Seq(S), NEW c \in S
    PROVE  Append(a, c) = a \o <<c>> /\ Append(a, c) \in Seq(S)
  OBVIOUS

LEMMA ConcatAppend ==
    ASSUME NEW a \in Seq(Seq(Nat)), NEW b \in Seq(Seq(Nat)), NEW c \in Seq(Nat)
    PROVE  a \o Append(b, c) = (a \o b) \o <<c>>
<1> DEFINE e == <<c>>
<1>1. Append(b, c) = b \o e
  BY AppendConcat, Zenon
<1>2. e \in Seq(Seq(Nat))
  OBVIOUS
<1> HIDE DEF e
<1>3. (a \o b) \o e = a \o (b \o e)
  BY <1>2, SMT
<1> QED BY <1>1, <1>3, Zenon DEF e

LEMMA LastTwo ==
    ASSUME NEW S, NEW t \in Seq(S), Len(t) > 2
    PROVE  LET a == SubSeq(t, 1, Len(t) - 2)
               b == SubSeq(t, Len(t) - 1, Len(t))
           IN  a \in Seq(S) /\ b \in Seq(S) /\ t = a \o b /\ Len(b) = 2 /\ b[2] = t[Len(t)]
               /\ 2 \in DOMAIN b /\ b[2] \in S
<1> DEFINE a == SubSeq(t, 1, Len(t) - 2)
           b == SubSeq(t, Len(t) - 1, Len(t))
<1>1. a \in Seq(S) /\ Len(a) = Len(t) - 2 /\ \A i \in 1 .. Len(t) - 2 : a[i] = t[i]
  OBVIOUS
<1>2. /\ b \in Seq(S) /\ Len(b) = 2 /\ b[1] = t[Len(t) - 1] /\ b[2] = t[Len(t)]
      /\ 2 \in DOMAIN b /\ b[2] \in S
  OBVIOUS
<1> HIDE DEF a, b
<1>3. t = a \o b
  <2> DEFINE m == Len(t) - 2
  <2>1. /\ 1 \in 1 .. Len(t) + 1 /\ m \in 1 - 1 .. Len(t) /\ Len(t) \in m .. Len(t)
        /\ m + 1 = Len(t) - 1
    OBVIOUS
  <2>2. SubSeq(t, 1, m) \o SubSeq(t, m + 1, Len(t)) = SubSeq(t, 1, Len(t))
    BY <2>1, ConcatAdjacentSubSeq, Zenon
  <2> QED BY <2>1, <2>2, SubSeqFull, Zenon DEF a, b
<1> QED BY <1>1, <1>2, <1>3, Zenon DEF a, b

\* Drop's message is no line.
LEMMA MessageWritten ==
    ASSUME NEW lf \in LogFiles, Named(lf), lf.files # <<>>, NEW data \in Seq(Nat), Rising(data),
           \A x : In(data, x) => x = 0, NEW k \in 0 .. Len(data), NEW time \in Nat,
           NEW out, out = AppendFile(lf, data, k, time), Ascending(WrittenIn(lf))
    PROVE  /\ out.files # <<>> /\ (lf.failed => out.failed)
           /\ \A x : Holds(WrittenIn(out), x) => Holds(WrittenIn(lf), x) \/ x = 0
           /\ \A x : Holds(WrittenIn(lf), x) => Holds(WrittenIn(out), x)
           /\ Ascending(WrittenIn(out))
<1>1. \A x : In(SubSeq(data, 1, k), x) => x = 0
  BY Taken, Zenon
<1>2. \A x, y \in Nat \ {0} : Holds(WrittenIn(lf), x) /\ In(data, y) => x < y
  BY Zenon
<1>3. /\ out.files # <<>> /\ (out.failed = (lf.failed \/ k < Len(data)))
      /\ \A x : Holds(WrittenIn(out), x) <=> Holds(WrittenIn(lf), x) \/ In(SubSeq(data, 1, k), x)
      /\ Ascending(WrittenIn(out))
  <2>0. out.files # <<>>
    BY AppendFileWritten, SMT
  <2>1. out.failed = (lf.failed \/ k < Len(data))
    BY AppendFileWritten, Zenon
  <2>2. \A x : Holds(WrittenIn(out), x) <=> Holds(WrittenIn(lf), x) \/ In(SubSeq(data, 1, k), x)
    BY AppendFileWritten, Zenon
  <2>3. Ascending(WrittenIn(out))
    BY <1>2, AppendFileWritten, Zenon
  <2> QED BY <2>0, <2>1, <2>2, <2>3, Zenon
<1> QED BY <1>1, <1>3, Zenon

\* Of too many buffers the last two are kept, and the message is written.
LEMMA BuffersDropped ==
    ASSUME NEW lf \in LogFiles, Named(lf), lf.files # <<>>, NEW data \in Seq(Nat), Rising(data),
           \A x : In(data, x) => x = 0, NEW k \in 0 .. Len(data), NEW time \in Nat,
           NEW out, out = AppendFile(lf, data, k, time),
           NEW t \in Buffers, Len(t) > 2, t[Len(t)] # <<>>, \A l \in DOMAIN t[Len(t)] : t[Len(t)][l] # 0,
           NEW q \in Buffers, NEW n \in Nat, NEW d,
           Order(WrittenIn(lf), t \o q, n, d, lf.failed)
    PROVE  /\ Order(WrittenIn(out), SubSeq(t, Len(t) - 1, Len(t)) \o q, n, TRUE, out.failed)
           /\ out.files # <<>>
<1> DEFINE w == WrittenIn(lf)
           w2 == WrittenIn(out)
           a == SubSeq(t, 1, Len(t) - 2)
           b == SubSeq(t, Len(t) - 1, Len(t))
<1>1. a \in Buffers /\ b \in Buffers /\ t = a \o b /\ Len(b) = 2 /\ b[2] = t[Len(t)]
      /\ 2 \in DOMAIN b /\ b[2] \in Seq(Nat)
  BY LastTwo, Zenon DEF Buffers
<1>2. PICK y \in Nat \ {0} : Holds(b, y)
  <2>1. b[2] \in Seq(Nat) /\ 2 \in DOMAIN b
    BY <1>1, Zenon
  <2>2. 1 \in DOMAIN b[2] /\ b[2][1] \in Nat
    <3> DEFINE s == b[2]
    <3>1. s \in Seq(Nat) /\ s # <<>>
      BY <1>1, <2>1, Zenon
    <3> HIDE DEF s
    <3>2. 1 \in DOMAIN s /\ s[1] \in Nat
      BY <3>1
    <3> QED BY <3>2, Zenon DEF s
  <2>3. b[2][1] # 0
    BY <1>1, <2>2, Zenon
  <2>4. b[2][1] \in Nat \ {0} /\ Holds(b, b[2][1])
    BY <2>1, <2>2, <2>3, Zenon DEF Holds
  <2> QED BY <2>4, Zenon
<1> HIDE DEF a, b
<1>3. t \o q \in Buffers /\ b \o q \in Buffers
  BY <1>1 DEF Buffers
<1>4. /\ \A x : Holds(t, x) <=> Holds(a, x) \/ Holds(b, x)
      /\ Ascending(t) <=> Ascending(a) /\ Ascending(b) /\ Below(a, b)
  BY <1>1, HoldsConcat, AscendingConcat, Zenon
<1>5. /\ \A x : Holds(t \o q, x) <=> Holds(t, x) \/ Holds(q, x)
      /\ \A x : Holds(b \o q, x) <=> Holds(b, x) \/ Holds(q, x)
      /\ Ascending(t \o q) <=> Ascending(t) /\ Ascending(q) /\ Below(t, q)
      /\ Ascending(b \o q) <=> Ascending(b) /\ Ascending(q) /\ Below(b, q)
  BY <1>1, HoldsConcat, AscendingConcat, Zenon
<1> DEFINE r == t \o q
           r2 == b \o q
<1> HIDE DEF r, r2
<1>6. /\ Ascending(w) /\ Ascending(r) /\ Below(w, r)
      /\ \A m \in 1 .. n : m = n \/ ~d => Holds(w, m) \/ Holds(r, m) \/ lf.failed
      /\ \A x : Holds(w, x) \/ Holds(r, x) => x \in 0 .. n
  BY Zenon DEF Order, r
<1>7. /\ \A x : Holds(r, x) <=> Holds(a, x) \/ Holds(r2, x)
      /\ Ascending(r2)
  BY <1>4, <1>5, <1>6, Zenon DEF r, r2, Below
<1>10. /\ out.files # <<>> /\ (lf.failed => out.failed)
       /\ \A x : Holds(w2, x) => Holds(w, x) \/ x = 0
       /\ \A x : Holds(w, x) => Holds(w2, x)
       /\ Ascending(w2)
  BY <1>6, MessageWritten, Zenon
<1>11. n \in 1 .. n => ~Holds(w, n) /\ ~Holds(a, n)
  <2> SUFFICES ASSUME n \in 1 .. n, Holds(w, n) \/ Holds(a, n) PROVE FALSE
    BY Zenon
  <2>1. n \in Nat \ {0} /\ Holds(r, y)
    <3>1. Holds(r, y)
      BY <1>2, <1>4, <1>5, Zenon DEF r
    <3> QED BY <3>1
  <2>2. n < y
    BY <1>2, <1>4, <1>5, <1>6, <2>1, Zenon DEF Below, r
  <2>3. y \in 0 .. n
    BY <1>6, <2>1, Zenon
  <2> QED BY <2>2, <2>3
<1> HIDE DEF w, w2
<1>12. Below(w2, r2)
  BY <1>6, <1>7, <1>10, Zenon DEF Below
<1>13. \A m \in 1 .. n : m = n \/ ~TRUE => Holds(w2, m) \/ Holds(r2, m) \/ out.failed
  BY <1>6, <1>7, <1>10, <1>11, Zenon
<1>14. \A x : Holds(w2, x) \/ Holds(r2, x) => x \in 0 .. n
  <2>1. 0 \in 0 .. n
    OBVIOUS
  <2> QED BY <1>6, <1>7, <1>10, <2>1, Zenon
<1> QED BY <1>6, <1>7, <1>10, <1>12, <1>13, <1>14, Zenon DEF Order, r2, b, w2

-----------------------------------------------------------------------------
\* The files are there while the logging thread has its LogFile; with double buffering
\* there are buffers to write only between the swap and the recycling, and the current
\* buffer is empty only if no full one waits before it; with a queue the message of
\* stop() is there only after it.
Phases ==
    /\ now # 0 /\ logger \in {"double", "queue"}
    /\ user = "idle" => pc = "none"
    /\ pc \in {"none", "start"} <=> output.files = <<>>
    /\ output.files = <<>> => ~output.failed
    /\ logger = "double" =>
          /\ pc # "taken"
          /\ pc \notin {"drop", "write"} => buffersToWrite = <<>>
          /\ pc # "write" => next = 1
          /\ next <= Len(buffersToWrite) + 1
          /\ buffers # <<>> => currentBuffer # <<>>
          /\ \A k \in DOMAIN currentBuffer : currentBuffer[k] # 0
          /\ pc = "drop" =>
                /\ Len(buffersToWrite) > 1 => buffersToWrite[Len(buffersToWrite)] # <<>>
                /\ \A k \in DOMAIN buffersToWrite[Len(buffersToWrite)] :
                       buffersToWrite[Len(buffersToWrite)][k] # 0
    /\ logger = "queue" =>
          /\ msg # Empty => pc = "taken"
          /\ IF user \in {"idle", "starting", "started"}
               THEN /\ \A k \in DOMAIN queue : queue[k] # Empty
                    /\ pc = "taken" => msg # Empty
               ELSE ~running

\* The inductive invariant.
OrderInv == InOrder /\ Phases

\* InOrder, with the files and the rest apart.
OrderNow ==
    /\ Order(WrittenIn(output), OnTheWay, lines, dropped, output.failed)
    /\ pc = "taken" /\ msg = Empty => ~running
    /\ pc = "end" => ~output.unflushed

LEMMA AppendNumbered ==
    ASSUME NEW s \in Seq(Nat), NEW n \in Nat, \A k \in DOMAIN s : s[k] # 0
    PROVE  LET c == Append(s, n + 1) IN c # <<>> /\ \A k \in DOMAIN c : c[k] # 0
<1> DEFINE c == Append(s, n + 1)
<1>1. /\ Len(s) \in Nat /\ DOMAIN s = 1 .. Len(s)
      /\ DOMAIN c = 1 .. Len(s) + 1 /\ Len(c) = Len(s) + 1
  BY AppendProperties
<1>2. (\A k \in 1 .. Len(s) : c[k] = s[k]) /\ c[Len(s) + 1] = n + 1
  BY AppendProperties
<1>3. n + 1 # 0 /\ \A k \in 1 .. Len(s) + 1 : k \in 1 .. Len(s) \/ k = Len(s) + 1
  BY <1>1
<1>4. c # <<>>
  BY <1>1
<1> HIDE DEF c
<1>5. \A k \in DOMAIN c : c[k] # 0
  BY <1>1, <1>2, <1>3, Zenon
<1> QED BY <1>4, <1>5, Zenon DEF c

\* append() of double buffering keeps the order, ...
LEMMA DoubleAppendOrder ==
    ASSUME LoggersInv, OrderNow, Phases, Double(D!AppendLine)
    PROVE  OrderNow' /\ Phases'
<1> USE DEF D!frontVars, D!userVars, D!backVars, doubleOnly, queueOnly
<1> DEFINE t == SubSeq(buffersToWrite, next, Len(buffersToWrite))
           w == WrittenIn(output)
<1>1. /\ logger = "double" /\ lines' = lines + 1
      /\ UNCHANGED <<logger, queue, msg, now, pc, user, running, buffersToWrite, next, output, dropped>>
  BY Zenon DEF Double, D!AppendLine
<1>2. /\ lines \in Nat /\ currentBuffer \in Seq(Nat) /\ nextBuffer \in {D!None, <<>>}
      /\ buffers \in Seq(Seq(Nat)) /\ buffersToWrite \in Seq(Seq(Nat)) /\ next \in Nat \ {0}
  BY <1>1, Zenon DEF LoggersInv, LoggersTypeOK, Spares
<1>3. t \in Seq(Seq(Nat))
  BY <1>2
<1>4. /\ OnTheWay = t \o Append(buffers, currentBuffer)
      /\ OnTheWay' = t \o Append(buffers', currentBuffer')
  BY <1>1, Zenon DEF OnTheWay
<1>5. Order(w, OnTheWay, lines, dropped, output.failed)
  BY Zenon DEF OrderNow
<1> HIDE DEF t
<1>6. CASE Len(currentBuffer) < Capacity
  <2>1. currentBuffer' = Append(currentBuffer, lines + 1) /\ UNCHANGED buffers
    BY <1>1, <1>6, Zenon DEF Double, D!AppendLine
  <2> DEFINE p == t \o buffers
  <2>2. /\ p \in Buffers /\ OnTheWay = p \o <<currentBuffer>>
        /\ OnTheWay' = p \o <<currentBuffer \o <<lines + 1>>>>
    <3> DEFINE c == Append(currentBuffer, lines + 1)
    <3>1. c = currentBuffer \o <<lines + 1>> /\ c \in Seq(Nat)
      <4>1. lines + 1 \in Nat
        BY <1>2
      <4> QED BY <1>2, <4>1, AppendConcat, Zenon
    <3> HIDE DEF c
    <3>2. ASSUME NEW x \in Seq(Nat) PROVE t \o Append(buffers, x) = p \o <<x>>
      <4>1. t \in Seq(Seq(Nat)) /\ buffers \in Seq(Seq(Nat))
        BY <1>2, <1>3, Zenon
      <4> QED BY <4>1, ConcatAppend, Zenon
    <3>3. p \in Buffers
      BY <1>2, <1>3, ConcatProperties, Zenon DEF Buffers
    <3> QED BY <1>2, <1>4, <2>1, <3>1, <3>2, <3>3, Zenon DEF c
  <2> HIDE DEF p
  <2>3. Order(w, OnTheWay', lines + 1, dropped, output.failed)
    BY <1>2, <1>5, <2>2, LastLine, Zenon
  <2>4. currentBuffer' # <<>> /\ \A k \in DOMAIN currentBuffer' : currentBuffer'[k] # 0
    <3>1. \A k \in DOMAIN currentBuffer : currentBuffer[k] # 0
      BY <1>1, Zenon DEF Phases
    <3> QED BY <1>2, <2>1, <3>1, AppendNumbered, Zenon
  <2> QED BY <1>1, <2>1, <2>3, <2>4, Zenon DEF OrderNow, Phases
<1>7. CASE ~(Len(currentBuffer) < Capacity)
  <2>1. /\ buffers' = Append(buffers, currentBuffer)
        /\ currentBuffer' = <<>> \o <<lines + 1>>
    BY <1>1, <1>2, <1>7, Zenon DEF Double, D!AppendLine, D!FullBuffers
  <2>2. currentBuffer' = <<lines + 1>>
    BY <1>2, <2>1
  <2>3. OnTheWay' = OnTheWay \o <<<<lines + 1>>>> /\ OnTheWay \in Buffers
    <3> DEFINE e == <<lines + 1>>
               b == Append(buffers, currentBuffer)
    <3>1. e \in Seq(Nat) /\ b \in Seq(Seq(Nat))
      BY <1>2
    <3> HIDE DEF e, b
    <3>2. t \o Append(b, e) = (t \o b) \o <<e>> /\ t \o b \in Seq(Seq(Nat))
      BY <1>3, <3>1
    <3> QED BY <1>4, <2>1, <2>2, <3>2, Zenon DEF e, b, Buffers
  <2>4. Order(w, OnTheWay', lines + 1, dropped, output.failed)
    BY <1>2, <1>5, <2>3, NextBuffer, Zenon
  <2>5. currentBuffer' # <<>> /\ \A k \in DOMAIN currentBuffer' : currentBuffer'[k] # 0
    BY <1>2, <2>2
  <2> QED BY <1>1, <2>4, <2>5, Zenon DEF OrderNow, Phases
<1> QED BY <1>6, <1>7, Zenon

\* ... the swap of the buffers, which takes all lines with it, ...
LEMMA DoubleSwapOrder ==
    ASSUME LoggersInv, OrderNow, Phases, Double(D!Swap)
    PROVE  OrderNow' /\ Phases'
<1> USE DEF D!frontVars, D!userVars, D!backVars, doubleOnly, queueOnly
<1>1. /\ logger = "double" /\ pc \in {"lock", "wait"} /\ pc' = "drop"
      /\ buffersToWrite' = Append(buffers, currentBuffer) /\ buffers' = <<>>
      /\ currentBuffer' = newBuffer1
      /\ UNCHANGED <<logger, lines, queue, msg, now, user, running, next, output, dropped>>
  BY Zenon DEF Double, D!Swap
<1>2. /\ newBuffer1 = <<>> /\ buffersToWrite = <<>> /\ next = 1
      /\ currentBuffer \in Seq(Nat) /\ buffers \in Seq(Seq(Nat))
  BY <1>1, Zenon DEF LoggersInv, Spares, LoggersTypeOK, Phases
<1> DEFINE b == Append(buffers, currentBuffer)
<1>3. b \in Seq(Seq(Nat)) /\ Len(b) = Len(buffers) + 1 /\ Len(buffers) \in Nat
      /\ b[Len(b)] = currentBuffer /\ (Len(b) > 1 => buffers # <<>>)
  BY <1>2
<1> HIDE DEF b
<1>4. /\ OnTheWay = SubSeq(<<>>, 1, Len(<<>>)) \o b
      /\ OnTheWay' = SubSeq(b, 1, Len(b)) \o Append(<<>>, <<>>)
  BY <1>1, <1>2, Zenon DEF OnTheWay, b
<1>5. OnTheWay = b /\ OnTheWay' = b \o <<<<>>>>
  <2>1. SubSeq(<<>>, 1, Len(<<>>)) \o b = b
    BY <1>3
  <2>2. SubSeq(b, 1, Len(b)) = b
    BY <1>3
  <2>3. Append(<<>>, <<>>) = <<<<>>>>
    OBVIOUS
  <2> QED BY <1>4, <2>1, <2>2, <2>3, Zenon
<1>6. b \in Buffers
  BY <1>3, Zenon DEF Buffers
<1>7. Order(WrittenIn(output), OnTheWay', lines, dropped, output.failed)
  BY <1>5, <1>6, EmptyBuffer, Zenon DEF OrderNow, Order, Below
<1>8. OrderNow'
  BY <1>1, <1>7, Zenon DEF OrderNow
<1>9. /\ buffersToWrite' = b /\ next' = 1 /\ next' <= Len(buffersToWrite') + 1
      /\ \A k \in DOMAIN <<>> : <<>>[k] # 0
  <2>1. 1 <= Len(b) + 1 /\ \A k \in DOMAIN <<>> : <<>>[k] # 0
    BY <1>3
  <2> QED BY <1>1, <1>2, <2>1, Zenon DEF b
<1>10. /\ Len(b) > 1 => b[Len(b)] # <<>>
       /\ \A k \in DOMAIN b[Len(b)] : b[Len(b)][k] # 0
  BY <1>1, <1>3, Zenon DEF Phases
<1>11. Phases'
  BY <1>1, <1>2, <1>9, <1>10, Zenon DEF Phases
<1> QED BY <1>8, <1>11, Zenon

\* ... the drop, which spares the newest, ...
LEMMA DoubleDropOrder ==
    ASSUME LoggersInv, OrderNow, Phases, Double(D!Drop)
    PROVE  OrderNow' /\ Phases'
<1> USE DEF D!frontVars, D!userVars, D!backVars, doubleOnly, queueOnly
<1>1. /\ logger = "double" /\ pc = "drop" /\ pc' = "write" /\ next' = 1
      /\ buffersToWrite' = D!Kept(buffersToWrite)
      /\ UNCHANGED <<logger, lines, queue, msg, now, user, running, currentBuffer, buffers>>
  BY Zenon DEF Double, D!Drop
<1> DEFINE t == buffersToWrite
           q == Append(buffers, currentBuffer)
<1>2. /\ t \in Seq(Seq(Nat)) /\ buffers \in Seq(Seq(Nat)) /\ currentBuffer \in Seq(Nat)
      /\ output \in LogFiles /\ Named(output) /\ now \in Nat /\ lines \in Nat /\ output.files # <<>>
      /\ next = 1
  BY <1>1, Zenon DEF LoggersInv, LoggersTypeOK, Phases
<1>3. q \in Seq(Seq(Nat)) /\ Len(t) \in Nat
  BY <1>2
<1> HIDE DEF q
<1>4. /\ OnTheWay = SubSeq(t, 1, Len(t)) \o q
      /\ OnTheWay' = SubSeq(t', 1, Len(t')) \o q
  BY <1>1, <1>2, Zenon DEF OnTheWay, q
<1>5. OnTheWay = t \o q
  BY <1>2, <1>4, SubSeqFull, Zenon
<1>6. Order(WrittenIn(output), t \o q, lines, dropped, output.failed)
  BY <1>5, Zenon DEF OrderNow
<1>7. CASE Len(t) > MaxBuffers
  <2>1. t' = SubSeq(t, Len(t) - 1, Len(t))
    BY <1>1, <1>7, Zenon DEF D!Kept
  <2>2. t' \in Seq(Seq(Nat)) /\ SubSeq(t', 1, Len(t')) = t' /\ Len(t) > 2 /\ 1 <= Len(t') + 1
    <3>1. Len(t) > 2
      BY <1>3, <1>7, SizeAssumption
    <3>2. t' \in Seq(Seq(Nat)) /\ Len(t') = 2
      BY <1>2, <2>1, <3>1, LastTwo, Zenon
    <3>3. 1 <= Len(t') + 1
      BY <3>2
    <3> QED BY <3>1, <3>2, <3>3, SubSeqFull, Zenon
  <2>3. OnTheWay' = SubSeq(t, Len(t) - 1, Len(t)) \o q
    BY <1>4, <2>1, <2>2, Zenon
  <2> DEFINE z == <<0>>
  <2>4. PICK k \in Takes(output, z) : output' = AppendFile(output, z, k, now)
    BY <1>7, SameLogFile, Zenon DEF Double, D!Drop, D!DropMsg
  <2>5. /\ z \in Seq(Nat) /\ Rising(z) /\ (\A x : In(z, x) => x = 0)
        /\ k \in 0 .. Len(z)
    <3>1. z \in Seq(Nat) /\ Rising(z) /\ \A x : In(z, x) => x = 0
      BY OneLine, Zenon
    <3>2. k \in 0 .. Len(z)
      BY DEF Takes
    <3> QED BY <3>1, <3>2, Zenon
  <2> HIDE DEF z
  <2>6. dropped' = TRUE
    BY <1>7, Zenon DEF Double, D!Drop
  <2>7. t[Len(t)] # <<>> /\ \A l \in DOMAIN t[Len(t)] : t[Len(t)][l] # 0
    <3>1. Len(t) > 1
      BY <1>3, <2>2
    <3> QED BY <1>1, <3>1, Zenon DEF Phases
  <2>8. Order(WrittenIn(output'), OnTheWay', lines, TRUE, output'.failed) /\ output'.files # <<>>
    BY <1>2, <1>3, <1>6, <2>2, <2>3, <2>4, <2>5, <2>7, BuffersDropped, Zenon DEF Buffers
  <2> QED BY <1>1, <2>2, <2>6, <2>8, Zenon DEF OrderNow, Phases
<1>8. CASE ~(Len(t) > MaxBuffers)
  <2>1. t' = t /\ output' = output /\ dropped' \in {dropped, FALSE} /\ (dropped => dropped')
    BY <1>1, <1>8, Zenon DEF Double, D!Drop, D!Kept
  <2>2. OnTheWay' = OnTheWay
    BY <1>4, <2>1, Zenon
  <2>3. 1 <= Len(t) + 1
    BY <1>3
  <2>4. Order(WrittenIn(output), OnTheWay, lines, dropped', output.failed)
    BY <2>1, Zenon DEF OrderNow, Order
  <2> QED BY <1>1, <2>1, <2>2, <2>3, <2>4, Zenon DEF OrderNow, Phases
<1> QED BY <1>7, <1>8, Zenon

\* ... the write of a buffer, ...
LEMMA DoubleWriteOrder ==
    ASSUME LoggersInv, OrderNow, Phases, Double(D!Write)
    PROVE  OrderNow' /\ Phases'
<1> USE DEF D!frontVars, D!userVars, D!backVars, doubleOnly, queueOnly
<1>1. /\ logger = "double" /\ pc = "write" /\ next' = next + 1 /\ next <= Len(buffersToWrite)
      /\ UNCHANGED <<logger, lines, queue, msg, now, user, running, currentBuffer, buffers, pc,
                     buffersToWrite, dropped>>
  BY Zenon DEF Double, D!Write
<1> DEFINE t == buffersToWrite
           data == t[next]
           q == SubSeq(t, next + 1, Len(t)) \o Append(buffers, currentBuffer)
<1>2. /\ t \in Seq(Seq(Nat)) /\ buffers \in Seq(Seq(Nat)) /\ currentBuffer \in Seq(Nat)
      /\ output \in LogFiles /\ Named(output) /\ now \in Nat /\ output.files # <<>>
      /\ next \in Nat \ {0}
  BY <1>1, Zenon DEF LoggersInv, LoggersTypeOK, Phases
<1>3. data \in Seq(Nat) /\ q \in Seq(Seq(Nat))
  BY <1>1, <1>2
<1>4. OnTheWay = SubSeq(t, next, Len(t)) \o Append(buffers, currentBuffer) /\ OnTheWay' = q
  BY <1>1, Zenon DEF OnTheWay
<1>5. OnTheWay = <<data>> \o q
  <2> DEFINE b == Append(buffers, currentBuffer)
             u == SubSeq(t, next + 1, Len(t))
  <2>1. b \in Seq(Seq(Nat)) /\ u \in Seq(Seq(Nat))
    BY <1>1, <1>2
  <2>2. SubSeq(t, next, Len(t)) = <<data>> \o u
    BY <1>1, <1>2
  <2> HIDE DEF b, u, data
  <2>3. (<<data>> \o u) \o b = <<data>> \o (u \o b)
    BY <1>3, <2>1
  <2> QED BY <1>4, <2>2, <2>3, Zenon DEF b, u
<1>6. PICK k \in Takes(output, data) : output' = AppendFile(output, data, k, now)
  BY SameLogFile, Zenon DEF Double, D!Write
<1> HIDE DEF data, q
<1>7. k \in 0 .. Len(data)
  BY <1>3 DEF Takes
<1>8. Order(WrittenIn(output), <<data>> \o q, lines, dropped, output.failed)
  BY <1>5, Zenon DEF OrderNow
<1>9. Order(WrittenIn(output'), q, lines, dropped, output'.failed) /\ output'.files # <<>>
  BY <1>2, <1>3, <1>6, <1>7, <1>8, BufferWritten, Zenon DEF Buffers
<1>10. next' <= Len(t) + 1
  BY <1>1, <1>2
<1> QED BY <1>1, <1>4, <1>9, <1>10, Zenon DEF OrderNow, Phases

\* Flushing changes no file.
LEMMA FlushFileWritten ==
    ASSUME NEW lf \in LogFiles
    PROVE  /\ WrittenIn(FlushFile(lf)) = WrittenIn(lf) /\ FlushFile(lf).files = lf.files
           /\ FlushFile(lf).failed = lf.failed /\ FlushFile(lf).unflushed = FALSE
<1>1. /\ FlushFile(lf).files = lf.files
      /\ FlushFile(lf).failed = lf.failed /\ FlushFile(lf).unflushed = FALSE
  BY Zenon DEF FlushFile, LogFiles
<1> QED BY <1>1, Zenon DEF WrittenIn

\* The constructor of LogFile opens a file.
LEMMA NewLogFileWritten ==
    ASSUME NEW time \in Nat, time # 0
    PROVE  /\ WrittenIn(NewLogFile(time)) = <<<<>>>>
           /\ NewLogFile(time).files # <<>> /\ NewLogFile(time).failed = FALSE
<1> DEFINE f == [name |-> time, lines |-> <<>>]
           r == NewLogFile(time)
<1>1. r.files = Append(<<>>, f) /\ r.failed = FALSE
  <2>1. NoLogFile \in LogFiles /\ NoLogFile.lastRoll = 0 /\ NoLogFile.files = <<>> /\ NoLogFile.failed = FALSE
    BY NewLogFileFacts, Zenon DEF NoLogFile
  <2>2. time > NoLogFile.lastRoll
    BY <2>1
  <2>3. r = [NoLogFile EXCEPT !.lastRoll = time, !.lastFlush = time, !.startOfPeriod = Period(time),
                       !.files = Append(<<>>, f), !.writtenBytes = 0, !.unflushed = FALSE]
    BY <2>1, <2>2, Zenon DEF NewLogFile, RollFile
  <2> QED BY <2>1, <2>3, Zenon DEF LogFiles
<1>2. f.lines = <<>>
  BY Zenon
<1> HIDE DEF f, r
<1>3. DOMAIN r.files = {1} /\ r.files[1] = f /\ r.files # <<>>
  BY <1>1
<1>4. WrittenIn(r) = [i \in {1} |-> <<>>]
  BY <1>2, <1>3, Zenon DEF WrittenIn
<1>5. [i \in {1} |-> <<>>] = <<<<>>>>
  OBVIOUS
<1> QED BY <1>1, <1>3, <1>4, <1>5, Zenon DEF r

\* ... whatever is on its way.
LEMMA FileOpened ==
    ASSUME NEW r, NEW n, NEW d, NEW f, Order(<<>>, r, n, d, f)
    PROVE  Order(<<<<>>>>, r, n, d, f)
<1>1. Ascending(<<<<>>>>) /\ \A x : ~Holds(<<<<>>>>, x)
  BY NoBuffer, OneBuffer, Zenon
<1>2. \A x : ~Holds(<<>>, x)
  BY NoBuffer, Zenon
<1> QED BY <1>1, <1>2, Zenon DEF Order, Below

\* ... the recycling of those that are written, ...
LEMMA DoubleRecycleOrder ==
    ASSUME LoggersInv, OrderNow, Phases, Double(D!Recycle)
    PROVE  OrderNow' /\ Phases'
<1> USE DEF D!frontVars, D!userVars, D!backVars, doubleOnly, queueOnly
<1>1. /\ logger = "double" /\ pc = "write" /\ pc' = "loop" /\ next' = 1 /\ buffersToWrite' = <<>>
      /\ output' = FlushFile(output) /\ next > Len(buffersToWrite)
      /\ UNCHANGED <<logger, lines, queue, msg, now, user, running, currentBuffer, buffers, dropped>>
  BY SameLogFile, Zenon DEF Double, D!Recycle
<1>2. /\ buffersToWrite \in Seq(Seq(Nat)) /\ output \in LogFiles /\ next \in Nat \ {0}
  BY <1>1, Zenon DEF LoggersInv, LoggersTypeOK
<1>3. /\ SubSeq(buffersToWrite, next, Len(buffersToWrite)) = <<>>
      /\ SubSeq(<<>>, 1, Len(<<>>)) = <<>> /\ 1 <= Len(<<>>) + 1
  BY <1>1, <1>2
<1>4. OnTheWay' = OnTheWay
  BY <1>1, <1>3, Zenon DEF OnTheWay
<1>5. /\ WrittenIn(output') = WrittenIn(output) /\ output'.files = output.files
      /\ output'.failed = output.failed
  BY <1>1, <1>2, FlushFileWritten, Zenon
<1> QED BY <1>1, <1>3, <1>4, <1>5, Zenon DEF OrderNow, Phases

\* ... and every other step.
LEMMA DoubleOrder ==
    ASSUME LoggersInv, OrderNow, Phases, Double(D!Next)
    PROVE  OrderNow' /\ Phases'
<1> USE DEF D!frontVars, D!userVars, D!backVars, doubleOnly, queueOnly
<1>1. output \in LogFiles /\ now \in Nat /\ now # 0
  BY Zenon DEF LoggersInv, LoggersTypeOK, Phases
<1>2. CASE Double(D!Start) \/ Double(D!Started) \/ Double(D!Stop) \/ Double(D!Stopped)
           \/ Double(D!Wait)
  <2>1. /\ logger = "double"
        /\ UNCHANGED <<logger, lines, queue, msg, now, output, currentBuffer, buffers, dropped,
                       buffersToWrite, next>>
        /\ \/ pc' = pc /\ user' # "idle"
           \/ user = "idle" /\ pc' = "start" /\ user' # "idle"
           \/ pc = "lock" /\ pc' = "wait" /\ user' = user
    BY <1>2, Zenon DEF Double, D!Start, D!Started, D!Stop, D!Stopped, D!Wait
  <2>2. OnTheWay' = OnTheWay
    BY <2>1, Zenon DEF OnTheWay
  <2> QED BY <2>1, <2>2, Zenon DEF OrderNow, Phases
<1>3. CASE Double(D!ThreadFunc)
  <2>1. /\ logger = "double" /\ pc = "start" /\ pc' = "loop" /\ output' = NewLogFile(now)
        /\ UNCHANGED <<logger, lines, queue, msg, now, user, running, currentBuffer, buffers,
                       buffersToWrite, next, dropped>>
    BY <1>3, SameLogFile, Zenon DEF Double, D!ThreadFunc
  <2>2. /\ WrittenIn(output') = <<<<>>>> /\ output'.files # <<>> /\ output'.failed = FALSE
    BY <1>1, <2>1, NewLogFileWritten, Zenon
  <2>3. WrittenIn(output) = <<>> /\ ~output.failed
    BY <1>1, <2>1, WrittenInFacts, Zenon DEF Phases
  <2>4. OnTheWay' = OnTheWay
    BY <2>1, Zenon DEF OnTheWay
  <2>5. Order(<<>>, OnTheWay, lines, dropped, FALSE)
    BY <2>3, Zenon DEF OrderNow, Order
  <2>6. Order(<<<<>>>>, OnTheWay, lines, dropped, FALSE)
    BY <2>5, FileOpened, Zenon
  <2> QED BY <2>1, <2>2, <2>4, <2>6, Zenon DEF OrderNow, Phases
<1>4. CASE Double(D!CheckRunning)
  <2>1. /\ logger = "double" /\ pc = "loop"
        /\ \/ pc' = "lock" /\ output' = output
           \/ pc' = "end" /\ output' = FlushFile(output)
        /\ UNCHANGED <<logger, lines, queue, msg, now, user, running, currentBuffer, buffers,
                       buffersToWrite, next, dropped>>
    BY <1>4, SameLogFile, Zenon DEF Double, D!CheckRunning
  <2>2. /\ WrittenIn(output') = WrittenIn(output) /\ output'.files = output.files
        /\ output'.failed = output.failed /\ (pc' = "end" => ~output'.unflushed)
    BY <1>1, <2>1, FlushFileWritten, Zenon
  <2>3. OnTheWay' = OnTheWay
    BY <2>1, Zenon DEF OnTheWay
  <2> QED BY <2>1, <2>2, <2>3, Zenon DEF OrderNow, Phases
<1>5. \/ Double(D!AppendLine) \/ Double(D!Start) \/ Double(D!Started) \/ Double(D!Stop)
      \/ Double(D!Stopped) \/ Double(D!Wait) \/ Double(D!ThreadFunc) \/ Double(D!CheckRunning)
      \/ Double(D!Swap) \/ Double(D!Drop) \/ Double(D!Write) \/ Double(D!Recycle)
  BY Zenon DEF Double, D!Next, D!LogStep
<1> QED BY <1>2, <1>3, <1>4, <1>5, DoubleAppendOrder, DoubleSwapOrder, DoubleDropOrder,
           DoubleWriteOrder, DoubleRecycleOrder, Zenon

-----------------------------------------------------------------------------
\* The message in hand and the queue.
LEMMA QueueParts ==
    ASSUME NEW m \in Nat, NEW q \in Seq(Nat)
    PROVE  /\ <<<<m>>, q>> \in Buffers /\ <<<<m>>, q>> = <<<<m>>>> \o <<q>>
           /\ <<<<m>>>> \in Buffers /\ <<q>> \in Buffers /\ <<m>> \in Seq(Nat)
           /\ \A x : Holds(<<<<m>>, q>>, x) <=> x = m \/ In(q, x)
           /\ Ascending(<<<<m>>, q>>) <=>
                 Rising(q) /\ \A x, y \in Nat \ {0} : x = m /\ In(q, y) => x < y
<1> DEFINE a == <<m>>
<1>1. a \in Seq(Nat) /\ Rising(a) /\ \A x : In(a, x) <=> x = m
  BY OneLine, Zenon
<1> HIDE DEF a
<1>2. <<a, q>> = <<a>> \o <<q>>
  BY <1>1
<1>3. /\ <<a>> \in Buffers /\ (\A x : Holds(<<a>>, x) <=> x = m) /\ Ascending(<<a>>)
      /\ <<q>> \in Buffers /\ (\A x : Holds(<<q>>, x) <=> In(q, x)) /\ (Ascending(<<q>>) <=> Rising(q))
  BY <1>1, OneBuffer, Zenon
<1>4. <<a, q>> \in Buffers
  BY <1>1 DEF Buffers
<1>5. Below(<<a>>, <<q>>) <=> \A x, y \in Nat \ {0} : x = m /\ In(q, y) => x < y
  BY <1>3, Zenon DEF Below
<1>6. \A x : Holds(<<a>> \o <<q>>, x) <=> x = m \/ In(q, x)
  BY <1>3, HoldsConcat, Zenon
<1>7. Ascending(<<a>> \o <<q>>) <=>
          Rising(q) /\ \A x, y \in Nat \ {0} : x = m /\ In(q, y) => x < y
  BY <1>3, <1>5, AscendingConcat, Zenon
<1> QED BY <1>1, <1>2, <1>3, <1>4, <1>6, <1>7, Zenon DEF a

\* put() of a line ...
LEMMA LinePut ==
    ASSUME NEW w, NEW m \in Nat, NEW q \in Seq(Nat), NEW n \in Nat, NEW d, NEW f,
           Order(w, <<<<m>>, q>>, n, d, f)
    PROVE  Order(w, <<<<m>>, Append(q, n + 1)>>, n + 1, d, f)
<1> DEFINE e == Append(q, n + 1)
<1>1. n + 1 \in Nat
  OBVIOUS
<1>2. e \in Seq(Nat) /\ e = q \o <<n + 1>>
  BY <1>1, AppendConcat, Zenon
<1> HIDE DEF e
<1>3. Order(w, <<<<m>>>> \o <<q \o <<n + 1>>>>, n + 1, d, f)
  <2> DEFINE p == <<<<m>>>>
  <2>1. p \in Buffers /\ <<<<m>>, q>> = p \o <<q>>
    BY QueueParts, Zenon
  <2>2. Order(w, p \o <<q>>, n, d, f)
    BY <2>1, Zenon
  <2> HIDE DEF p
  <2>3. Order(w, p \o <<q \o <<n + 1>>>>, n + 1, d, f)
    BY <2>1, <2>2, LastLine, Zenon
  <2> QED BY <2>3, Zenon DEF p
<1>4. <<<<m>>, e>> = <<<<m>>>> \o <<e>>
  BY <1>2, QueueParts, Zenon
<1> QED BY <1>2, <1>3, <1>4, Zenon DEF e

\* ... and of stop()'s message.
LEMMA StopPut ==
    ASSUME NEW w, NEW m \in Nat, NEW q \in Seq(Nat), NEW n \in Nat, NEW d, NEW f,
           Order(w, <<<<m>>, q>>, n, d, f)
    PROVE  Order(w, <<<<m>>, Append(q, 0)>>, n, d, f)
<1> DEFINE e == Append(q, 0)
<1>1. 0 \in Nat /\ 0 \in 0 .. n
  OBVIOUS
<1>2. <<0>> \in Seq(Nat) /\ Rising(<<0>>) /\ \A x : In(<<0>>, x) <=> x = 0
  BY <1>1, OneLine, Zenon
<1>3. e \in Seq(Nat) /\ e = q \o <<0>>
  BY <1>1, AppendConcat, Zenon
<1> HIDE DEF e
<1>4. (\A x : In(e, x) <=> In(q, x) \/ x = 0) /\ (Rising(q) => Rising(e))
  BY <1>2, <1>3, InConcat, RisingConcat, Zenon
<1> DEFINE r == <<<<m>>, q>>
           r2 == <<<<m>>, e>>
<1>5. /\ \A x : Holds(r, x) <=> x = m \/ In(q, x)
      /\ Ascending(r) <=> Rising(q) /\ \A x, y \in Nat \ {0} : x = m /\ In(q, y) => x < y
  BY QueueParts, Zenon
<1>6. /\ \A x : Holds(r2, x) <=> x = m \/ In(e, x)
      /\ Ascending(r2) <=> Rising(e) /\ \A x, y \in Nat \ {0} : x = m /\ In(e, y) => x < y
  BY <1>3, QueueParts, Zenon
<1> HIDE DEF r, r2
<1>7. Order(w, r, n, d, f)
  BY Zenon DEF r
<1>8. \A x : Holds(r2, x) <=> Holds(r, x) \/ x = 0
  BY <1>4, <1>5, <1>6, Zenon
<1>9. Ascending(r2)
  BY <1>4, <1>5, <1>6, <1>7, Zenon DEF Order
<1>10. Below(w, r2)
  BY <1>7, <1>8, Zenon DEF Below, Order
<1>11. Order(w, r2, n, d, f)
  BY <1>1, <1>7, <1>8, <1>9, <1>10, Zenon DEF Order
<1> QED BY <1>11, Zenon DEF r2, e

\* take(), with nothing in hand.
LEMMA LineTaken ==
    ASSUME NEW w, NEW q \in Seq(Nat), q # <<>>, NEW n \in Nat, NEW d, NEW f,
           Order(w, <<<< 0 >>, q>>, n, d, f)
    PROVE  Order(w, <<<<Head(q)>>, Tail(q)>>, n, d, f)
<1> DEFINE h == Head(q)
           t == Tail(q)
<1>1. h \in Nat /\ t \in Seq(Nat) /\ q = <<h>> \o t
  OBVIOUS
<1> HIDE DEF h, t
<1>2. <<h>> \in Seq(Nat) /\ Rising(<<h>>) /\ \A x : In(<<h>>, x) <=> x = h
  BY <1>1, OneLine, Zenon
<1>3. /\ \A x : In(q, x) <=> x = h \/ In(t, x)
      /\ Rising(q) <=> Rising(t) /\ \A x, y \in Nat \ {0} : x = h /\ In(t, y) => x < y
  BY <1>1, <1>2, InConcat, RisingConcat, Zenon
<1> DEFINE r == <<<<0>>, q>>
           r2 == <<<<h>>, t>>
<1>4. 0 \in Nat
  BY Zenon
<1>5. /\ \A x : Holds(r, x) <=> x = 0 \/ In(q, x)
      /\ Ascending(r) => Rising(q)
  BY <1>4, QueueParts, Zenon
<1>6. /\ \A x : Holds(r2, x) <=> x = h \/ In(t, x)
      /\ Ascending(r2) <=> Rising(t) /\ \A x, y \in Nat \ {0} : x = h /\ In(t, y) => x < y
  BY <1>1, QueueParts, Zenon
<1> HIDE DEF r, r2
<1>7. Order(w, r, n, d, f)
  BY Zenon DEF r
<1>8. Ascending(r2)
  BY <1>3, <1>5, <1>6, <1>7, Zenon DEF Order
<1>9. (\A x : Holds(r2, x) => Holds(r, x)) /\ \A x : Holds(r, x) => Holds(r2, x) \/ x = 0
  BY <1>3, <1>5, <1>6, Zenon
<1>10. Below(w, r2)
  BY <1>7, <1>9, Zenon DEF Below, Order
<1>11. \A m \in 1 .. n : m # 0
  OBVIOUS
<1>12. Order(w, r2, n, d, f)
  BY <1>7, <1>8, <1>9, <1>10, <1>11, Zenon DEF Order
<1> QED BY <1>12, Zenon DEF r2, h, t

\* The hand is empty again.
LEMMA HandEmpty ==
    ASSUME NEW w, NEW q \in Seq(Nat), NEW n \in Nat, NEW d, NEW f, Order(w, <<q>>, n, d, f)
    PROVE  Order(w, <<<<0>>, q>>, n, d, f)
<1> DEFINE r == <<q>>
           r2 == <<<<0>>, q>>
<1>1. 0 \in Nat /\ 0 \in 0 .. n
  OBVIOUS
<1>2. (\A x : Holds(r, x) <=> In(q, x)) /\ (Ascending(r) <=> Rising(q))
  BY OneBuffer, Zenon
<1>3. /\ \A x : Holds(r2, x) <=> x = 0 \/ In(q, x)
      /\ Ascending(r2) <=> Rising(q) /\ \A x, y \in Nat \ {0} : x = 0 /\ In(q, y) => x < y
  BY <1>1, QueueParts, Zenon
<1> HIDE DEF r, r2
<1>4. Order(w, r, n, d, f)
  BY Zenon DEF r
<1>5. Ascending(r2)
  BY <1>2, <1>3, <1>4, Zenon DEF Order
<1>6. Below(w, r2)
  BY <1>2, <1>3, <1>4, Zenon DEF Below, Order
<1>7. Order(w, r2, n, d, f)
  BY <1>1, <1>2, <1>3, <1>4, <1>5, <1>6, Zenon DEF Order
<1> QED BY <1>7, Zenon DEF r2

\* The steps of the logger with a queue keep it.
LEMMA QueueOrder ==
    ASSUME LoggersInv, OrderNow, Phases, Queue(Next)
    PROVE  OrderNow' /\ Phases'
<1> USE DEF queueVars
<1>1. logger = "queue" /\ logger' = logger /\ dropped' = dropped /\ Next
  BY Zenon DEF Queue, doubleOnly
<1>2. /\ output \in LogFiles /\ Named(output) /\ now \in Nat /\ now # 0 /\ lines \in Nat
      /\ msg \in Nat /\ queue \in Seq(Nat)
  BY Zenon DEF LoggersInv, LoggersTypeOK, Phases
<1>3. OnTheWay = <<<<msg>>, queue>> /\ OnTheWay' = <<<<msg'>>, queue'>>
  BY <1>1, Zenon DEF OnTheWay
<1> DEFINE w == WrittenIn(output)
<1>4. Order(w, <<<<msg>>, queue>>, lines, dropped, output.failed)
  BY <1>3, Zenon DEF OrderNow
<1>5. ASSUME NEW p \in Producers, CallAppend(p) \/ PutLine(p) PROVE OrderNow' /\ Phases'
  <2>1. UNCHANGED <<pc, msg, now, output, user, running>>
    BY <1>5, Zenon DEF CallAppend, PutLine
  <2>2. CASE queue' = queue /\ lines' = lines
    BY <1>1, <1>3, <2>1, <2>2, Zenon DEF OrderNow, Phases
  <2>3. CASE queue' = Append(queue, lines + 1) /\ lines' = lines + 1
    <3>1. Order(w, OnTheWay', lines + 1, dropped, output.failed)
      BY <1>2, <1>3, <1>4, <2>1, <2>3, LinePut, Zenon
    <3>2. (\A k \in DOMAIN queue : queue[k] # 0) => \A k \in DOMAIN queue' : queue'[k] # 0
      BY <1>2, <2>3
    <3> QED BY <1>1, <2>1, <2>3, <3>1, <3>2, Zenon DEF OrderNow, Phases, Empty
  <2>4. (queue' = queue /\ lines' = lines) \/ (queue' = Append(queue, lines + 1) /\ lines' = lines + 1)
    BY <1>5, Zenon DEF CallAppend, PutLine, WaitNotFull, Put
  <2> QED BY <2>2, <2>3, <2>4, Zenon
<1>6. CASE PutStop
  <2>1. /\ UNCHANGED <<pc, msg, now, output, lines, running>> /\ (queue' = queue \/ queue' = Append(queue, 0))
        /\ user = "stopping" /\ user' \in {"stopping", "joining"}
    BY <1>6, Zenon DEF PutStop, WaitNotFull, Put, Empty
  <2>2. Order(w, OnTheWay', lines, dropped, output.failed)
    BY <1>2, <1>3, <1>4, <2>1, StopPut, Zenon
  <2> QED BY <1>1, <2>1, <2>2, Zenon DEF OrderNow, Phases
<1>7. CASE TakeMsg
  <2>1. UNCHANGED <<now, output, lines, user, running>> /\ pc = "take"
    BY <1>7, Zenon DEF TakeMsg
  <2>2. \/ queue' = queue /\ msg' = msg /\ pc' = pc
        \/ queue # <<>> /\ queue' = Tail(queue) /\ msg' = Head(queue) /\ pc' = "taken"
    BY <1>7, Zenon DEF TakeMsg, WaitNotEmpty, Take
  <2>3. CASE queue' = queue /\ msg' = msg /\ pc' = pc
    BY <1>1, <1>3, <2>1, <2>3, Zenon DEF OrderNow, Phases
  <2>4. CASE queue # <<>> /\ queue' = Tail(queue) /\ msg' = Head(queue) /\ pc' = "taken"
    <3>1. msg = 0
      BY <1>1, <2>1, Zenon DEF Phases, Empty
    <3>2. Order(w, OnTheWay', lines, dropped, output.failed)
      BY <1>2, <1>3, <1>4, <2>4, <3>1, LineTaken, Zenon
    <3>3. (\A k \in DOMAIN queue : queue[k] # 0) => msg' # 0 /\ \A k \in DOMAIN queue' : queue'[k] # 0
      BY <1>2, <2>4
    <3>4. Phases'
      BY <1>1, <2>1, <2>4, <3>3, Zenon DEF Phases, Empty
    <3>5. msg' = 0 => ~running
      BY <1>1, <3>3, Zenon DEF Phases, Empty
    <3> QED BY <1>1, <2>1, <2>4, <3>2, <3>4, <3>5, Zenon DEF OrderNow, Empty
  <2> QED BY <2>2, <2>3, <2>4, Zenon
<1>8. CASE WriteMsg
  <2>1. UNCHANGED <<queue, now, lines, user, running>> /\ pc = "taken" /\ msg' = 0
    BY <1>8, Zenon DEF WriteMsg, Empty
  <2>2. CASE msg = Empty
    <3>1. output' = FlushFile(output) /\ pc' = "end"
      BY <1>8, <2>2, Zenon DEF WriteMsg
    <3>2. /\ WrittenIn(output') = w /\ output'.files = output.files
          /\ output'.failed = output.failed /\ output'.unflushed = FALSE
      BY <1>2, <3>1, FlushFileWritten, Zenon
    <3>3. OnTheWay' = OnTheWay
      BY <1>3, <2>1, <2>2, Zenon DEF Empty
    <3> QED BY <1>1, <2>1, <3>1, <3>2, <3>3, Zenon DEF OrderNow, Phases, Empty
  <2>3. CASE msg # Empty
    <3> DEFINE data == <<msg>>
    <3>1. PICK n \in Takes(output, data) : output' = AppendFile(output, data, n, now)
      BY <1>8, <2>3, Zenon DEF WriteMsg
    <3>2. pc' = "take" /\ output.files # <<>>
      BY <1>8, <2>1, <2>3, Zenon DEF WriteMsg, Phases
    <3>3. data \in Seq(Nat) /\ n \in 0 .. Len(data)
      BY <1>2, <3>1 DEF Takes
    <3>4. Order(w, <<data>> \o <<queue>>, lines, dropped, output.failed) /\ <<queue>> \in Buffers
      BY <1>2, <1>4, QueueParts, Zenon
    <3> HIDE DEF data
    <3>5. Order(WrittenIn(output'), <<queue>>, lines, dropped, output'.failed) /\ output'.files # <<>>
      BY <1>2, <3>1, <3>2, <3>3, <3>4, BufferWritten, Zenon
    <3>6. Order(WrittenIn(output'), OnTheWay', lines, dropped, output'.failed)
      BY <1>2, <1>3, <2>1, <3>5, HandEmpty, Zenon
    <3> QED BY <1>1, <2>1, <3>2, <3>5, <3>6, Zenon DEF OrderNow, Phases, Empty
  <2> QED BY <2>2, <2>3, Zenon
<1>9. CASE ThreadFunc
  <2>1. UNCHANGED <<queue, now, lines, msg, user, running>> /\ pc = "start" /\ pc' = "take"
        /\ output' = NewLogFile(now)
    BY <1>9, Zenon DEF ThreadFunc
  <2>2. /\ WrittenIn(output') = <<<<>>>> /\ output'.files # <<>> /\ output'.failed = FALSE
    BY <1>2, <2>1, NewLogFileWritten, Zenon
  <2>3. WrittenIn(output) = <<>> /\ ~output.failed
    BY <1>2, <2>1, WrittenInFacts, Zenon DEF Phases
  <2>4. Order(<<>>, OnTheWay, lines, dropped, FALSE)
    BY <2>3, Zenon DEF OrderNow, Order
  <2>5. Order(<<<<>>>>, OnTheWay, lines, dropped, FALSE)
    BY <2>4, FileOpened, Zenon
  <2> QED BY <1>1, <1>3, <2>1, <2>2, <2>5, Zenon DEF OrderNow, Phases
<1>10. CASE Start \/ Started \/ Stop \/ Stopped \/ \E t \in Producers \cup {User, Logger} : Wakeup(t)
  <2>1. /\ UNCHANGED <<queue, now, lines, msg, output>>
        /\ \/ user = "idle" /\ user' = "starting" /\ pc' = "start"
           \/ user = "starting" /\ user' = "started" /\ pc' = pc /\ running' = running
           \/ user = "started" /\ user' = "stopping" /\ pc' = pc /\ running' = FALSE
           \/ user = "joining" /\ user' = "stopped" /\ pc' = pc /\ running' = running
           \/ user' = user /\ pc' = pc /\ running' = running
    BY <1>10, Zenon DEF Start, Started, Stop, Stopped, Wakeup, SpuriousWakeup
  <2>2. OnTheWay' = OnTheWay
    BY <1>3, <2>1, Zenon
  <2>3. Phases'
    <3>1. CASE user = "idle" /\ user' = "starting" /\ pc' = "start"
      BY <1>1, <2>1, <3>1, Zenon DEF Phases
    <3>2. CASE user = "starting" /\ user' = "started" /\ pc' = pc /\ running' = running
      BY <1>1, <2>1, <3>2, Zenon DEF Phases
    <3>3. CASE user = "started" /\ user' = "stopping" /\ pc' = pc /\ running' = FALSE
      BY <1>1, <2>1, <3>3, Zenon DEF Phases
    <3>4. CASE user = "joining" /\ user' = "stopped" /\ pc' = pc /\ running' = running
      BY <1>1, <2>1, <3>4, Zenon DEF Phases
    <3>5. CASE user' = user /\ pc' = pc /\ running' = running
      BY <1>1, <2>1, <3>5, Zenon DEF Phases
    <3> QED BY <2>1, <3>1, <3>2, <3>3, <3>4, <3>5, Zenon
  <2> QED BY <1>1, <2>1, <2>2, <2>3, Zenon DEF OrderNow, Phases
<1> QED BY <1>1, <1>5, <1>6, <1>7, <1>8, <1>9, <1>10, Zenon DEF Next, LogStep

\* The lists of buffers have their types.
LEMMA OnTheWayFacts ==
    ASSUME NEW t \in Seq(Seq(Nat)), NEW k \in Nat \ {0}, NEW b \in Seq(Seq(Nat)),
           NEW c \in Seq(Nat), NEW m \in Nat, NEW q \in Seq(Nat)
    PROVE  /\ SubSeq(t, k, Len(t)) \o Append(b, c) \in Buffers
           /\ <<<<m>>, q>> \in Buffers
<1>1. SubSeq(t, k, Len(t)) \in Seq(Seq(Nat)) /\ Append(b, c) \in Seq(Seq(Nat))
  OBVIOUS
<1> QED BY <1>1, ConcatProperties, QueueParts, Zenon DEF Buffers

\* The invariant holds initially, and every step keeps it.
LEMMA OrderInit == MCInit => OrderInv
<1> SUFFICES ASSUME MCInit PROVE OrderInv
  BY Zenon
<1>1. /\ lines = 0 /\ now = 1 /\ output = NoLogFile /\ queue = <<>> /\ msg = 0 /\ pc = "none"
      /\ currentBuffer = <<>> /\ buffers = <<>> /\ buffersToWrite = <<>> /\ next = 1
      /\ user = "idle" /\ logger \in {"double", "queue"}
  BY Zenon DEF MCInit, Init, D!Init, Empty
<1>2. output.files = <<>> /\ output.failed = FALSE
  BY <1>1, Zenon DEF NoLogFile
<1>3. WrittenIn(output) = <<>>
  BY <1>2 DEF WrittenIn
<1>4. OnTheWay = <<<<>>>> \/ OnTheWay = <<<<0>>, <<>>>>
  <2>1. SubSeq(<<>>, 1, Len(<<>>)) = <<>> /\ Append(<<>>, <<>>) = <<<<>>>>
    OBVIOUS
  <2>2. <<>> \o <<<<>>>> = <<<<>>>>
    BY NoBuffer, OneBuffer, Zenon
  <2> QED BY <1>1, <2>1, <2>2, Zenon DEF OnTheWay
<1>5. Ascending(OnTheWay) /\ OnTheWay \in Buffers /\ \A x : Holds(OnTheWay, x) => x = 0
  <2>1. 0 \in Nat
    BY Zenon
  <2>2. Ascending(<<<<>>>>) /\ <<<<>>>> \in Buffers /\ \A x : ~Holds(<<<<>>>>, x)
    BY NoBuffer, OneBuffer, Zenon
  <2> DEFINE r == <<<<0>>, <<>>>>
  <2>3. Ascending(r) /\ r \in Buffers /\ \A x : Holds(r, x) => x = 0
    BY <2>1, NoBuffer, QueueParts, Zenon
  <2> QED BY <1>4, <2>2, <2>3, Zenon
<1>6. 1 .. 0 = {} /\ 0 \in 0 .. 0 /\ 1 <= Len(<<>>) + 1 /\ 1 # 0
  OBVIOUS
<1>7. Order(<<>>, OnTheWay, 0, dropped, FALSE)
  BY <1>5, <1>6, NoBuffer, Zenon DEF Order, Below
<1>8. Whole(Stores, lines, dropped, output.failed)
  <2>1. Whole(<<>> \o OnTheWay, 0, dropped, FALSE)
    BY <1>5, <1>7, NoBuffer, OrderParts, Zenon
  <2> QED BY <1>1, <1>2, <1>3, <2>1, Zenon DEF Stores, Written, WrittenIn
<1>9. InOrder
  BY <1>1, <1>8, Zenon DEF InOrder, Whole
<1>10. \A k \in DOMAIN <<>> : <<>>[k] # 0
  OBVIOUS
<1>11. Phases
  BY <1>1, <1>2, <1>6, <1>10, Zenon DEF Phases, Empty
<1> QED BY <1>9, <1>11, Zenon DEF OrderInv

LEMMA OrderStep ==
    ASSUME LoggersInv, OrderInv, [MCNext]_allVars
    PROVE  OrderInv'
<1>1. LoggersInv'
  BY LoggersStep, Zenon
<1>2. OnTheWay \in Buffers /\ WrittenIn(output) \in Buffers
  BY OnTheWayFacts, WrittenInFacts, Zenon DEF LoggersInv, LoggersTypeOK, OnTheWay
<1>3. OnTheWay' \in Buffers /\ WrittenIn(output') \in Buffers
  BY <1>1, OnTheWayFacts, WrittenInFacts, Zenon DEF LoggersInv, LoggersTypeOK, OnTheWay
<1>4. OrderNow /\ Phases
  <2>1. Whole(Stores, lines, dropped, output.failed)
    BY Zenon DEF OrderInv, InOrder, Whole
  <2>2. Whole(WrittenIn(output) \o OnTheWay, lines, dropped, output.failed)
    BY <2>1, Zenon DEF Stores, Written, WrittenIn
  <2>3. Order(WrittenIn(output), OnTheWay, lines, dropped, output.failed)
    BY <1>2, <2>2, OrderParts, Zenon
  <2> QED BY <2>3, Zenon DEF OrderInv, InOrder, OrderNow
<1>5. OrderNow' /\ Phases'
  <2>1. CASE Tick
    <3>1. /\ UNCHANGED <<lines, output, logger, queue, msg, pc, user, running, currentBuffer, buffers,
                         buffersToWrite, next, dropped>>
          /\ now' \in 1 .. MaxTime
      BY <2>1, Zenon DEF Tick, doubleOnly, queueOnly
    <3>2. now' # 0
      BY <3>1
    <3>3. OnTheWay' = OnTheWay
      BY <3>1, Zenon DEF OnTheWay
    <3> QED BY <1>4, <3>1, <3>2, <3>3, Zenon DEF OrderNow, Phases
  <2>2. CASE UNCHANGED allVars
    <3>1. UNCHANGED <<now, lines, output, logger, queue, msg, pc, user, running, currentBuffer, buffers,
                      buffersToWrite, next, dropped>>
      BY <2>2, Zenon DEF allVars, vars, queueVars, doubleOnly
    <3>2. OnTheWay' = OnTheWay
      BY <3>1, Zenon DEF OnTheWay
    <3> QED BY <1>4, <3>1, <3>2, Zenon DEF OrderNow, Phases
  <2> QED BY <1>4, <2>1, <2>2, DoubleOrder, QueueOrder, Zenon DEF MCNext
<1>6. Whole(WrittenIn(output') \o OnTheWay', lines', dropped', output'.failed)
  BY <1>3, <1>5, OrderParts, Zenon DEF OrderNow
<1>7. Whole(Stores', lines', dropped', output'.failed)
  BY <1>6, Zenon DEF Stores, Written, WrittenIn
<1>8. InOrder'
  BY <1>5, <1>7, Zenon DEF InOrder, Whole, OrderNow
<1> QED BY <1>5, <1>8, Zenon DEF OrderInv

\* AsyncLoggingDoubleBuffering.h and AsyncLoggingQueue.h, for any number of lines and
\* producers, any size of a buffer, of the queue and of a file: the lines in the files
\* and on their way there are in the order of the appends, all of them unless a write
\* failed or buffers were dropped, and the newest also then.
THEOREM InOrderCorrect == MCSpec => []InOrder
<1>1. LoggersInv /\ OrderInv /\ [MCNext]_allVars => LoggersInv' /\ OrderInv'
  BY LoggersStep, OrderStep, Zenon
<1>2. OrderInv => InOrder
  BY Zenon DEF OrderInv
<1> QED BY LoggersInit, OrderInit, <1>1, <1>2, PTL DEF MCSpec

=============================================================================
