-------------------------- MODULE TimerQueueProofs --------------------------
(***************************************************************************)
(* TimerQueue for any set of addresses, any delays and any number of       *)
(* calls, ticks and settings of the clock: the two sets and the timerfd.   *)
(***************************************************************************)
EXTENDS TimerQueue, SequenceTheorems, FiniteSetTheorems, WellFoundedInduction, TLAPS

Fields == [expirationTimestamp : Nat, interval : Nat, sequence : Nat \ {0}]
Call == {"addTimerInLoop", "cancelInLoop"} \X Timers

TypeOK ==
    /\ DOMAIN heap \subseteq Timers /\ IsFiniteSet(DOMAIN heap)
    /\ \A t \in DOMAIN heap : heap[t] \in Fields
    /\ numCreated \in Nat
    /\ timerList \subseteq Nat \X Timers
    /\ callingExpiredTimers \in BOOLEAN
    /\ age \in Int
    /\ alarm \in Nat /\ readable \in BOOLEAN
    /\ calls \in Seq(Call)
    /\ steps \in Nat

\* The two sets and the heap.
Agree ==
    /\ \A e \in timerList : e[2] \in DOMAIN heap /\ e[1] = heap[e[2]].expirationTimestamp
    /\ activeTimerSet = {<<t, heap[t].sequence>> : t \in Listed}

\* Every timer is in one place.
Placed ==
    /\ DOMAIN heap = Waiting \cup Listed \cup expired
    /\ Waiting \cap Listed = {} /\ Waiting \cap expired = {} /\ Listed \cap expired = {}

\* A timer is on its way to the loop in one call, and a batch is worked on by handleRead.
AddedOnce(s) == \A i, j \in DOMAIN s : s[i] = s[j] /\ s[i][1] = "addTimerInLoop" => i = j
Calls == AddedOnce(calls) /\ (~callingExpiredTimers => expired = {})

IInv == TypeOK /\ Agree /\ Placed /\ Calls /\ AlarmInTime

-----------------------------------------------------------------------------
(* Least elements.                                                         *)

\* begin() of a set that is not empty is its least element.
LEMMA MinFacts ==
    ASSUME NEW S, S \subseteq Nat, S # {}
    PROVE  Min(S) \in S /\ \A y \in S : Min(S) <= y
<1>1. PICK x \in S : \A y \in S : ~(<<y, x>> \in OpToRel(<, Nat))
  BY NatLessThanWellFounded, WFMin, Zenon
<1>2. \A y \in S : x <= y
  <2> SUFFICES ASSUME NEW y \in S, y < x PROVE FALSE
    OBVIOUS
  <2>1. <<y, x>> \in Nat \X Nat /\ <<y, x>>[1] < <<y, x>>[2]
    BY Zenon
  <2>2. <<y, x>> \in OpToRel(<, Nat)
    BY <2>1, Zenon DEF OpToRel
  <2> QED BY <1>1, <2>2, Zenon
<1> QED BY <1>2, Zenon DEF Min

LEMMA MinOfTwo ==
    ASSUME NEW a \in Int, NEW b \in Int
    PROVE  Min({a, b}) \in Int
<1>1. \E x \in {a, b} : \A y \in {a, b} : x <= y
  <2>1. CASE a <= b
    BY <2>1
  <2>2. CASE ~(a <= b)
    BY <2>2
  <2> QED BY <2>1, <2>2, Zenon
<1>2. Min({a, b}) \in {a, b}
  BY <1>1, Zenon DEF Min
<1> QED BY <1>2, Zenon

\* howMuchTimeFromNow
LEMMA HowMuchTimeFacts ==
    /\ \A w \in Nat : HowMuchTimeFromNow(w) \in Nat /\ HowMuchTimeFromNow(w) > 0
    /\ \A v, w \in Nat : v <= w => HowMuchTimeFromNow(v) <= HowMuchTimeFromNow(w)
BY DEF HowMuchTimeFromNow

-----------------------------------------------------------------------------
(* The calls of other threads.                                             *)

LEMMA AppendFacts ==
    ASSUME NEW s \in Seq(Call), NEW e \in Call, AddedOnce(s),
           e[1] = "addTimerInLoop" => e \notin Range(s)
    PROVE  /\ Append(s, e) \in Seq(Call)
           /\ Range(Append(s, e)) = Range(s) \cup {e}
           /\ AddedOnce(Append(s, e))
<1> DEFINE t == Append(s, e)
<1>1. /\ t \in Seq(Call) /\ DOMAIN t = 1 .. Len(s) + 1 /\ DOMAIN s = 1 .. Len(s) /\ Len(s) \in Nat
      /\ t[Len(s) + 1] = e /\ \A i \in 1 .. Len(s) : t[i] = s[i]
  BY AppendProperties, LenProperties
<1> HIDE DEF t
<1>2. \A x : x \in Range(t) <=> x \in Range(s) \cup {e}
  BY <1>1 DEF Range
<1>3. AddedOnce(t)
  <2> SUFFICES ASSUME NEW i \in DOMAIN t, NEW j \in DOMAIN t, t[i] = t[j], t[i][1] = "addTimerInLoop"
               PROVE  i = j
    BY Zenon DEF AddedOnce
  <2>1. CASE i \in DOMAIN s /\ j \in DOMAIN s
    BY <1>1, <2>1, Zenon DEF AddedOnce
  <2>2. CASE i \in DOMAIN s /\ j = Len(s) + 1
    BY <1>1, <2>2, Zenon DEF Range
  <2>3. CASE i = Len(s) + 1 /\ j \in DOMAIN s
    BY <1>1, <2>3, Zenon DEF Range
  <2> QED BY <1>1, <2>1, <2>2, <2>3
<1> QED BY <1>1, <1>2, <1>3, Zenon DEF t

LEMMA TailFacts ==
    ASSUME NEW s \in Seq(Call), s # <<>>, AddedOnce(s)
    PROVE  /\ Tail(s) \in Seq(Call) /\ Head(s) \in Call
           /\ Range(s) = Range(Tail(s)) \cup {Head(s)}
           /\ AddedOnce(Tail(s))
           /\ Head(s)[1] = "addTimerInLoop" => Head(s) \notin Range(Tail(s))
<1> DEFINE t == Tail(s)
<1>1. /\ t \in Seq(Call) /\ Len(t) = Len(s) - 1 /\ Head(s) = s[1]
      /\ \A i \in 1 .. Len(t) : t[i] = s[i + 1]
      /\ DOMAIN t = 1 .. Len(t) /\ DOMAIN s = 1 .. Len(s) /\ Len(s) \in Nat \ {0}
      /\ Head(s) \in Call
  BY HeadTailProperties, LenProperties, EmptySeq
<1> HIDE DEF t
<1>2. /\ \A i \in DOMAIN t : t[i] = s[i + 1] /\ i + 1 \in DOMAIN s /\ i + 1 # 1
      /\ \A i \in DOMAIN s : i = 1 \/ (i - 1 \in DOMAIN t /\ s[i] = t[i - 1])
      /\ 1 \in DOMAIN s
  BY <1>1
<1>3. \A x : x \in Range(s) <=> x \in Range(t) \cup {s[1]}
  BY <1>2 DEF Range
<1>4. AddedOnce(t)
  <2> SUFFICES ASSUME NEW i \in DOMAIN t, NEW j \in DOMAIN t, t[i] = t[j], t[i][1] = "addTimerInLoop"
               PROVE  i = j
    BY Zenon DEF AddedOnce
  <2>1. i + 1 = j + 1
    BY <1>2 DEF AddedOnce
  <2> QED BY <1>1, <2>1
<1>5. s[1][1] = "addTimerInLoop" => s[1] \notin Range(t)
  BY <1>2 DEF AddedOnce, Range
<1> QED BY <1>1, <1>3, <1>4, <1>5, Zenon DEF t

LEMMA WaitingFacts ==
    ASSUME NEW s \in Seq(Call)
    PROVE  \A t : t \in {c[2] : c \in {d \in Range(s) : d[1] = "addTimerInLoop"}}
                  <=> <<"addTimerInLoop", t>> \in Range(s)
<1>1. \A c \in Range(s) : c = <<c[1], c[2]>>
  <2>1. \A i \in DOMAIN s : s[i] \in Call
    BY ElementOfSeq, LenProperties, Zenon
  <2> QED BY <2>1 DEF Range, Call
<1> QED BY <1>1, Zenon

LEMMA ListedFacts ==
    ASSUME NEW L, L \subseteq Nat \X Timers
    PROVE  \A t : t \in {e[2] : e \in L} <=> \E w \in Nat : <<w, t>> \in L
<1>1. \A e \in L : e = <<e[1], e[2]>> /\ e[1] \in Nat
  OBVIOUS
<1>2. ASSUME NEW t, NEW w \in Nat, <<w, t>> \in L PROVE t \in {e[2] : e \in L}
  BY <1>2
<1>3. ASSUME NEW t, t \in {e[2] : e \in L} PROVE \E w \in Nat : <<w, t>> \in L
  BY <1>1, <1>3, Zenon
<1> QED BY <1>2, <1>3, Zenon

-----------------------------------------------------------------------------
(* addTimerInLoop                                                          *)

\* The timerfd after insert: moved when the new timer is the first, and else set for
\* one that is no later.
LEMMA AddTimerAlarm ==
    ASSUME TypeOK, AlarmInTime, NEW t, AddTimerInLoop(t, heap'),
           heap'[t].expirationTimestamp \in Nat, UNCHANGED <<callingExpiredTimers, steps>>
    PROVE  AlarmInTime' /\ alarm' \in Nat /\ readable' \in BOOLEAN
<1> DEFINE when == heap'[t].expirationTimestamp
           times == {e[1] : e \in timerList}
           first == Min(times)
<1>1. timerList' = timerList \cup {<<when, t>>}
  BY Zenon DEF AddTimerInLoop
<1>2. PICK changed \in BOOLEAN :
         /\ EarliestChanged(when, changed)
         /\ IF changed THEN ResetTimerfd(when) ELSE UNCHANGED <<alarm, readable>>
  BY Zenon DEF AddTimerInLoop
<1>3. \A e \in timerList : e[1] \in Nat
  BY Zenon DEF TypeOK
<1>4. when \in Nat /\ times \subseteq Nat /\ (timerList # {} => times # {})
  BY <1>3, Zenon
<1>5. timerList # {} => first \in times /\ \A y \in times : first <= y
  BY <1>4, MinFacts, Zenon
<1>6. CASE changed
  <2>1. alarm' = HowMuchTimeFromNow(when) /\ readable' = FALSE
    BY <1>2, <1>6, Zenon DEF ResetTimerfd
  <2>2. \A e \in timerList : when <= e[1]
    <3> SUFFICES ASSUME NEW e \in timerList PROVE when <= e[1]
      BY Zenon
    <3>1. first \in Nat /\ first <= e[1] /\ e[1] \in Nat
      BY <1>3, <1>4, <1>5, Zenon
    <3>2. when < first \/ (when = 0 /\ first = 0)
      BY <1>2, <1>6, Zenon DEF EarliestChanged
    <3> QED BY <1>4, <3>1, <3>2
  <2>3. \A e \in timerList' : e[1] \in Nat /\ when <= e[1]
    BY <1>1, <1>3, <1>4, <2>2
  <2> HIDE DEF when
  <2>4. alarm' \in Nat /\ alarm' > 0 /\ \A e \in timerList' : alarm' <= HowMuchTimeFromNow(e[1])
    BY <1>4, <2>1, <2>3, HowMuchTimeFacts, Zenon
  <2> QED BY <2>1, <2>4, Zenon DEF AlarmInTime
<1>7. CASE ~changed
  <2>1. alarm' = alarm /\ readable' = readable
    BY <1>2, <1>7, Zenon
  <2>2. timerList # {} /\ first <= when
    <3>1. timerList # {}
      BY <1>2, <1>7, Zenon DEF EarliestChanged
    <3>2. first \in Nat
      BY <1>4, <1>5, <3>1, Zenon
    <3>3. (when = 0 /\ first = 0) \/ ~(when < first)
      BY <1>2, <1>7, <3>1, Zenon DEF EarliestChanged
    <3> QED BY <1>4, <3>1, <3>2, <3>3
  <2>3. PICK f \in timerList : f[1] = first
    BY <1>5, <2>2, Zenon
  <2> HIDE DEF when, times, first
  <2>4. f[1] \in Nat /\ f[1] <= when
    BY <1>3, <2>2, <2>3, Zenon
  <2>5. ASSUME ~callingExpiredTimers', ~readable', NEW e \in timerList'
        PROVE  alarm' > 0 /\ (steps' = 0 => alarm' <= HowMuchTimeFromNow(e[1]))
    <3>1. \A g \in timerList : alarm > 0 /\ (steps = 0 => alarm <= HowMuchTimeFromNow(g[1]))
      BY <2>1, <2>5, Zenon DEF AlarmInTime
    <3>2. CASE e \in timerList
      BY <2>1, <3>1, <3>2, Zenon
    <3>3. CASE e = <<when, t>>
      <4>1. e[1] = when
        BY <3>3, Zenon
      <4>2. HowMuchTimeFromNow(f[1]) <= HowMuchTimeFromNow(when)
        BY <1>4, <2>4, HowMuchTimeFacts, Zenon
      <4>3. HowMuchTimeFromNow(f[1]) \in Nat /\ HowMuchTimeFromNow(when) \in Nat /\ alarm \in Nat
        BY <1>4, <2>4, HowMuchTimeFacts, Zenon DEF TypeOK
      <4> QED BY <2>1, <3>1, <4>1, <4>2, <4>3
    <3> QED BY <1>1, <3>2, <3>3, Zenon
  <2> QED BY <2>1, <2>5, Zenon DEF AlarmInTime, TypeOK
<1> QED BY <1>6, <1>7, Zenon

\* The two sets after it.
LEMMA AddTimerSets ==
    ASSUME TypeOK, Agree, NEW t \in Timers, AddTimerInLoop(t, heap'), t \in DOMAIN heap',
           heap'[t] \in Fields, \A u \in Listed : u \in DOMAIN heap' /\ heap'[u] = heap[u]
    PROVE  Agree' /\ Listed' = Listed \cup {t} /\ timerList' \subseteq Nat \X Timers
<1> DEFINE when == heap'[t].expirationTimestamp
<1>1. /\ timerList' = timerList \cup {<<when, t>>}
      /\ activeTimerSet' = activeTimerSet \cup {<<t, heap'[t].sequence>>}
  BY Zenon DEF AddTimerInLoop
<1>2. when \in Nat
  BY Zenon DEF Fields
<1>3. timerList' \subseteq Nat \X Timers
  BY <1>1, <1>2 DEF TypeOK
<1>4. Listed' = Listed \cup {t}
  <2>1. <<when, t>>[2] = t
    BY Zenon
  <2> HIDE DEF when
  <2>2. \A x : x \in Listed' <=> x \in Listed \/ x = t
    BY <1>1, <2>1, Zenon DEF Listed
  <2> QED BY <2>2, Zenon
<1>5. \A e \in timerList' : e[2] \in DOMAIN heap' /\ e[1] = heap'[e[2]].expirationTimestamp
  <2>1. \A e \in timerList : e[2] \in Listed
    BY Zenon DEF Listed
  <2> QED BY <1>1, <2>1 DEF Agree
<1>6. activeTimerSet' = {<<u, heap'[u].sequence>> : u \in Listed'}
  BY <1>1, <1>4 DEF Agree
<1> QED BY <1>3, <1>4, <1>5, <1>6, Zenon DEF Agree

-----------------------------------------------------------------------------
(* The steps.                                                              *)

LEMMA InitIInv == Init => IInv
<1> SUFFICES ASSUME Init PROVE IInv
  BY Zenon
<1>1. DOMAIN heap = {} /\ Range(calls) = {} /\ Listed = {} /\ Waiting = {}
  BY DEF Init, Range, Listed, Waiting
<1>2. TypeOK
  <2>1. IsFiniteSet(DOMAIN heap) /\ calls \in Seq(Call)
    BY <1>1, FS_EmptySet, EmptySeq, Zenon DEF Init
  <2>2. numCreated \in Nat /\ age \in Int /\ alarm \in Nat /\ steps \in Nat /\ timerList = {}
    BY DEF Init
  <2>3. callingExpiredTimers \in BOOLEAN /\ readable \in BOOLEAN
    BY Zenon DEF Init
  <2> QED BY <1>1, <2>1, <2>2, <2>3, Zenon DEF TypeOK
<1>3. Agree /\ Placed /\ Calls /\ AlarmInTime
  BY <1>1 DEF Init, Agree, Placed, Calls, AddedOnce, AlarmInTime
<1> QED BY <1>2, <1>3, Zenon DEF IInv

\* new Timer
LEMMA AllocateFacts ==
    ASSUME TypeOK, NEW t \in Timers, NEW delay \in Delay, NEW interval \in Delay,
           Allocate(t, delay, interval)
    PROVE  /\ t \notin DOMAIN heap /\ DOMAIN heap' = DOMAIN heap \cup {t}
           /\ DOMAIN heap' \subseteq Timers /\ IsFiniteSet(DOMAIN heap')
           /\ \A u \in DOMAIN heap : heap'[u] = heap[u]
           /\ \A u \in DOMAIN heap' : heap'[u] \in Fields
           /\ numCreated' \in Nat
<1>1. /\ t \notin DOMAIN heap /\ DOMAIN heap' = DOMAIN heap \cup {t}
      /\ \A u \in DOMAIN heap : heap'[u] = heap[u]
      /\ heap'[t] = [expirationTimestamp |-> delay, interval |-> interval, sequence |-> numCreated + 1]
  BY Zenon DEF Allocate
<1>2. delay \in Nat /\ interval \in Nat /\ numCreated + 1 \in Nat \ {0}
  BY BoundsAssumption DEF Delay, TypeOK
<1>3. heap'[t] \in Fields
  BY <1>1, <1>2 DEF Fields
<1>4. numCreated' \in Nat
  BY <1>2, BoundsAssumption DEF Allocate
<1>5. IsFiniteSet(DOMAIN heap')
  BY <1>1, FS_AddElement DEF TypeOK
<1> QED BY <1>1, <1>3, <1>4, <1>5, Zenon DEF TypeOK

LEMMA AddTimerStep ==
    ASSUME IInv, NEW t \in Timers, NEW delay \in Delay, NEW interval \in Delay,
           AddTimer(t, delay, interval)
    PROVE  IInv'
<1> USE DEF IInv
<1>1. /\ t \notin DOMAIN heap /\ DOMAIN heap' = DOMAIN heap \cup {t}
      /\ DOMAIN heap' \subseteq Timers /\ IsFiniteSet(DOMAIN heap')
      /\ \A u \in DOMAIN heap : heap'[u] = heap[u]
      /\ \A u \in DOMAIN heap' : heap'[u] \in Fields
      /\ numCreated' \in Nat
  BY AllocateFacts, Zenon DEF AddTimer
<1>2. AddTimerInLoop(t, heap') /\ UNCHANGED <<callingExpiredTimers, expired, age, calls, steps>>
  BY Zenon DEF AddTimer
<1>3. Listed \subseteq DOMAIN heap
  BY Zenon DEF Placed
<1>4. heap'[t] \in Fields /\ heap'[t].expirationTimestamp \in Nat
  BY <1>1, Zenon DEF Fields
<1>5. AlarmInTime' /\ alarm' \in Nat /\ readable' \in BOOLEAN
  BY <1>2, <1>4, AddTimerAlarm, Zenon
<1>6. Agree' /\ Listed' = Listed \cup {t} /\ timerList' \subseteq Nat \X Timers
  BY <1>1, <1>2, <1>3, <1>4, AddTimerSets, Zenon
<1>7. TypeOK'
  BY <1>1, <1>2, <1>5, <1>6, Zenon DEF TypeOK
<1>8. Waiting' = Waiting
  BY <1>2, Zenon DEF Waiting
<1>9. Placed'
  BY <1>1, <1>2, <1>6, <1>8, Zenon DEF Placed
<1>10. Calls'
  BY <1>2, Zenon DEF Calls
<1> QED BY <1>5, <1>6, <1>7, <1>9, <1>10, Zenon

LEMMA AddTimerElsewhereStep ==
    ASSUME IInv, NEW t \in Timers, NEW delay \in Delay, NEW interval \in Delay,
           AddTimerElsewhere(t, delay, interval)
    PROVE  IInv'
<1> USE DEF IInv
<1> DEFINE call == <<"addTimerInLoop", t>>
<1>1. /\ t \notin DOMAIN heap /\ DOMAIN heap' = DOMAIN heap \cup {t}
      /\ DOMAIN heap' \subseteq Timers /\ IsFiniteSet(DOMAIN heap')
      /\ \A u \in DOMAIN heap : heap'[u] = heap[u]
      /\ \A u \in DOMAIN heap' : heap'[u] \in Fields
      /\ numCreated' \in Nat
  BY AllocateFacts, Zenon DEF AddTimerElsewhere
<1>2. /\ calls' = Append(calls, call)
      /\ UNCHANGED <<timerList, activeTimerSet, callingExpiredTimers, expired, age, alarm, readable, steps>>
  BY Zenon DEF AddTimerElsewhere
<1>3. call \in Call /\ call \notin Range(calls)
  <2>1. calls \in Seq(Call) /\ t \notin Waiting
    BY <1>1, Zenon DEF TypeOK, Placed
  <2> QED BY <2>1, WaitingFacts, Zenon DEF Waiting, Call
<1>4. calls' \in Seq(Call) /\ Range(calls') = Range(calls) \cup {call} /\ AddedOnce(calls')
  BY <1>2, <1>3, AppendFacts, Zenon DEF TypeOK, Calls
<1>5. Waiting' = Waiting \cup {t}
  <2>1. \A u : u \in Waiting <=> <<"addTimerInLoop", u>> \in Range(calls)
    BY WaitingFacts, Zenon DEF Waiting, TypeOK
  <2>2. \A u : u \in Waiting' <=> <<"addTimerInLoop", u>> \in Range(calls')
    BY <1>4, WaitingFacts, Zenon DEF Waiting
  <2>3. \A u : u \in Waiting' <=> u \in Waiting \/ u = t
    BY <1>4, <2>1, <2>2, Zenon
  <2> QED BY <2>3, Zenon
<1>6. TypeOK'
  BY <1>1, <1>2, <1>4, Zenon DEF TypeOK
<1>7. Listed' = Listed /\ Listed \subseteq DOMAIN heap
  BY <1>2, Zenon DEF Listed, Placed
<1>8. Agree'
  <2>1. \A e \in timerList : heap'[e[2]] = heap[e[2]]
    BY <1>1, Zenon DEF Agree
  <2>2. \A u \in Listed : heap'[u] = heap[u]
    BY <1>1, <1>7, Zenon
  <2> QED BY <1>1, <1>2, <1>7, <2>1, <2>2 DEF Agree
<1>9. Placed'
  BY <1>1, <1>2, <1>5, <1>7, Zenon DEF Placed
<1>10. Calls'
  BY <1>2, <1>4, Zenon DEF Calls
<1>11. AlarmInTime'
  BY <1>2, Zenon DEF AlarmInTime
<1> QED BY <1>6, <1>8, <1>9, <1>10, <1>11, Zenon

\* cancelInLoop finds no timer: the sequence of its TimerId is 0, and no timer's is.
LEMMA CancelInLoopFacts ==
    ASSUME IInv, NEW t, CancelInLoop(t)
    PROVE  /\ DOMAIN heap' = DOMAIN heap /\ \A u \in DOMAIN heap : heap'[u] = heap[u]
           /\ UNCHANGED <<timerList, activeTimerSet, numCreated, callingExpiredTimers, expired,
                          age, alarm, readable, steps>>
<1>1. TimerIdOf(t) \notin activeTimerSet
  <2> SUFFICES ASSUME TimerIdOf(t) \in activeTimerSet PROVE FALSE
    BY Zenon
  <2>1. PICK u \in Listed : <<t, 0>> = <<u, heap[u].sequence>>
    BY Zenon DEF IInv, Agree, TimerIdOf
  <2>2. heap[u] \in Fields
    BY Zenon DEF IInv, Placed, TypeOK
  <2> QED BY <2>1, <2>2, Zenon DEF Fields
<1>2. timerList' = timerList /\ activeTimerSet' = activeTimerSet
  BY <1>1, Zenon DEF CancelInLoop
<1>3. DOMAIN heap' = DOMAIN heap /\ \A u \in DOMAIN heap : heap'[u] = heap[u]
  BY <1>1, Zenon DEF CancelInLoop, Restrict
<1> QED BY <1>2, <1>3, Zenon DEF CancelInLoop

\* A step that changes neither the timers nor where they are.
LEMMA SameTimers ==
    ASSUME IInv, DOMAIN heap' = DOMAIN heap, \A u \in DOMAIN heap : heap'[u] = heap[u],
           UNCHANGED <<timerList, activeTimerSet, numCreated, callingExpiredTimers, expired,
                       age, alarm, readable, steps>>,
           calls' \in Seq(Call), AddedOnce(calls'), Waiting' = Waiting
    PROVE  IInv'
<1> USE DEF IInv
<1>1. TypeOK'
  BY Zenon DEF TypeOK
<1>2. Listed' = Listed /\ Listed \subseteq DOMAIN heap
  BY Zenon DEF Listed, Placed
<1>3. Agree'
  <2>1. \A u \in Listed : heap'[u] = heap[u]
    BY <1>2, Zenon
  <2>2. \A e \in timerList : heap'[e[2]] = heap[e[2]]
    BY Zenon DEF Agree
  <2> QED BY <1>2, <2>1, <2>2, Zenon DEF Agree
<1>4. Placed' /\ Calls' /\ AlarmInTime'
  BY <1>2, Zenon DEF Placed, Calls, AlarmInTime
<1> QED BY <1>1, <1>3, <1>4, Zenon

LEMMA CancelOrRunStep ==
    ASSUME IInv, NEW t, Cancel(t) \/ Run(t)
    PROVE  IInv'
<1>1. calls' \in Seq(Call) /\ AddedOnce(calls') /\ Waiting' = Waiting
  BY Zenon DEF Cancel, Run, Waiting, IInv, TypeOK, Calls
<1>2. CASE Cancel(t)
  BY <1>1, <1>2, CancelInLoopFacts, SameTimers, Zenon DEF Cancel
<1>3. CASE Run(t)
  BY <1>1, <1>3, SameTimers, Zenon DEF Run
<1> QED BY <1>2, <1>3, Zenon

LEMMA CancelElsewhereStep == ASSUME IInv, NEW t \in Timers, CancelElsewhere(t) PROVE IInv'
<1> DEFINE call == <<"cancelInLoop", t>>
<1>1. call \in Call /\ call[1] # "addTimerInLoop" /\ calls \in Seq(Call) /\ AddedOnce(calls)
  BY Zenon DEF Call, IInv, TypeOK, Calls
<1>2. calls' \in Seq(Call) /\ Range(calls') = Range(calls) \cup {call} /\ AddedOnce(calls')
  BY <1>1, AppendFacts, Zenon DEF CancelElsewhere
<1>3. Waiting' = Waiting
  BY <1>1, <1>2, Zenon DEF Waiting
<1>4. UNCHANGED <<heap, timerList, activeTimerSet, numCreated, callingExpiredTimers, expired,
                  age, alarm, readable, steps>>
  BY Zenon DEF CancelElsewhere
<1> QED BY <1>2, <1>3, <1>4, SameTimers, Zenon

LEMMA RunCallStep == ASSUME IInv, RunCall PROVE IInv'
<1> DEFINE call == Head(calls)
           t == call[2]
<1>1. /\ calls' \in Seq(Call) /\ call \in Call /\ Range(calls) = Range(calls') \cup {call}
      /\ AddedOnce(calls') /\ (call[1] = "addTimerInLoop" => call \notin Range(calls'))
  BY TailFacts, Zenon DEF RunCall, IInv, TypeOK, Calls
<1>2. call = <<call[1], t>> /\ t \in Timers
  BY <1>1 DEF Call
<1>3. \A u : u \in Waiting <=> <<"addTimerInLoop", u>> \in Range(calls)
  BY WaitingFacts, Zenon DEF Waiting, IInv, TypeOK
<1>4. \A u : u \in Waiting' <=> <<"addTimerInLoop", u>> \in Range(calls')
  BY <1>1, WaitingFacts, Zenon DEF Waiting
<1>5. CASE call[1] = "cancelInLoop" /\ CancelInLoop(t)
  <2>1. call[1] # "addTimerInLoop"
    BY <1>5, Zenon
  <2> HIDE DEF t, call
  <2>2. \A u : <<"addTimerInLoop", u>> # call
    BY <2>1
  <2>3. \A u : u \in Waiting' <=> u \in Waiting
    BY <1>1, <1>3, <1>4, <2>2, Zenon
  <2>4. Waiting' = Waiting
    BY <2>3, Zenon
  <2> QED BY <1>1, <1>5, <2>4, CancelInLoopFacts, SameTimers, Zenon
<1>6. CASE /\ call[1] = "addTimerInLoop" /\ AddTimerInLoop(t, heap)
           /\ UNCHANGED <<heap, numCreated, callingExpiredTimers, expired, age, steps>>
  <2> USE DEF IInv
  <2>1. call = <<"addTimerInLoop", t>>
    BY <1>2, <1>6, Zenon
  <2> HIDE DEF call, t
  <2>2. t \in Waiting /\ \A u : u \in Waiting' <=> u \in Waiting /\ u # t
    BY <1>1, <1>3, <1>4, <1>6, <2>1, Zenon
  <2>3. Waiting' = Waiting \ {t}
    BY <2>2, Zenon
  <2>4. t \in DOMAIN heap' /\ t \notin Listed /\ heap'[t] \in Fields /\ AddTimerInLoop(t, heap')
    BY <1>6, <2>2, Zenon DEF Placed, TypeOK
  <2>5. AlarmInTime' /\ alarm' \in Nat /\ readable' \in BOOLEAN
    BY <1>6, <2>4, AddTimerAlarm, Zenon DEF Fields
  <2>6. \A u \in Listed : u \in DOMAIN heap' /\ heap'[u] = heap[u]
    BY <1>6, Zenon DEF Placed
  <2>7. Agree' /\ Listed' = Listed \cup {t} /\ timerList' \subseteq Nat \X Timers
    BY <1>2, <2>4, <2>6, AddTimerSets, Zenon
  <2>8. TypeOK'
    BY <1>1, <1>6, <2>5, <2>7, Zenon DEF TypeOK
  <2>9. Placed'
    BY <1>6, <2>2, <2>3, <2>7, Zenon DEF Placed
  <2>10. Calls'
    BY <1>1, <1>6, Zenon DEF Calls
  <2> QED BY <2>5, <2>7, <2>8, <2>9, <2>10, Zenon
<1> QED BY <1>5, <1>6, Zenon DEF RunCall

\* A timer is listed once, under the time the heap has for it.
LEMMA ListedOnce ==
    ASSUME TypeOK, Agree
    PROVE  /\ \A e \in timerList : e = <<heap[e[2]].expirationTimestamp, e[2]>>
           /\ \A u \in Listed : <<heap[u].expirationTimestamp, u>> \in timerList
<1>1. \A e \in timerList : e = <<e[1], e[2]>>
  BY DEF TypeOK
<1>2. \A e \in timerList : e = <<heap[e[2]].expirationTimestamp, e[2]>>
  BY <1>1, Zenon DEF Agree
<1> QED BY <1>2, Zenon DEF Listed

\* getExpired takes the timers that are due out of both sets.
LEMMA HandleReadStep == ASSUME IInv, HandleRead PROVE IInv'
<1> USE DEF IInv
<1> DEFINE due == {e \in timerList : e[1] = 0}
<1>1. /\ ~callingExpiredTimers /\ callingExpiredTimers' = TRUE /\ readable' = FALSE /\ age' = 0
      /\ expired' = {e[2] : e \in due} /\ timerList' = timerList \ due
      /\ activeTimerSet' = Deactivated(expired')
      /\ UNCHANGED <<heap, numCreated, alarm, calls, steps>>
  BY Zenon DEF HandleRead
<1>2. expired = {}
  BY <1>1, Zenon DEF Calls
<1>3. /\ \A e \in timerList : e = <<heap[e[2]].expirationTimestamp, e[2]>>
      /\ \A u \in Listed : <<heap[u].expirationTimestamp, u>> \in timerList
  BY ListedOnce, Zenon
<1>4. \A u : u \in expired' <=> u \in Listed /\ heap[u].expirationTimestamp = 0
  BY <1>1, <1>3 DEF Listed
<1>5. \A u : u \in Listed' <=> u \in Listed /\ heap[u].expirationTimestamp # 0
  BY <1>1, <1>3 DEF Listed
<1>6. Agree'
  <2>1. \A e \in timerList' : e[2] \in DOMAIN heap' /\ e[1] = heap'[e[2]].expirationTimestamp
    BY <1>1, Zenon DEF Agree
  <2>2. activeTimerSet' = {<<u, heap'[u].sequence>> : u \in Listed'}
    <3>1. activeTimerSet' = activeTimerSet \ {<<u, heap[u].sequence>> : u \in expired'}
      BY <1>1, Zenon DEF Deactivated
    <3>2. activeTimerSet = {<<u, heap[u].sequence>> : u \in Listed}
      BY Zenon DEF Agree
    <3>3. \A x : x \in activeTimerSet' <=> \E u \in Listed' : x = <<u, heap[u].sequence>>
      BY <1>4, <1>5, <3>1, <3>2
    <3> QED BY <1>1, <3>3, Zenon
  <2> QED BY <2>1, <2>2, Zenon DEF Agree
<1>7. TypeOK'
  <2>1. timerList' \subseteq Nat \X Timers /\ age' \in Int
    BY <1>1 DEF TypeOK
  <2>2. callingExpiredTimers' \in BOOLEAN /\ readable' \in BOOLEAN
    BY <1>1, Zenon
  <2>3. UNCHANGED <<heap, numCreated, alarm, calls, steps>>
    BY <1>1, Zenon
  <2> QED BY <2>1, <2>2, <2>3, Zenon DEF TypeOK
<1>8. Placed'
  <2>1. Waiting' = Waiting
    BY <1>1, Zenon DEF Waiting
  <2> QED BY <1>1, <1>2, <1>4, <1>5, <2>1, Zenon DEF Placed
<1>9. Calls' /\ AlarmInTime'
  BY <1>1, Zenon DEF Calls, AlarmInTime
<1> QED BY <1>6, <1>7, <1>8, <1>9, Zenon

\* reset puts the timers that repeat back into both sets, deletes the others and arms
\* the timerfd for the first.
LEMMA ResetStep == ASSUME IInv, Reset PROVE IInv'
<1> USE DEF IInv
<1> DEFINE again == {t \in expired : Restarts(t)}
           left(t) == IF heap[t].interval > age THEN heap[t].interval - age ELSE 0
<1>1. /\ callingExpiredTimers' = FALSE /\ expired' = {} /\ age' = 0
      /\ DOMAIN heap' = (DOMAIN heap \ expired) \cup again
      /\ \A t \in DOMAIN heap' :
            heap'[t] = IF t \in again THEN [heap[t] EXCEPT !.expirationTimestamp = left(t)] ELSE heap[t]
      /\ timerList' = timerList \cup {<<left(t), t>> : t \in again}
      /\ activeTimerSet' = activeTimerSet \cup {<<t, heap[t].sequence>> : t \in again}
      /\ UNCHANGED <<numCreated, calls, steps>>
  BY Zenon DEF Reset, Kept
<1>2. /\ timerList' # {} => ResetTimerfd(Min({e[1] : e \in timerList'}))
      /\ timerList' = {} => UNCHANGED <<alarm, readable>>
  BY Zenon DEF Reset, Rearm
<1>3. again \subseteq expired /\ expired \subseteq DOMAIN heap /\ DOMAIN heap' \subseteq DOMAIN heap
  BY <1>1, Zenon DEF Placed
<1>4. \A t \in again : left(t) \in Nat /\ heap[t] \in Fields
  BY <1>3 DEF TypeOK, Fields
<1> HIDE DEF again, left
<1>5. /\ \A t \in DOMAIN heap' : heap'[t] \in Fields /\ heap'[t].sequence = heap[t].sequence
      /\ \A t \in again : heap'[t].expirationTimestamp = left(t)
      /\ \A t \in DOMAIN heap' \ again : heap'[t] = heap[t]
  BY <1>1, <1>3, <1>4, Zenon DEF TypeOK, Fields
<1>6. Listed' = Listed \cup again
  <2>1. \A t \in again : <<left(t), t>>[2] = t
    BY Zenon
  <2>2. ASSUME NEW u \in Listed' PROVE u \in Listed \/ u \in again
    <3>1. PICK e \in timerList' : u = e[2]
      BY Zenon DEF Listed
    <3>2. e \in timerList \/ \E t \in again : e = <<left(t), t>>
      BY <1>1, Zenon
    <3> QED BY <2>1, <3>1, <3>2, Zenon DEF Listed
  <2>3. ASSUME NEW u \in Listed PROVE u \in Listed'
    BY <1>1, Zenon DEF Listed
  <2>4. ASSUME NEW u \in again PROVE u \in Listed'
    <3>1. <<left(u), u>> \in timerList'
      BY <1>1, Zenon
    <3> QED BY <2>1, <3>1, Zenon DEF Listed
  <2> QED BY <2>2, <2>3, <2>4, Zenon
<1>7. Waiting' = Waiting
  BY <1>1, Zenon DEF Waiting
<1>8. Placed'
  BY <1>1, <1>3, <1>6, <1>7, Zenon DEF Placed
<1>9. Agree'
  <2>1. Listed \subseteq DOMAIN heap' /\ Listed \cap again = {}
    BY <1>1, <1>3, Zenon DEF Placed
  <2>2. ASSUME NEW e \in timerList' PROVE e[2] \in DOMAIN heap' /\ e[1] = heap'[e[2]].expirationTimestamp
    <3>1. CASE e \in timerList
      <4>1. e[2] \in Listed
        BY <3>1, Zenon DEF Listed
      <4> QED BY <1>5, <2>1, <3>1, <4>1, Zenon DEF Agree
    <3>2. ASSUME NEW t \in again, e = <<left(t), t>> PROVE e[2] \in DOMAIN heap' /\ e[1] = heap'[e[2]].expirationTimestamp
      BY <1>1, <1>5, <3>2, Zenon
    <3> QED BY <1>1, <3>1, <3>2, Zenon
  <2>3. \A u \in Listed' : heap'[u].sequence = heap[u].sequence
    BY <1>1, <1>5, <1>6, <2>1, Zenon
  <2>4. activeTimerSet' = {<<u, heap'[u].sequence>> : u \in Listed'}
    BY <1>1, <1>6, <2>3 DEF Agree
  <2> QED BY <2>2, <2>4, Zenon DEF Agree
<1>10. timerList' \subseteq Nat \X Timers
  BY <1>1, <1>3, <1>4 DEF TypeOK
<1>11. alarm' \in Nat /\ readable' \in BOOLEAN /\ AlarmInTime'
  <2>1. CASE timerList' = {}
    BY <1>2, <2>1, Zenon DEF AlarmInTime, TypeOK
  <2>2. CASE timerList' # {}
    <3> DEFINE times == {e[1] : e \in timerList'}
    <3>1. times \subseteq Nat /\ times # {}
      BY <1>10, <2>2, Zenon
    <3>2. Min(times) \in Nat /\ \A y \in times : Min(times) <= y /\ y \in Nat
      BY <3>1, MinFacts, Zenon
    <3>3. alarm' = HowMuchTimeFromNow(Min(times)) /\ readable' = FALSE
      BY <1>2, <2>2, Zenon DEF ResetTimerfd
    <3>4. \A e \in timerList' : e[1] \in times
      BY Zenon
    <3> HIDE DEF times
    <3>5. alarm' \in Nat /\ alarm' > 0 /\ \A y \in times : alarm' <= HowMuchTimeFromNow(y)
      BY <3>2, <3>3, HowMuchTimeFacts, Zenon
    <3> QED BY <3>3, <3>4, <3>5, Zenon DEF AlarmInTime
  <2> QED BY <2>1, <2>2, Zenon
<1>12. TypeOK'
  <2>1. IsFiniteSet(DOMAIN heap')
    BY <1>3, FS_Subset, Zenon DEF TypeOK
  <2>2. callingExpiredTimers' \in BOOLEAN
    BY <1>1, Zenon
  <2>3. age' \in Int
    BY <1>1
  <2>4. DOMAIN heap' \subseteq Timers
    BY <1>3, Zenon DEF TypeOK
  <2>5. UNCHANGED <<numCreated, calls, steps>>
    BY <1>1, Zenon
  <2> QED BY <1>5, <1>10, <1>11, <2>1, <2>2, <2>3, <2>4, <2>5, Zenon DEF TypeOK
<1>13. Calls'
  BY <1>1, Zenon DEF Calls
<1> QED BY <1>8, <1>9, <1>11, <1>12, <1>13, Zenon

\* The clock moves: every timer keeps its place, under a new time.
LEMMA ClockSets ==
    ASSUME IInv, DOMAIN heap' = DOMAIN heap,
           \A t \in DOMAIN heap : heap'[t] \in Fields /\ heap'[t].sequence = heap[t].sequence,
           timerList' = {<<heap'[e[2]].expirationTimestamp, e[2]>> : e \in timerList},
           UNCHANGED <<activeTimerSet, numCreated, callingExpiredTimers, expired, calls>>,
           age' \in Int, alarm' \in Nat, readable' \in BOOLEAN, steps' \in Nat
    PROVE  TypeOK' /\ Agree' /\ Placed' /\ Calls'
<1> USE DEF IInv
<1>1. \A e \in timerList : e[2] \in DOMAIN heap /\ e[2] \in Timers
  BY Zenon DEF Agree, TypeOK
<1>2. \A e \in timerList' : \E f \in timerList : e[2] = f[2] /\ e[1] = heap'[f[2]].expirationTimestamp
  OBVIOUS
<1>3. \A e \in timerList : heap'[e[2]].expirationTimestamp \in Nat
  BY <1>1, Zenon DEF Fields
<1>4. timerList' \subseteq Nat \X Timers
  BY <1>1, <1>3
<1>5. Listed' = Listed
  <2>1. ASSUME NEW u \in Listed' PROVE u \in Listed
    BY <1>2 DEF Listed
  <2>2. ASSUME NEW u \in Listed PROVE u \in Listed'
    <3>1. PICK e \in timerList : u = e[2]
      BY Zenon DEF Listed
    <3>2. PICK f \in timerList' : f = <<heap'[e[2]].expirationTimestamp, e[2]>>
      BY Zenon
    <3>3. f[2] = u
      BY <3>1, <3>2, Zenon
    <3> QED BY <3>3, Zenon DEF Listed
  <2> QED BY <2>1, <2>2, Zenon
<1>6. TypeOK'
  BY <1>4, Zenon DEF TypeOK
<1>7. Agree'
  <2>1. \A e \in timerList' : e[2] \in DOMAIN heap' /\ e[1] = heap'[e[2]].expirationTimestamp
    BY <1>1, <1>2, Zenon
  <2>2. \A u \in Listed : heap'[u].sequence = heap[u].sequence
    BY Zenon DEF Placed
  <2>3. activeTimerSet' = {<<u, heap'[u].sequence>> : u \in Listed'}
    BY <1>5, <2>2, Zenon DEF Agree
  <2> QED BY <2>1, <2>3, Zenon DEF Agree
<1>8. Placed' /\ Calls'
  <2>1. Waiting' = Waiting
    BY Zenon DEF Waiting
  <2> QED BY <1>5, <2>1, Zenon DEF Placed, Calls
<1> QED BY <1>6, <1>7, <1>8, Zenon

\* Forwards, by d: times that were past stay so.
LEMMA ForwardFacts ==
    ASSUME IInv, NEW d \in Nat, Forward(d)
    PROVE  /\ DOMAIN heap' = DOMAIN heap
           /\ \A t \in DOMAIN heap :
                 /\ heap'[t] \in Fields /\ heap'[t].sequence = heap[t].sequence
                 /\ heap'[t].expirationTimestamp = IF heap[t].expirationTimestamp > d
                                                   THEN heap[t].expirationTimestamp - d ELSE 0
           /\ timerList' = {<<heap'[e[2]].expirationTimestamp, e[2]>> : e \in timerList}
           /\ age' \in Int
<1> USE DEF IInv
<1> DEFINE nearer(w) == IF w > d THEN w - d ELSE 0
<1>1. /\ timerList' = {<<nearer(e[1]), e[2]>> : e \in timerList}
      /\ DOMAIN heap' = DOMAIN heap
      /\ \A t \in DOMAIN heap :
            heap'[t] = [heap[t] EXCEPT !.expirationTimestamp = nearer(heap[t].expirationTimestamp)]
      /\ age' = IF callingExpiredTimers THEN Min({age + d, MaxDelay}) ELSE 0
  BY Zenon DEF Forward
<1>2. \A w \in Nat : nearer(w) \in Nat
  OBVIOUS
<1>3. ASSUME NEW t \in DOMAIN heap
      PROVE  /\ heap'[t] \in Fields /\ heap'[t].sequence = heap[t].sequence
             /\ heap'[t].expirationTimestamp = nearer(heap[t].expirationTimestamp)
  <2>1. heap[t] \in Fields
    BY Zenon DEF TypeOK
  <2> HIDE DEF nearer
  <2> QED BY <1>1, <1>2, <2>1, Zenon DEF Fields
<1>4. timerList' = {<<heap'[e[2]].expirationTimestamp, e[2]>> : e \in timerList}
  <2> HIDE DEF nearer
  <2>1. \A e \in timerList : nearer(e[1]) = heap'[e[2]].expirationTimestamp
    BY <1>3, Zenon DEF Agree
  <2> QED BY <1>1, <2>1, Zenon
<1>5. age' \in Int
  <2>1. Min({age + d, MaxDelay}) \in Int
    BY BoundsAssumption, MinOfTwo DEF TypeOK
  <2> QED BY <1>1, <2>1
<1> QED BY <1>1, <1>3, <1>4, <1>5, Zenon

\* Backwards, by a tick.
LEMMA BackwardFacts ==
    ASSUME IInv, Backward
    PROVE  /\ DOMAIN heap' = DOMAIN heap
           /\ \A t \in DOMAIN heap : heap'[t] \in Fields /\ heap'[t].sequence = heap[t].sequence
           /\ timerList' = {<<heap'[e[2]].expirationTimestamp, e[2]>> : e \in timerList}
           /\ age' \in Int
<1> USE DEF IInv
<1>0. PICK late \in SUBSET DOMAIN heap :
         LET further(t, w) == IF w = 0 /\ t \in late THEN 0 ELSE w + 1
         IN  /\ timerList' = {<<further(e[2], e[1]), e[2]>> : e \in timerList}
             /\ heap' = [t \in DOMAIN heap |->
                            [heap[t] EXCEPT !.expirationTimestamp = further(t, @)]]
             /\ age' \in IF ~callingExpiredTimers THEN {0}
                        ELSE IF age = MaxDelay THEN {age, age - 1} ELSE {age - 1}
  BY Zenon DEF Backward
<1> DEFINE further(t, w) == IF w = 0 /\ t \in late THEN 0 ELSE w + 1
<1>1. /\ timerList' = {<<further(e[2], e[1]), e[2]>> : e \in timerList}
      /\ DOMAIN heap' = DOMAIN heap
      /\ \A t \in DOMAIN heap :
            heap'[t] = [heap[t] EXCEPT !.expirationTimestamp = further(t, heap[t].expirationTimestamp)]
  BY <1>0, Zenon
<1>2. \A t : \A w \in Nat : further(t, w) \in Nat
  OBVIOUS
<1> HIDE DEF further
<1>3. ASSUME NEW t \in DOMAIN heap
      PROVE  /\ heap'[t] \in Fields /\ heap'[t].sequence = heap[t].sequence
             /\ heap'[t].expirationTimestamp = further(t, heap[t].expirationTimestamp)
  <2>1. heap[t] \in Fields
    BY Zenon DEF TypeOK
  <2> QED BY <1>1, <1>2, <2>1 DEF Fields
<1>4. timerList' = {<<heap'[e[2]].expirationTimestamp, e[2]>> : e \in timerList}
  <2>1. \A e \in timerList : further(e[2], e[1]) = heap'[e[2]].expirationTimestamp
    BY <1>3, Zenon DEF Agree
  <2> QED BY <1>1, <2>1, Zenon
<1>5. age' \in Int
  BY <1>0 DEF TypeOK
<1> QED BY <1>1, <1>3, <1>4, <1>5, Zenon

LEMMA TickStep == ASSUME IInv, Tick PROVE IInv'
<1>1. /\ DOMAIN heap' = DOMAIN heap
      /\ \A t \in DOMAIN heap :
            /\ heap'[t] \in Fields /\ heap'[t].sequence = heap[t].sequence
            /\ heap'[t].expirationTimestamp = IF heap[t].expirationTimestamp > 1
                                              THEN heap[t].expirationTimestamp - 1 ELSE 0
      /\ timerList' = {<<heap'[e[2]].expirationTimestamp, e[2]>> : e \in timerList}
      /\ age' \in Int
  BY ForwardFacts, Zenon DEF Tick
<1>2. /\ alarm' = IF alarm > 0 THEN alarm - 1 ELSE 0
      /\ readable' = (readable \/ alarm = 1)
      /\ UNCHANGED <<activeTimerSet, numCreated, callingExpiredTimers, expired, calls, steps>>
  BY Zenon DEF Tick
<1>3. alarm \in Nat /\ alarm' \in Nat /\ steps' \in Nat
  BY <1>2 DEF IInv, TypeOK
<1>4. readable' \in BOOLEAN
  BY <1>2, Zenon
<1>5. TypeOK' /\ Agree' /\ Placed' /\ Calls'
  BY <1>1, <1>2, <1>3, <1>4, ClockSets, Zenon
<1>6. AlarmInTime'
  <2> SUFFICES ASSUME ~callingExpiredTimers', ~readable', NEW e \in timerList'
               PROVE  alarm' > 0 /\ (steps' = 0 => alarm' <= HowMuchTimeFromNow(e[1]))
    BY Zenon DEF AlarmInTime
  <2>1. ~callingExpiredTimers /\ ~readable /\ alarm # 1
    BY <1>2, Zenon
  <2>2. PICK f \in timerList : e = <<heap'[f[2]].expirationTimestamp, f[2]>>
    BY <1>1, Zenon
  <2>3. alarm > 0 /\ (steps = 0 => alarm <= HowMuchTimeFromNow(f[1]))
    BY <2>1, Zenon DEF IInv, AlarmInTime
  <2>4. f[1] \in Nat /\ f[2] \in DOMAIN heap /\ f[1] = heap[f[2]].expirationTimestamp
    BY Zenon DEF IInv, TypeOK, Agree
  <2>5. e[1] = IF f[1] > 1 THEN f[1] - 1 ELSE 0
    BY <1>1, <2>2, <2>4, Zenon
  <2>6. alarm' = alarm - 1 /\ alarm' > 0
    BY <1>2, <1>3, <2>1, <2>3
  <2> QED BY <1>2, <1>3, <2>3, <2>4, <2>5, <2>6 DEF HowMuchTimeFromNow
<1> QED BY <1>5, <1>6, Zenon DEF IInv

LEMMA SetClockStep == ASSUME IInv, SetClock PROVE IInv'
<1>1. /\ DOMAIN heap' = DOMAIN heap
      /\ \A t \in DOMAIN heap : heap'[t] \in Fields /\ heap'[t].sequence = heap[t].sequence
      /\ timerList' = {<<heap'[e[2]].expirationTimestamp, e[2]>> : e \in timerList}
      /\ age' \in Int
  <2>1. CASE Forward(MaxDelay)
    BY <2>1, ForwardFacts, BoundsAssumption, Zenon
  <2>2. CASE Backward
    BY <2>2, BackwardFacts, Zenon
  <2> QED BY <2>1, <2>2, Zenon DEF SetClock
<1>2. /\ steps' = steps + 1
      /\ UNCHANGED <<activeTimerSet, numCreated, callingExpiredTimers, expired, calls, alarm, readable>>
  BY Zenon DEF SetClock
<1>3. alarm' \in Nat /\ readable' \in BOOLEAN /\ steps' \in Nat /\ steps' # 0
  BY <1>2 DEF IInv, TypeOK
<1>4. TypeOK' /\ Agree' /\ Placed' /\ Calls'
  BY <1>1, <1>2, <1>3, ClockSets, Zenon
<1>5. AlarmInTime'
  <2> SUFFICES ASSUME ~callingExpiredTimers', ~readable', NEW e \in timerList'
               PROVE  alarm' > 0
    BY <1>3, Zenon DEF AlarmInTime
  <2>1. timerList # {}
    BY <1>1, Zenon
  <2> QED BY <1>2, <2>1, Zenon DEF IInv, AlarmInTime
<1> QED BY <1>4, <1>5, Zenon DEF IInv

LEMMA IInvStep == IInv /\ [Next]_vars => IInv'
<1> SUFFICES ASSUME IInv, [Next]_vars PROVE IInv'
  BY Zenon
<1>1. ASSUME NEW t \in Timers, NEW delay \in Delay, NEW interval \in Delay, AddTimer(t, delay, interval)
      PROVE  IInv'
  BY <1>1, AddTimerStep, Zenon
<1>2. ASSUME NEW t \in Timers, NEW delay \in Delay, NEW interval \in Delay,
             AddTimerElsewhere(t, delay, interval)
      PROVE  IInv'
  BY <1>2, AddTimerElsewhereStep, Zenon
<1>3. ASSUME NEW t \in Timers, Cancel(t) \/ Run(t) PROVE IInv'
  BY <1>3, CancelOrRunStep, Zenon
<1>4. ASSUME NEW t \in Timers, CancelElsewhere(t) PROVE IInv'
  BY <1>4, CancelElsewhereStep, Zenon
<1>5. CASE RunCall
  BY <1>5, RunCallStep, Zenon
<1>6. CASE HandleRead
  BY <1>6, HandleReadStep, Zenon
<1>7. CASE Reset
  BY <1>7, ResetStep, Zenon
<1>8. CASE Tick
  BY <1>8, TickStep, Zenon
<1>9. CASE SetClock
  BY <1>9, SetClockStep, Zenon
<1>10. CASE UNCHANGED vars
  <2>1. calls' \in Seq(Call) /\ AddedOnce(calls') /\ Waiting' = Waiting
    BY <1>10, Zenon DEF vars, Waiting, IInv, TypeOK, Calls
  <2> QED BY <1>10, <2>1, SameTimers, Zenon DEF vars
<1> QED BY <1>1, <1>2, <1>3, <1>4, <1>5, <1>6, <1>7, <1>8, <1>9, <1>10, Zenon DEF Next

THEOREM Invariance == Spec => []IInv
BY InitIInv, IInvStep, PTL DEF Spec

-----------------------------------------------------------------------------
(* The theorems.                                                           *)

\* The two sets have the same number of elements.
LEMMA SameSize ==
    ASSUME IInv
    PROVE  Cardinality(timerList) = Cardinality(activeTimerSet)
<1> USE DEF IInv
<1>1. /\ \A e \in timerList : e = <<heap[e[2]].expirationTimestamp, e[2]>>
      /\ \A u \in Listed : <<heap[u].expirationTimestamp, u>> \in timerList
  BY ListedOnce, Zenon
<1>2. \A e \in timerList : e[2] \in Listed /\ e[2] \in DOMAIN heap
  BY Zenon DEF Listed, Agree
<1>3. \A e, f \in timerList : e[2] = f[2] => e = f
  BY <1>1, Zenon
<1>4. IsFiniteSet(timerList)
  <2> DEFINE address == [e \in timerList |-> e[2]]
  <2>1. address \in Injection(timerList, DOMAIN heap)
    BY <1>2, <1>3, Zenon DEF Injection, IsInjective
  <2> QED BY <2>1, FS_Injection, Zenon DEF TypeOK
<1>5. ExistsBijection(timerList, activeTimerSet)
  <2> DEFINE key == [e \in timerList |-> <<e[2], heap[e[2]].sequence>>]
  <2>1. key \in [timerList -> activeTimerSet]
    BY <1>2, Zenon DEF Agree
  <2>2. \A e, f \in timerList : key[e] = key[f] => e = f
    BY <1>3, Zenon
  <2>3. \A a \in activeTimerSet : \E e \in timerList : key[e] = a
    <3> SUFFICES ASSUME NEW a \in activeTimerSet PROVE \E e \in timerList : key[e] = a
      BY Zenon
    <3>1. PICK u \in Listed : a = <<u, heap[u].sequence>>
      BY Zenon DEF Agree
    <3>2. PICK e \in timerList : e[2] = u
      BY Zenon DEF Listed
    <3>3. key[e] = a
      BY <3>1, <3>2, Zenon
    <3> QED BY <3>3, Zenon
  <2> HIDE DEF key
  <2>4. key \in Injection(timerList, activeTimerSet)
    BY <2>1, <2>2, Zenon DEF Injection, IsInjective
  <2>5. key \in Surjection(timerList, activeTimerSet)
    BY <2>1, <2>3, Zenon DEF Surjection
  <2> QED BY <2>4, <2>5, Zenon DEF ExistsBijection, Bijection
<1> QED BY <1>4, <1>5, FS_Bijection, Zenon

\* For any number of timers, of calls from other threads and of settings of the clock:
\* the two sets hold the same timers under their present keys, and every timer that is
\* allocated is in one place, from addTimer to reset.
THEOREM SetsAgreeCorrect == Spec => []SetsAgree
<1>1. IInv => SetsAgree
  BY SameSize, Zenon DEF IInv, Agree, Placed, SetsAgree
<1> QED BY <1>1, Invariance, PTL

\* Outside handleRead a queue that is not empty has its timerfd fired or armed, and, while
\* the clock is not set, for no later than the first timer.
THEOREM AlarmInTimeCorrect == Spec => []AlarmInTime
BY Invariance, PTL DEF IInv

=============================================================================
