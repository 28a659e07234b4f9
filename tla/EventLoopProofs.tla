-------------------------- MODULE EventLoopProofs ---------------------------
(***************************************************************************)
(* EventLoop for any number of threads and functors: no wakeup is lost, no *)
(* quit() leaves the loop asleep, and the functors form one FIFO queue.    *)
(* EventLoopThreadPool for any number of threads: its loops are usable.    *)
(***************************************************************************)
EXTENDS MCEventLoop, SequenceTheorems, TLAPS

-----------------------------------------------------------------------------
\* A push adds its functor to the set of queued ones and nothing else.
LEMMA RangeAppend ==
    ASSUME NEW s \in Seq(Functors), NEW f \in Functors
    PROVE  Range(Append(s, f)) = Range(s) \cup {f}
<1>1. Append(s, f) = s \o <<f>> /\ <<f>> \in Seq(Functors)
  BY AppendIsConcat
<1>2. Range(<<f>>) = {f}
  BY DEF Range
<1>3. Range(s \o <<f>>) = Range(s) \cup Range(<<f>>)
  BY <1>1, RangeConcatenation, ZenonT(30)
<1> QED BY <1>1, <1>2, <1>3, Zenon

\* Taking the oldest functor out of a batch adds none to it.
LEMMA RangeTail ==
    ASSUME NEW s \in Seq(Functors), s # <<>>
    PROVE  /\ Head(s) \in Range(s)
           /\ Range(Tail(s)) \subseteq Range(s)
BY HeadTailProperties DEF Range

LEMMA RangeEmpty == Range(<<>>) = {}
BY DEF Range

-----------------------------------------------------------------------------
\* A functor waits that was not queued by the loop thread outside of loop().
Waiting == ~(Range(pendingFunctors) \subseteq early)

\* Why the loop will look at pendingFunctors again: the eventfd is readable,
\* another thread is about to write it, the swap of the current iteration is
\* still to come, or a functor's own queueInLoop has not returned yet.
Covered ==
    \/ wakeup > 0
    \/ \E t \in Threads \ {LoopThread} : call[t] = "queued"
    \/ pc \in {"dispatch", "handler"}
    \/ pc = "functor" /\ call[LoopThread] = "queued"

\* Facts about the position of the loop thread.
Control ==
    /\ pc \notin {"batch", "functor"} => functors = <<>>
    /\ pc \in {"batch", "functor"} => callingPendingFunctors
    /\ call[LoopThread] # "none" => InUserCode
    /\ call[LoopThread] # "quitting"
    /\ Range(functors) \cap Range(pendingFunctors) = {}

\* The inductive invariant.
IInv ==
    /\ TypeOK
    /\ Control
    /\ Waiting => Covered
    /\ QuitWakesPoll

-----------------------------------------------------------------------------
LEMMA InitIInv == Init => IInv
<1> SUFFICES ASSUME Init PROVE IInv
  BY Zenon
<1>1. TypeOK
  <2>1. <<>> \in Seq(Functors)
    OBVIOUS
  <2>2. call \in [Threads -> {"none", "queued", "quitting"}]
    BY Zenon DEF Init
  <2>3. wakeup \in 0 .. WakeupMax
    BY WakeupMaxAssumption DEF Init
  <2> QED BY <2>1, <2>2, <2>3, Zenon DEF Init, TypeOK, PcValues
<1>2. Control
  BY LoopThreadAssumption, RangeEmpty, Zenon DEF Init, Control
<1>3. ~Waiting
  BY RangeEmpty, Zenon DEF Init, Waiting
<1>4. QuitWakesPoll
  BY Zenon DEF Init, QuitWakesPoll
<1> QED BY <1>1, <1>2, <1>3, <1>4, Zenon DEF IInv

LEMMA TypeStep == TypeOK /\ [Next]_vars => TypeOK'
<1> SUFFICES ASSUME TypeOK, [Next]_vars PROVE TypeOK'
  BY Zenon
<1> USE LoopThreadAssumption, WakeupMaxAssumption DEF TypeOK, PcValues, queueVars
<1>1. ASSUME NEW t \in Threads, NEW f \in Functors, QueueInLoop(t, f) PROVE TypeOK'
  BY <1>1, AppendProperties, Zenon DEF QueueInLoop
<1>2. ASSUME NEW t \in Threads, QueueInLoopWakeUp(t) PROVE TypeOK'
  BY <1>2 DEF QueueInLoopWakeUp, WakeUp
<1>3. ASSUME NEW t \in Threads, Quit(t) PROVE TypeOK'
  BY <1>3, Zenon DEF Quit, AfterQuitStore
<1>4. ASSUME NEW t \in Threads, QuitWakeUp(t) PROVE TypeOK'
  BY <1>4 DEF QuitWakeUp, WakeUp
<1>5. CASE StartLoop
  BY <1>5, Zenon DEF StartLoop
<1>6. CASE CheckQuit
  BY <1>6, Zenon DEF CheckQuit, LoopAgain
<1>7. CASE Poll
  BY <1>7, Zenon DEF Poll
<1>8. CASE PollTimeout
  BY <1>8, Zenon DEF PollTimeout
<1>9. CASE HandleRead
  BY <1>9 DEF HandleRead
<1>10. CASE HandleEvent
  BY <1>10, Zenon DEF HandleEvent
<1>11. CASE HandlerReturns
  BY <1>11, Zenon DEF HandlerReturns
<1>12. CASE SwapFunctors
  BY <1>12, Zenon DEF SwapFunctors
<1>13. CASE RunFunctor
  BY <1>13, HeadTailProperties, Zenon DEF RunFunctor
<1>14. CASE FunctorReturns
  BY <1>14, Zenon DEF FunctorReturns
<1>15. CASE EndBatch
  BY <1>15, Zenon DEF EndBatch, LeaveDoPendingFunctors
<1>16. CASE IoArrives
  BY <1>16, Zenon DEF IoArrives
<1>17. CASE UNCHANGED vars
  BY <1>17, Zenon DEF vars
<1> QED
  BY <1>1, <1>2, <1>3, <1>4, <1>5, <1>6, <1>7, <1>8, <1>9, <1>10, <1>11,
     <1>12, <1>13, <1>14, <1>15, <1>16, <1>17, Zenon
  DEF Next, LoopStep, FinishCall

\* Every step keeps the loop thread's position consistent with its variables.
LEMMA ControlStep == TypeOK /\ Control /\ [Next]_vars => Control'
<1> SUFFICES ASSUME TypeOK, Control, [Next]_vars PROVE Control'
  BY Zenon
<1> USE LoopThreadAssumption DEF TypeOK, Control, InUserCode, queueVars
<1>1. ASSUME NEW t \in Threads, NEW f \in Functors, QueueInLoop(t, f) PROVE Control'
  BY <1>1, RangeAppend DEF QueueInLoop, CanCall, InTransit
<1>2. ASSUME NEW t \in Threads, QueueInLoopWakeUp(t) PROVE Control'
  BY <1>2, Zenon DEF QueueInLoopWakeUp, WakeUp, NeedsWakeUp
<1>3. ASSUME NEW t \in Threads, Quit(t) PROVE Control'
  BY <1>3, Zenon DEF Quit, AfterQuitStore, CanCall
<1>4. ASSUME NEW t \in Threads, QuitWakeUp(t) PROVE Control'
  BY <1>4, Zenon DEF QuitWakeUp, WakeUp
<1>5. CASE StartLoop
  BY <1>5, Zenon DEF StartLoop
<1>6. CASE CheckQuit
  BY <1>6, Zenon DEF CheckQuit, LoopAgain
<1>7. CASE Poll
  BY <1>7, Zenon DEF Poll
<1>8. CASE PollTimeout
  BY <1>8, Zenon DEF PollTimeout
<1>9. CASE HandleRead
  BY <1>9, Zenon DEF HandleRead
<1>10. CASE HandleEvent
  BY <1>10, Zenon DEF HandleEvent
<1>11. CASE HandlerReturns
  BY <1>11, Zenon DEF HandlerReturns
<1>12. CASE SwapFunctors
  BY <1>12, RangeEmpty, Zenon DEF SwapFunctors
<1>13. CASE RunFunctor
  BY <1>13, RangeTail, Zenon DEF RunFunctor
<1>14. CASE FunctorReturns
  BY <1>14, Zenon DEF FunctorReturns
<1>15. CASE EndBatch
  BY <1>15, Zenon DEF EndBatch, LeaveDoPendingFunctors
<1>16. CASE IoArrives
  BY <1>16, Zenon DEF IoArrives
<1>17. CASE UNCHANGED vars
  BY <1>17, Zenon DEF vars
<1> QED
  BY <1>1, <1>2, <1>3, <1>4, <1>5, <1>6, <1>7, <1>8, <1>9, <1>10, <1>11,
     <1>12, <1>13, <1>14, <1>15, <1>16, <1>17, Zenon
  DEF Next, LoopStep, FinishCall

\* Every step that leaves a functor waiting leaves a reason to look for it.
LEMMA CoverStep ==
    TypeOK /\ Control /\ (Waiting => Covered) /\ [Next]_vars => (Waiting => Covered)'
<1> SUFFICES ASSUME TypeOK, Control, Waiting => Covered, [Next]_vars
             PROVE  (Waiting => Covered)'
  BY Zenon
<1> USE LoopThreadAssumption, WakeupMaxAssumption
    DEF TypeOK, Control, InUserCode, queueVars, Waiting, Covered
<1>1. ASSUME NEW t \in Threads, NEW f \in Functors, QueueInLoop(t, f) PROVE (Waiting => Covered)'
  BY <1>1, RangeAppend, Zenon DEF QueueInLoop, CanCall
<1>2. ASSUME NEW t \in Threads, QueueInLoopWakeUp(t) PROVE (Waiting => Covered)'
  BY <1>2 DEF QueueInLoopWakeUp, WakeUp, NeedsWakeUp
<1>3. ASSUME NEW t \in Threads, Quit(t) PROVE (Waiting => Covered)'
  BY <1>3, Zenon DEF Quit, AfterQuitStore, CanCall
<1>4. ASSUME NEW t \in Threads, QuitWakeUp(t) PROVE (Waiting => Covered)'
  BY <1>4 DEF QuitWakeUp, WakeUp
<1>5. CASE StartLoop
  BY <1>5, Zenon DEF StartLoop
<1>6. CASE CheckQuit
  BY <1>6, Zenon DEF CheckQuit, LoopAgain
<1>7. CASE Poll
  BY <1>7, Zenon DEF Poll
<1>8. CASE PollTimeout
  BY <1>8, Zenon DEF PollTimeout
<1>9. CASE HandleRead
  BY <1>9, Zenon DEF HandleRead
<1>10. CASE HandleEvent
  BY <1>10, Zenon DEF HandleEvent
<1>11. CASE HandlerReturns
  BY <1>11, Zenon DEF HandlerReturns
<1>12. CASE SwapFunctors
  BY <1>12, RangeEmpty, Zenon DEF SwapFunctors
<1>13. CASE RunFunctor
  BY <1>13, RangeTail DEF RunFunctor
<1>14. CASE FunctorReturns
  BY <1>14, Zenon DEF FunctorReturns
<1>15. CASE EndBatch
  BY <1>15, Zenon DEF EndBatch, LeaveDoPendingFunctors
<1>16. CASE IoArrives
  BY <1>16, Zenon DEF IoArrives
<1>17. CASE UNCHANGED vars
  BY <1>17, Zenon DEF vars
<1> QED
  BY <1>1, <1>2, <1>3, <1>4, <1>5, <1>6, <1>7, <1>8, <1>9, <1>10, <1>11,
     <1>12, <1>13, <1>14, <1>15, <1>16, <1>17, Zenon
  DEF Next, LoopStep, FinishCall

\* Every step that sets isQuited under a sleeping loop is about to wake it.
LEMMA QuitStep == TypeOK /\ Control /\ QuitWakesPoll /\ [Next]_vars => QuitWakesPoll'
<1> SUFFICES ASSUME TypeOK, Control, QuitWakesPoll, [Next]_vars PROVE QuitWakesPoll'
  BY Zenon
<1> USE LoopThreadAssumption, WakeupMaxAssumption
    DEF TypeOK, Control, InUserCode, queueVars, QuitWakesPoll
<1>1. ASSUME NEW t \in Threads, NEW f \in Functors, QueueInLoop(t, f) PROVE QuitWakesPoll'
  BY <1>1, Zenon DEF QueueInLoop, CanCall
<1>2. ASSUME NEW t \in Threads, QueueInLoopWakeUp(t) PROVE QuitWakesPoll'
  BY <1>2 DEF QueueInLoopWakeUp, WakeUp, NeedsWakeUp
<1>3. ASSUME NEW t \in Threads, Quit(t) PROVE QuitWakesPoll'
  BY <1>3, Zenon DEF Quit, AfterQuitStore, CanCall
<1>4. ASSUME NEW t \in Threads, QuitWakeUp(t) PROVE QuitWakesPoll'
  BY <1>4 DEF QuitWakeUp, WakeUp
<1>5. CASE StartLoop
  BY <1>5, Zenon DEF StartLoop
<1>6. CASE CheckQuit
  BY <1>6, Zenon DEF CheckQuit, LoopAgain
<1>7. CASE Poll
  BY <1>7, Zenon DEF Poll
<1>8. CASE PollTimeout
  BY <1>8, Zenon DEF PollTimeout
<1>9. CASE HandleRead
  BY <1>9, Zenon DEF HandleRead
<1>10. CASE HandleEvent
  BY <1>10, Zenon DEF HandleEvent
<1>11. CASE HandlerReturns
  BY <1>11, Zenon DEF HandlerReturns
<1>12. CASE SwapFunctors
  BY <1>12, Zenon DEF SwapFunctors
<1>13. CASE RunFunctor
  BY <1>13, Zenon DEF RunFunctor
<1>14. CASE FunctorReturns
  BY <1>14, Zenon DEF FunctorReturns
<1>15. CASE EndBatch
  BY <1>15, Zenon DEF EndBatch, LeaveDoPendingFunctors
<1>16. CASE IoArrives
  BY <1>16, Zenon DEF IoArrives
<1>17. CASE UNCHANGED vars
  BY <1>17, Zenon DEF vars
<1> QED
  BY <1>1, <1>2, <1>3, <1>4, <1>5, <1>6, <1>7, <1>8, <1>9, <1>10, <1>11,
     <1>12, <1>13, <1>14, <1>15, <1>16, <1>17, Zenon
  DEF Next, LoopStep, FinishCall

\* The invariant holds of every reachable state.
THEOREM Invariance == Spec => []IInv
<1>1. IInv /\ [Next]_vars => IInv'
  BY TypeStep, ControlStep, CoverStep, QuitStep, Zenon DEF IInv
<1> QED BY InitIInv, <1>1, PTL DEF Spec

\* The fields and local variables of the loop always have their types.
THEOREM TypeCorrect == Spec => []TypeOK
<1>1. IInv => TypeOK
  BY Zenon DEF IInv
<1> QED BY Invariance, <1>1, PTL

\* queueInLoop loses no wakeup, whatever the number of threads and functors.
THEOREM WakeupSafe == Spec => []NoLostWakeup
<1>1. IInv => NoLostWakeup
  BY Zenon DEF IInv, Waiting, Covered, NoLostWakeup
<1> QED BY Invariance, <1>1, PTL

\* quit() never leaves the loop asleep in poll().
THEOREM QuitSafe == Spec => []QuitWakesPoll
<1>1. IInv => QuitWakesPoll
  BY Zenon DEF IInv
<1> QED BY Invariance, <1>1, PTL

-----------------------------------------------------------------------------
\* Every step of the loop is a step of the FIFO queue or leaves it alone.
LEMMA QueueStep == IInv /\ [Next]_vars => [FQ!Next]_(functors \o pendingFunctors)
<1> SUFFICES ASSUME IInv, [Next]_vars
             PROVE  [FQ!Next]_(functors \o pendingFunctors)
  BY Zenon
<1> USE DEF IInv, TypeOK, Control, queueVars
<1>1. ASSUME NEW t \in Threads, NEW f \in Functors, QueueInLoop(t, f) PROVE FQ!Submit
  <2>1. functors' \o pendingFunctors' = functors \o Append(pendingFunctors, f)
    BY <1>1, Zenon DEF QueueInLoop
  <2>2. functors \o Append(pendingFunctors, f) = Append(functors \o pendingFunctors, f)
    BY AppendIsConcat, ConcatAssociative, ConcatProperties
  <2> QED BY <2>1, <2>2, Zenon DEF FQ!Submit
<1>2. CASE RunFunctor
  <2>1. functors # <<>> /\ functors' = Tail(functors) /\ pendingFunctors' = pendingFunctors
    BY <1>2, Zenon DEF RunFunctor
  <2>2. functors \o pendingFunctors # <<>>
    BY <2>1, ConcatEqualIffEmpty, Zenon
  <2>3. Tail(functors) \o pendingFunctors = Tail(functors \o pendingFunctors)
    BY <2>1, <2>2, HeadTailProperties, ConcatProperties
  <2> QED BY <2>1, <2>2, <2>3, Zenon DEF FQ!Next, FQ!Execute
<1>3. CASE SwapFunctors
  <2>1. functors = <<>> /\ functors' = pendingFunctors /\ pendingFunctors' = <<>>
    BY <1>3, Zenon DEF SwapFunctors
  <2> QED BY <2>1, ConcatEmptySeq, Zenon
<1>4. ASSUME NEW t \in Threads, FinishCall(t) \/ Quit(t)
      PROVE  UNCHANGED <<functors, pendingFunctors>>
  BY <1>4, Zenon DEF FinishCall, QueueInLoopWakeUp, QuitWakeUp, Quit
<1>5. CASE \/ StartLoop \/ CheckQuit \/ Poll \/ PollTimeout \/ HandleRead
           \/ HandleEvent \/ HandlerReturns \/ FunctorReturns \/ EndBatch
           \/ IoArrives \/ UNCHANGED vars
  BY <1>5, Zenon DEF StartLoop, CheckQuit, Poll, PollTimeout, HandleRead, HandleEvent,
     HandlerReturns, FunctorReturns, EndBatch, LeaveDoPendingFunctors, IoArrives, vars
<1> QED
  BY <1>1, <1>2, <1>3, <1>4, <1>5, Zenon DEF Next, LoopStep, FQ!Next

\* Pushes, swap and batch implement the FIFO queue of FunctorQueue: no functor
\* is lost, reordered or run twice, whatever the threads do.
THEOREM ImplementsFunctorQueue == Spec => IsFunctorQueue
<1>1. Init => FQ!Init
  BY ConcatEmptySeq DEF Init, FQ!Init
<1> QED BY <1>1, Invariance, QueueStep, PTL DEF Spec, IsFunctorQueue, FQ!Spec

-----------------------------------------------------------------------------
(* The EventLoopThreadPool.                                                *)

Starting == owner \in {"idle", "next", "starting", "waited"}

\* The threads whose loop the owner has told to quit.
Doomed(t) ==
    \/ owner = "destroy" /\ t < index
    \/ owner \in {"quit", "joining"} /\ t <= index
    \/ owner = "gone"

LoopsTypeOK ==
    /\ owner \in {"idle", "next", "starting", "waited", "up", "quit", "joining", "destroy", "gone"}
    /\ numThreads \in 0 .. MaxThreads /\ index \in Nat \ {0}
    /\ thread \in [E!PoolThreads -> [started : BOOLEAN, joined : BOOLEAN,
                                 at : {"none", "created", "running", "finished"}]]
    /\ loop \in [E!PoolThreads -> {"null", "live", "dangling"}]
    /\ at \in [E!PoolThreads -> {"none", "made", "enter", "test", "poll", "end"}]
    /\ threadQuited \in [E!PoolThreads -> BOOLEAN]
    /\ loops \in Seq(Nat) /\ nextLoop \in Nat /\ handed \in [E!PoolThreads \cup {0} -> Nat]

\* A loop's address is there from its handing over on, and the loop until its thread
\* is at its end, which it is not before the owner has told it.
LoopThreads ==
    \A t \in E!PoolThreads :
        /\ thread[t].at \in {"none", "created"} <=> at[t] = "none"
        /\ ~thread[t].started => thread[t].at = "none"
        /\ loop[t] = "null" <=> at[t] \in {"none", "made"}
        /\ loop[t] = "dangling" <=> at[t] = "end"
        /\ ~Doomed(t) => ~threadQuited[t] /\ at[t] # "end"

\* The owner has the loops of the threads it has started.
OwnerHas ==
    /\ Starting => /\ index <= numThreads + 1 /\ Len(loops) = index - 1
                   /\ owner \in {"starting", "waited"} => index <= numThreads
                   /\ nextLoop = 0 /\ \A l \in E!PoolThreads : handed[l] = 0
    /\ ~Starting => Len(loops) = numThreads
    /\ owner = "up" => index = 1
    /\ owner \in {"quit", "joining"} => index <= numThreads
    /\ \A k \in 1 .. Len(loops) : loops[k] = k /\ loop[k] # "null"

\* The loops before the next one are one call ahead.
Even ==
    /\ nextLoop = 0 \/ nextLoop < Len(loops)
    /\ \A a, b \in E!PoolThreads :
           a <= numThreads /\ b <= numThreads =>
               /\ (a <= nextLoop <=> b <= nextLoop) => handed[a] = handed[b]
               /\ a <= nextLoop /\ nextLoop < b => handed[a] = handed[b] + 1

\* The inductive invariant.
LoopsInv == LoopsTypeOK /\ LoopThreads /\ OwnerHas /\ Even /\ stale \subseteq {"wakeUp"}

LEMMA LoopsInit == MCInit => LoopsInv
<1> SUFFICES ASSUME MCInit PROVE LoopsInv
  BY Zenon
<1> USE MaxThreadsAssumption
<1>1. /\ owner = "idle" /\ numThreads \in 0 .. MaxThreads /\ index = 1
      /\ thread = [t \in E!PoolThreads |-> E!NewThread] /\ loop = [t \in E!PoolThreads |-> "null"]
      /\ loops = <<>> /\ nextLoop = 0 /\ handed = [l \in E!PoolThreads \cup {0} |-> 0]
      /\ threadQuited = [t \in E!PoolThreads |-> FALSE] /\ at = [t \in E!PoolThreads |-> "none"] /\ stale = {}
  BY Zenon DEF MCInit, E!Init, E!baseLoop
<1>2. LoopsTypeOK
  BY <1>1 DEF LoopsTypeOK, E!NewThread
<1>3. LoopThreads
  BY <1>1, Zenon DEF LoopThreads, Doomed, E!NewThread
<1>4. OwnerHas /\ Even
  BY <1>1 DEF OwnerHas, Even, Starting, E!PoolThreads
<1> QED BY <1>1, <1>2, <1>3, <1>4, Zenon DEF LoopsInv

\* EventLoopThreadPool::start and startLoop: the thread is started.
LEMMA StartLoopStep == ASSUME LoopsInv, E!StartLoop PROVE LoopsInv'
<1> USE MaxThreadsAssumption DEF E!poolVars, E!loopVars
<1>1. /\ owner \in {"idle", "next"}
      /\ UNCHANGED <<loop, stale, numThreads, loops, nextLoop, handed, threadQuited, at>>
  BY Zenon DEF E!StartLoop
<1>2. Starting /\ index <= numThreads + 1 /\ Len(loops) = index - 1 /\ \A t : ~Doomed(t)
  BY <1>1, Zenon DEF LoopsInv, OwnerHas, Starting, Doomed
<1>3. numThreads \in Nat /\ index \in Nat \ {0}
  BY DEF LoopsInv, LoopsTypeOK
<1>4. CASE index > numThreads
  <2>1. owner' = "up" /\ index' = 1 /\ thread' = thread
    BY <1>4, Zenon DEF E!StartLoop
  <2>2. LoopsTypeOK'
    BY <1>1, <2>1 DEF LoopsInv, LoopsTypeOK
  <2>3. LoopThreads'
    BY <1>1, <1>2, <2>1, Zenon DEF LoopsInv, LoopThreads
  <2>4. OwnerHas'
    BY <1>1, <1>2, <1>3, <1>4, <2>1 DEF LoopsInv, OwnerHas, Starting
  <2>5. Even'
    BY <1>1, Zenon DEF LoopsInv, Even
  <2> QED BY <1>1, <2>2, <2>3, <2>4, <2>5, Zenon DEF LoopsInv
<1>5. CASE ~(index > numThreads)
  <2>1. /\ owner' = "starting" /\ index' = index /\ ~thread[index].started
        /\ thread' = [thread EXCEPT ![index] = [@ EXCEPT !.started = TRUE, !.at = "created"]]
    BY <1>5, Zenon DEF E!StartLoop, E!CanStart, E!StartThread
  <2>2. index \in E!PoolThreads
    BY <1>3, <1>5 DEF E!PoolThreads, LoopsInv, LoopsTypeOK
  <2>3. LoopsTypeOK'
    <3> DEFINE Recs == [started : BOOLEAN, joined : BOOLEAN,
                        at : {"none", "created", "running", "finished"}]
               r == [thread[index] EXCEPT !.started = TRUE, !.at = "created"]
    <3>1. thread' \in [E!PoolThreads -> Recs]
      <4>1. thread \in [E!PoolThreads -> Recs]
        BY Zenon DEF LoopsInv, LoopsTypeOK
      <4>2. r \in Recs
        BY <2>2, <4>1, Zenon
      <4>3. thread' = [thread EXCEPT ![index] = r]
        BY <2>1, <2>2, <4>1, Zenon
      <4> HIDE DEF r, Recs
      <4> QED BY <4>1, <4>2, <4>3, Zenon
    <3> QED BY <1>1, <2>1, <3>1, Zenon DEF LoopsInv, LoopsTypeOK
  <2>4. LoopThreads'
    <3>1. \A t : ~Doomed(t)'
      BY <2>1, Zenon DEF Doomed
    <3>2. /\ thread'[index].at = "created" /\ thread'[index].started
          /\ \A t \in E!PoolThreads \ {index} : thread'[t] = thread[t]
      BY <2>1, <2>2 DEF LoopsInv, LoopsTypeOK
    <3>3. thread[index].at = "none" /\ at[index] = "none"
      BY <2>1, <2>2, Zenon DEF LoopsInv, LoopThreads
    <3> QED BY <1>1, <1>2, <3>1, <3>2, <3>3 DEF LoopsInv, LoopThreads
  <2>5. OwnerHas'
    BY <1>1, <1>2, <1>3, <1>5, <2>1 DEF LoopsInv, OwnerHas, Starting
  <2>6. Even'
    BY <1>1, Zenon DEF LoopsInv, Even
  <2> QED BY <1>1, <2>3, <2>4, <2>5, <2>6, Zenon DEF LoopsInv
<1> QED BY <1>4, <1>5, Zenon

\* startLoop: the address of the loop is awaited.
LEMMA AwaitLoopStep == ASSUME LoopsInv, E!AwaitLoop PROVE LoopsInv'
<1> USE MaxThreadsAssumption DEF E!poolVars, E!loopVars
<1>1. /\ owner \in {"starting", "waited"}
      /\ UNCHANGED <<thread, loop, stale, numThreads, nextLoop, handed, threadQuited, at>>
  BY Zenon DEF E!AwaitLoop
<1>2. /\ Starting /\ index <= numThreads /\ Len(loops) = index - 1 /\ \A t : ~Doomed(t)
      /\ nextLoop = 0 /\ \A l \in E!PoolThreads : handed[l] = 0
  BY <1>1, Zenon DEF LoopsInv, OwnerHas, Starting, Doomed
<1>3. numThreads \in Nat /\ index \in Nat \ {0} /\ loops \in Seq(Nat)
  BY DEF LoopsInv, LoopsTypeOK
<1>4. CASE loop[index] # "null"
  <2>1. owner' = "next" /\ index' = index + 1 /\ loops' = Append(loops, index)
    BY <1>4, Zenon DEF E!AwaitLoop, E!LoopIsThere
  <2>2. /\ loops' \in Seq(Nat) /\ Len(loops') = index /\ loops'[index] = index
        /\ \A k \in 1 .. Len(loops) : loops'[k] = loops[k]
    BY <1>2, <1>3, <2>1, AppendProperties
  <2>3. index' \in Nat \ {0} /\ index' - 1 = index /\ index' <= numThreads + 1
    BY <1>2, <1>3, <2>1
  <2>4. LoopsTypeOK'
    BY <1>1, <2>1, <2>2, <2>3, Zenon DEF LoopsInv, LoopsTypeOK
  <2>5. LoopThreads'
    BY <1>1, <1>2, <2>1, Zenon DEF LoopsInv, LoopThreads
  <2>6. \A k \in 1 .. Len(loops') : loops'[k] = k /\ loop'[k] # "null"
    BY <1>1, <1>2, <1>3, <1>4, <2>2 DEF LoopsInv, OwnerHas
  <2>7. OwnerHas'
    BY <1>1, <1>2, <2>1, <2>2, <2>3, <2>6, Zenon DEF OwnerHas, Starting
  <2>8. Even'
    BY <1>1, <1>2, Zenon DEF LoopsInv, Even, E!PoolThreads
  <2> QED BY <1>1, <2>4, <2>5, <2>7, <2>8, Zenon DEF LoopsInv
<1>5. CASE loop[index] = "null"
  <2>1. owner' = "waited" /\ UNCHANGED <<index, loops>>
    BY <1>5, Zenon DEF E!AwaitLoop, E!LoopIsThere
  <2>2. LoopsTypeOK'
    BY <1>1, <2>1, Zenon DEF LoopsInv, LoopsTypeOK
  <2>3. LoopThreads'
    BY <1>1, <1>2, <2>1, Zenon DEF LoopsInv, LoopThreads
  <2>4. OwnerHas' /\ Even'
    BY <1>1, <1>2, <2>1, Zenon DEF LoopsInv, OwnerHas, Starting, Even
  <2> QED BY <1>1, <2>2, <2>3, <2>4, Zenon DEF LoopsInv
<1> QED BY <1>4, <1>5, Zenon

\* getNextLoop: the next loop gets its call, and after the last one all are even again.
LEMMA GetNextLoopStep == ASSUME LoopsInv, E!GetNextLoop PROVE LoopsInv'
<1> USE MaxThreadsAssumption DEF E!poolVars, E!loopVars
<1>1. /\ owner = "up"
      /\ UNCHANGED <<owner, index, thread, loop, stale, numThreads, loops, threadQuited, at>>
      /\ handed' = [handed EXCEPT ![IF loops = <<>> THEN 0 ELSE loops[nextLoop + 1]] = @ + 1]
      /\ nextLoop' = IF loops = <<>> \/ nextLoop + 1 >= Len(loops) THEN 0 ELSE nextLoop + 1
  BY Zenon DEF E!GetNextLoop, E!baseLoop
<1>2. /\ ~Starting /\ Len(loops) = numThreads /\ loops \in Seq(Nat) /\ nextLoop \in Nat
      /\ numThreads \in Nat /\ numThreads <= MaxThreads /\ handed \in [E!PoolThreads \cup {0} -> Nat]
      /\ nextLoop = 0 \/ nextLoop < numThreads
  BY <1>1 DEF LoopsInv, LoopsTypeOK, OwnerHas, Starting, Even
<1>3. LoopThreads'
  BY <1>1, Zenon DEF LoopsInv, LoopThreads, Doomed
<1>4. OwnerHas'
  BY <1>1, <1>2, Zenon DEF LoopsInv, OwnerHas, Starting
<1>5. nextLoop' \in Nat
  BY <1>1, <1>2
<1>6. CASE loops = <<>>
  <2>1. numThreads = 0 /\ handed' = [handed EXCEPT ![0] = @ + 1] /\ nextLoop' = 0
    BY <1>1, <1>2, <1>6, Zenon
  <2>2. handed' \in [E!PoolThreads \cup {0} -> Nat]
    BY <1>2, <2>1
  <2>3. Even'
    BY <1>1, <2>1 DEF Even, E!PoolThreads
  <2>4. LoopsTypeOK'
    BY <1>1, <1>5, <2>2, Zenon DEF LoopsInv, LoopsTypeOK
  <2> QED BY <1>1, <1>3, <1>4, <2>3, <2>4, Zenon DEF LoopsInv
<1>7. CASE loops # <<>>
  <2> DEFINE l == nextLoop + 1
  <2>1. numThreads > 0 /\ l \in 1 .. numThreads
    <3>1. Len(loops) # 0
      BY <1>2, <1>7, EmptySeq, Zenon
    <3> QED BY <1>2, <3>1
  <2>2. loops[l] = l
    BY <1>2, <2>1, Zenon DEF LoopsInv, OwnerHas
  <2>3. l \in E!PoolThreads
    BY <1>2, <2>1 DEF E!PoolThreads
  <2>4. /\ handed' = [handed EXCEPT ![l] = @ + 1]
        /\ nextLoop' = IF l >= numThreads THEN 0 ELSE l
    BY <1>1, <1>2, <1>7, <2>2, Zenon
  <2>5. l = nextLoop + 1
    BY Zenon
  <2> HIDE DEF l
  <2>6. handed' \in [E!PoolThreads \cup {0} -> Nat]
    BY <1>2, <2>3, <2>4
  <2>7. \A a \in E!PoolThreads : handed'[a] = IF a = l THEN handed[a] + 1 ELSE handed[a]
    BY <1>2, <2>3, <2>4, Zenon
  <2>8. ASSUME NEW a \in E!PoolThreads, NEW b \in E!PoolThreads, a <= numThreads, b <= numThreads
        PROVE  /\ (a <= nextLoop' <=> b <= nextLoop') => handed'[a] = handed'[b]
               /\ a <= nextLoop' /\ nextLoop' < b => handed'[a] = handed'[b] + 1
    <3>1. a \in Nat /\ b \in Nat /\ a >= 1 /\ b >= 1
      BY DEF E!PoolThreads
    <3>2. /\ (a <= nextLoop <=> b <= nextLoop) => handed[a] = handed[b]
          /\ a <= nextLoop /\ nextLoop < b => handed[a] = handed[b] + 1
          /\ b <= nextLoop /\ nextLoop < a => handed[b] = handed[a] + 1
      BY <2>8, Zenon DEF LoopsInv, Even
    <3>3. handed[a] \in Nat /\ handed[b] \in Nat
      BY <1>2, Zenon
    <3>4. /\ handed'[a] = IF a = l THEN handed[a] + 1 ELSE handed[a]
          /\ handed'[b] = IF b = l THEN handed[b] + 1 ELSE handed[b]
      BY <2>7, Zenon
    <3>5. CASE l >= numThreads
      <4>1. nextLoop' = 0 /\ l = numThreads
        BY <1>2, <2>1, <2>4, <3>5
      <4> QED BY <1>2, <2>5, <2>8, <3>1, <3>2, <3>3, <3>4, <4>1
    <3>6. CASE ~(l >= numThreads)
      <4>1. nextLoop' = l
        BY <2>4, <3>6, Zenon
      <4> QED BY <1>2, <2>5, <2>8, <3>1, <3>2, <3>3, <3>4, <4>1
    <3> QED BY <3>5, <3>6, Zenon
  <2>9. Even'
    <3>1. nextLoop' = 0 \/ nextLoop' < Len(loops')
      BY <1>1, <1>2, <2>1, <2>4
    <3> QED BY <1>1, <2>8, <3>1, Zenon DEF Even, E!PoolThreads
  <2>10. LoopsTypeOK'
    BY <1>1, <1>5, <2>6, Zenon DEF LoopsInv, LoopsTypeOK
  <2> QED BY <1>1, <1>3, <1>4, <2>9, <2>10, Zenon DEF LoopsInv
<1> QED BY <1>6, <1>7, Zenon

\* ~EventLoopThread: quit(), which still finds the loop ...
LEMMA DestroyStep == ASSUME LoopsInv, E!Destroy PROVE LoopsInv'
<1> USE MaxThreadsAssumption DEF E!poolVars, E!loopVars
<1>1. /\ owner \in {"up", "destroy"}
      /\ UNCHANGED <<index, thread, loop, numThreads, loops, nextLoop, handed, at>>
  BY Zenon DEF E!Destroy
<1>2. /\ ~Starting /\ Len(loops) = numThreads /\ index \in Nat \ {0} /\ numThreads \in 0 .. MaxThreads
      /\ (owner = "up" => index = 1) /\ \A k \in 1 .. Len(loops) : loops[k] = k /\ loop[k] # "null"
  BY <1>1, Zenon DEF LoopsInv, LoopsTypeOK, OwnerHas, Starting
<1>3. Even'
  BY <1>1, Zenon DEF LoopsInv, Even
<1>4. CASE index > numThreads
  <2>1. owner' = "gone" /\ UNCHANGED <<threadQuited, stale>>
    BY <1>4, Zenon DEF E!Destroy
  <2>2. \A t : Doomed(t)'
    BY <2>1, Zenon DEF Doomed
  <2>3. LoopsTypeOK' /\ LoopThreads'
    BY <1>1, <2>1, <2>2, Zenon DEF LoopsInv, LoopsTypeOK, LoopThreads
  <2>4. OwnerHas'
    BY <1>1, <1>2, <2>1, Zenon DEF OwnerHas, Starting
  <2> QED BY <1>3, <2>1, <2>3, <2>4, Zenon DEF LoopsInv
<1>5. CASE ~(index > numThreads)
  <2>1. /\ owner' = "quit" /\ threadQuited' = [threadQuited EXCEPT ![index] = TRUE]
        /\ stale' = IF loop[index] = "live" THEN stale ELSE stale \cup {"quit"}
    BY <1>5, Zenon DEF E!Destroy
  <2>2. index \in E!PoolThreads /\ index \in 1 .. Len(loops) /\ index <= numThreads
    BY <1>2, <1>5 DEF E!PoolThreads
  <2>3. \A t \in E!PoolThreads : ~Doomed(t)' => ~Doomed(t) /\ t # index
    BY <1>1, <1>2, <2>1 DEF Doomed, E!PoolThreads
  <2>4. stale' = stale
    <3>1. ~Doomed(index)
      BY <1>1, <1>2 DEF Doomed
    <3>2. loop[index] = "live"
      BY <1>2, <2>2, <3>1 DEF LoopsInv, LoopsTypeOK, LoopThreads
    <3> QED BY <2>1, <3>2, Zenon
  <2>5. LoopsTypeOK'
    <3>1. threadQuited' \in [E!PoolThreads -> BOOLEAN]
      BY <2>1, Zenon DEF LoopsInv, LoopsTypeOK
    <3> QED BY <1>1, <2>1, <3>1, Zenon DEF LoopsInv, LoopsTypeOK
  <2>6. LoopThreads'
    <3>1. \A t \in E!PoolThreads : t # index => threadQuited'[t] = threadQuited[t]
      BY <2>1, Zenon DEF LoopsInv, LoopsTypeOK
    <3> QED BY <1>1, <2>3, <3>1, Zenon DEF LoopsInv, LoopThreads
  <2>7. OwnerHas'
    BY <1>1, <1>2, <2>1, <2>2, Zenon DEF OwnerHas, Starting
  <2> QED BY <1>3, <2>4, <2>5, <2>6, <2>7, Zenon DEF LoopsInv
<1> QED BY <1>4, <1>5, Zenon

\* ... its wakeUp(), and the join.
LEMMA WakeUpJoinStep == ASSUME LoopsInv, E!WakeUp \/ E!Join PROVE LoopsInv'
<1> USE MaxThreadsAssumption DEF E!poolVars, E!loopVars
<1>1. UNCHANGED <<loop, numThreads, loops, nextLoop, handed, at, threadQuited>>
  BY Zenon DEF E!WakeUp, E!Join
<1>2. Even'
  BY <1>1, Zenon DEF LoopsInv, Even
<1>3. CASE E!WakeUp
  <2>1. /\ owner = "quit" /\ owner' = "joining" /\ index' = index /\ thread' = thread
        /\ stale' = IF loop[index] = "live" THEN stale ELSE stale \cup {"wakeUp"}
    BY <1>3, Zenon DEF E!WakeUp
  <2>2. LoopsTypeOK' /\ LoopThreads'
    BY <1>1, <2>1, Zenon DEF LoopsInv, LoopsTypeOK, LoopThreads, Doomed
  <2>3. OwnerHas'
    BY <1>1, <2>1, Zenon DEF LoopsInv, OwnerHas, Starting
  <2>4. stale' \subseteq {"wakeUp"}
    BY <2>1, Zenon DEF LoopsInv
  <2> QED BY <1>2, <2>2, <2>3, <2>4, Zenon DEF LoopsInv
<1>4. CASE E!Join
  <2>1. /\ owner = "joining" /\ owner' = "destroy" /\ index' = index + 1 /\ stale' = stale
        /\ thread' = [thread EXCEPT ![index] = [@ EXCEPT !.joined = TRUE]]
    BY <1>4, Zenon DEF E!Join, E!JoinThread
  <2>2. index \in Nat \ {0} /\ index \in E!PoolThreads
    BY <2>1 DEF LoopsInv, LoopsTypeOK, OwnerHas, E!PoolThreads
  <2>3. index' \in Nat \ {0}
    BY <2>1, <2>2
  <2>4. /\ thread' \in [E!PoolThreads -> [started : BOOLEAN, joined : BOOLEAN,
                                      at : {"none", "created", "running", "finished"}]]
        /\ \A t \in E!PoolThreads : thread'[t].at = thread[t].at /\ thread'[t].started = thread[t].started
    <3> DEFINE Recs == [started : BOOLEAN, joined : BOOLEAN,
                        at : {"none", "created", "running", "finished"}]
               r == [thread[index] EXCEPT !.joined = TRUE]
    <3>1. thread \in [E!PoolThreads -> Recs]
      BY Zenon DEF LoopsInv, LoopsTypeOK
    <3>2. thread[index] \in Recs
      BY <2>2, <3>1, Zenon
    <3>3. r \in Recs /\ r.at = thread[index].at /\ r.started = thread[index].started
      BY <3>2, Zenon
    <3>4. thread' = [thread EXCEPT ![index] = r]
      BY <2>1, Zenon
    <3> HIDE DEF Recs, r
    <3>5. /\ thread' \in [E!PoolThreads -> Recs]
          /\ \A t \in E!PoolThreads : thread'[t] = IF t = index THEN r ELSE thread[t]
      BY <2>2, <3>1, <3>3, <3>4, Zenon
    <3> QED BY <3>3, <3>5, Zenon DEF Recs
  <2>5. LoopsTypeOK'
    BY <1>1, <2>1, <2>3, <2>4, Zenon DEF LoopsInv, LoopsTypeOK
  <2>6. \A t \in E!PoolThreads : ~Doomed(t)' => ~Doomed(t)
    BY <2>1, <2>2 DEF Doomed, E!PoolThreads
  <2>7. LoopThreads'
    BY <1>1, <2>4, <2>6, Zenon DEF LoopsInv, LoopThreads
  <2>8. OwnerHas'
    BY <1>1, <2>1, Zenon DEF LoopsInv, OwnerHas, Starting
  <2> QED BY <1>2, <2>1, <2>5, <2>7, <2>8, Zenon DEF LoopsInv
<1> QED BY <1>3, <1>4, Zenon

\* What the loop threads leave alone, and what may change of one of them.
LEMMA LoopThreadStep ==
    ASSUME LoopsInv, NEW t \in E!PoolThreads, E!LoopStep(t) \/ E!PollTimeout(t)
    PROVE  LoopsInv'
<1> USE MaxThreadsAssumption DEF E!poolVars
<1> DEFINE Same == UNCHANGED <<owner, index, numThreads, loops, nextLoop, handed, stale>>
           Recs == [started : BOOLEAN, joined : BOOLEAN,
                    at : {"none", "created", "running", "finished"}]
<1>1. ASSUME Same, thread' \in [E!PoolThreads -> Recs],
             loop' \in [E!PoolThreads -> {"null", "live", "dangling"}],
             at' \in [E!PoolThreads -> {"none", "made", "enter", "test", "poll", "end"}],
             threadQuited' \in [E!PoolThreads -> BOOLEAN],
             \A u \in E!PoolThreads \ {t} : /\ thread'[u] = thread[u] /\ loop'[u] = loop[u]
                                        /\ at'[u] = at[u] /\ threadQuited'[u] = threadQuited[u],
             thread'[t].at \in {"none", "created"} <=> at'[t] = "none",
             ~thread'[t].started => thread'[t].at = "none",
             loop'[t] = "null" <=> at'[t] \in {"none", "made"},
             loop'[t] = "dangling" <=> at'[t] = "end",
             ~Doomed(t) => ~threadQuited'[t] /\ at'[t] # "end",
             loop[t] # "null" => loop'[t] # "null"
      PROVE  LoopsInv'
  <2>1. LoopsTypeOK'
    BY <1>1, Zenon DEF LoopsInv, LoopsTypeOK
  <2>2. \A u : Doomed(u)' <=> Doomed(u)
    BY <1>1, Zenon DEF Doomed
  <2>3. LoopThreads'
    BY <1>1, <2>2, SMTT(30) DEF LoopsInv, LoopThreads
  <2>4. \A k \in 1 .. Len(loops') : loops'[k] = k /\ loop'[k] # "null"
    <3>1. \A k \in 1 .. Len(loops) : loops[k] = k /\ loop[k] # "null" /\ k \in E!PoolThreads
      BY DEF LoopsInv, LoopsTypeOK, OwnerHas, Starting, E!PoolThreads
    <3>2. \A k \in E!PoolThreads : loop[k] # "null" => loop'[k] # "null"
      <4>1. loop[t] # "null" => loop'[t] # "null"
        BY <1>1, Zenon
      <4>2. \A u \in E!PoolThreads \ {t} : loop'[u] = loop[u]
        BY <1>1, Zenon
      <4> QED BY <4>1, <4>2, Zenon
    <3>3. loops' = loops
      BY <1>1, Zenon
    <3> QED BY <3>1, <3>2, <3>3, Zenon
  <2>5. Same
    BY <1>1, Zenon
  <2>6. OwnerHas'
    BY <2>4, <2>5, Zenon DEF LoopsInv, OwnerHas, Starting
  <2>7. Even'
    BY <2>5, Zenon DEF LoopsInv, Even
  <2> QED BY <2>1, <2>3, <2>5, <2>6, <2>7, Zenon DEF LoopsInv
<1>2. /\ thread \in [E!PoolThreads -> Recs] /\ loop \in [E!PoolThreads -> {"null", "live", "dangling"}]
      /\ at \in [E!PoolThreads -> {"none", "made", "enter", "test", "poll", "end"}]
      /\ threadQuited \in [E!PoolThreads -> BOOLEAN] /\ thread[t] \in Recs
  BY Zenon DEF LoopsInv, LoopsTypeOK
<1>3. /\ thread[t].at \in {"none", "created"} <=> at[t] = "none"
      /\ ~thread[t].started => thread[t].at = "none"
      /\ loop[t] = "null" <=> at[t] \in {"none", "made"}
      /\ loop[t] = "dangling" <=> at[t] = "end"
      /\ ~Doomed(t) => ~threadQuited[t] /\ at[t] # "end"
  BY Zenon DEF LoopsInv, LoopThreads
<1>4. ASSUME NEW x \in {"running", "finished"}
      PROVE  /\ [thread[t] EXCEPT !.at = x] \in Recs /\ [thread[t] EXCEPT !.at = x].at = x
             /\ [thread[t] EXCEPT !.at = x].started = thread[t].started
  BY <1>2, Zenon
<1> HIDE DEF Recs
<1>5. CASE E!ThreadFunc(t)
  <2> DEFINE r == [thread[t] EXCEPT !.at = "running"]
  <2>1. /\ Same /\ UNCHANGED <<loop, threadQuited>> /\ at' = [at EXCEPT ![t] = "made"]
        /\ thread[t].at = "created" /\ thread' = [thread EXCEPT ![t] = r]
    BY <1>5, Zenon DEF E!ThreadFunc, E!CanRun, E!RunInThread
  <2>2. r \in Recs /\ r.at = "running" /\ r.started = thread[t].started
    BY <1>4, Zenon
  <2> HIDE DEF r, Same
  <2> QED BY <1>1, <1>2, <1>3, <2>1, <2>2, Zenon
<1>6. CASE E!HandOver(t)
  <2>1. /\ Same /\ UNCHANGED <<thread, threadQuited>> /\ at[t] = "made" /\ at' = [at EXCEPT ![t] = "enter"]
        /\ loop' = [loop EXCEPT ![t] = "live"]
    BY <1>6, Zenon DEF E!HandOver
  <2> HIDE DEF Same
  <2> QED BY <1>1, <1>2, <1>3, <2>1, Zenon
<1>7. CASE E!EnterLoop(t)
  <2>1. /\ Same /\ UNCHANGED <<thread, loop>> /\ at[t] = "enter" /\ at' = [at EXCEPT ![t] = "test"]
        /\ threadQuited' = [threadQuited EXCEPT ![t] = FALSE]
    BY <1>7, Zenon DEF E!EnterLoop
  <2> HIDE DEF Same
  <2> QED BY <1>1, <1>2, <1>3, <2>1, Zenon
<1>8. CASE E!TestQuit(t) /\ threadQuited[t]
  <2> DEFINE r == [thread[t] EXCEPT !.at = "finished"]
  <2>1. /\ Same /\ threadQuited' = threadQuited /\ at[t] = "test" /\ at' = [at EXCEPT ![t] = "end"]
        /\ loop' = [loop EXCEPT ![t] = "dangling"] /\ thread' = [thread EXCEPT ![t] = r]
    BY <1>8, Zenon DEF E!TestQuit, E!EndThread
  <2>2. r \in Recs /\ r.at = "finished" /\ r.started = thread[t].started
    BY <1>4, Zenon
  <2>3. Doomed(t)
    BY <1>3, <1>8, Zenon
  <2> HIDE DEF r, Same
  <2> QED BY <1>1, <1>2, <1>3, <2>1, <2>2, <2>3, Zenon
<1>9. CASE (E!TestQuit(t) /\ ~threadQuited[t]) \/ E!PollReturns(t) \/ E!PollTimeout(t)
  <2>1. /\ Same /\ UNCHANGED <<thread, loop, threadQuited>> /\ at[t] \in {"test", "poll"}
        /\ at' = [at EXCEPT ![t] = "poll"] \/ at' = [at EXCEPT ![t] = "test"]
    BY <1>9, Zenon DEF E!TestQuit, E!PollReturns, E!PollTimeout
  <2> HIDE DEF Same
  <2>2. at'[t] \in {"test", "poll"} /\ \A u \in E!PoolThreads \ {t} : at'[u] = at[u]
    BY <1>2, <2>1, Zenon
  <2>3. at' \in [E!PoolThreads -> {"none", "made", "enter", "test", "poll", "end"}]
    BY <1>2, <2>1, Zenon
  <2> QED BY <1>1, <1>2, <1>3, <2>1, <2>2, <2>3, Zenon
<1> QED BY <1>5, <1>6, <1>7, <1>8, <1>9, Zenon DEF E!LoopStep

LEMMA LoopsStep == LoopsInv /\ [MCNext]_allVars => LoopsInv'
<1> SUFFICES ASSUME LoopsInv, [MCNext]_allVars PROVE LoopsInv'
  BY Zenon
<1>1. ASSUME UNCHANGED <<owner, index, thread, loop, stale, numThreads, loops, nextLoop, handed,
                         threadQuited, at>>
      PROVE  LoopsInv'
  BY <1>1, SMTT(30) DEF LoopsInv, LoopsTypeOK, LoopThreads, Doomed, OwnerHas, Starting, Even
<1>2. CASE UNCHANGED threadVars
  BY <1>1, <1>2, Zenon DEF threadVars
<1>3. CASE E!SpuriousWakeup
  BY <1>1, <1>3, Zenon DEF E!SpuriousWakeup, E!poolVars, E!loopVars
<1>4. UNCHANGED threadVars \/ E!Next
  BY Zenon DEF MCNext, Loop, Pool, PoolGone, allVars
<1> QED BY <1>2, <1>3, <1>4, StartLoopStep, AwaitLoopStep, GetNextLoopStep, DestroyStep,
           WakeUpJoinStep, LoopThreadStep, Zenon DEF E!Next

\* EventLoopThreadPool.cpp and EventLoopThread.cpp, for any number of threads and any
\* interleaving: start() returns with as many loops as it was told, all of them in
\* their loop(), getNextLoop() hands them out evenly, and a destructor's quit() finds
\* its loop still there when it sets the flag.
THEOREM LoopsUsableCorrect == MCSpec => []LoopsUsable
<1>1. LoopsInv => LoopsUsable
  <2> SUFFICES ASSUME LoopsInv PROVE E!LoopsUsable
    BY Zenon DEF LoopsUsable
  <2>1. owner = "up" => Len(loops) = numThreads
    BY Zenon DEF LoopsInv, OwnerHas, Starting
  <2>2. ASSUME owner = "up", NEW t \in E!PoolThreads, t <= numThreads PROVE loop[t] = "live"
    <3>1. t \in 1 .. Len(loops)
      BY <2>1, <2>2 DEF E!PoolThreads, LoopsInv, LoopsTypeOK
    <3>2. loop[t] # "null" /\ ~Doomed(t)
      BY <2>2, <3>1, Zenon DEF LoopsInv, OwnerHas, Doomed
    <3> QED BY <2>2, <3>2, Zenon DEF LoopsInv, LoopsTypeOK, LoopThreads
  <2>3. ASSUME NEW a \in E!PoolThreads, NEW b \in E!PoolThreads, a <= numThreads, b <= numThreads
        PROVE  handed[a] <= handed[b] + 1
    <3>1. handed[a] \in Nat /\ handed[b] \in Nat /\ a \in Nat /\ b \in Nat /\ nextLoop \in Nat
      <4>1. a \in E!PoolThreads \cup {0} /\ b \in E!PoolThreads \cup {0}
        BY Zenon
      <4>2. handed \in [E!PoolThreads \cup {0} -> Nat] /\ nextLoop \in Nat
        BY Zenon DEF LoopsInv, LoopsTypeOK
      <4>3. a \in Nat /\ b \in Nat
        BY MaxThreadsAssumption DEF E!PoolThreads
      <4> QED BY <4>1, <4>2, <4>3, Zenon
    <3>2. /\ (a <= nextLoop <=> b <= nextLoop) => handed[a] = handed[b]
          /\ a <= nextLoop /\ nextLoop < b => handed[a] = handed[b] + 1
          /\ b <= nextLoop /\ nextLoop < a => handed[b] = handed[a] + 1
      BY <2>3, Zenon DEF LoopsInv, Even
    <3> QED BY <3>1, <3>2
  <2>4. stale \subseteq {"wakeUp"}
    BY Zenon DEF LoopsInv
  <2> QED BY <2>1, <2>2, <2>3, <2>4, Zenon DEF E!LoopsUsable
<1> QED BY LoopsInit, LoopsStep, <1>1, PTL DEF MCSpec

=============================================================================
