----------------------------- MODULE TimerQueue -----------------------------
(***************************************************************************)
(* muduo/TimerQueue.{h,cpp}, Timer.{h,cpp} and TimerId.h: timers kept in   *)
(* two sets, sorted by expiration and by address, and one timerfd armed    *)
(* for the earliest of them.                                               *)
(*                                                                         *)
(* Time is relative to the wall clock's now: an expiration is the time     *)
(* left, and 0 when it is reached or past.  A tick, the 100 microseconds   *)
(* of howMuchTimeFromNow, lowers all of them and the timerfd's countdown,  *)
(* which runs on the monotonic clock; a step of the wall clock moves the   *)
(* expirations only.  Calls from other threads reach the loop through the  *)
(* FIFO queue of EventLoop (module FunctorQueue).                          *)
(***************************************************************************)
EXTENDS Integers, Sequences, FiniteSets, Functions, FiniteSetsExt

CONSTANTS
    Timers,      \* the addresses a Timer may be allocated at
    MaxDelay,    \* bound: the longest delay and interval, in ticks
    MaxCalls,    \* bound: the calls of other threads waiting in the loop
    MaxCreated,  \* the counter s_numCreated wraps here
    MaxSteps     \* bound: how often the wall clock is set
ASSUME BoundsAssumption == MaxDelay \in Nat /\ MaxCreated \in Nat \ {0}

VARIABLES
    heap,                  \* the allocated Timers: address -> fields
    numCreated,            \* Timer::s_numCreated
    timerList,             \* pairs <<expiration, timer>>
    activeTimerSet,        \* pairs <<timer, sequence>>
    cancelingTimerSet,     \* pairs <<timer, sequence>>
    callingExpiredTimers,
    expired,               \* handleRead: the timers getExpired returned
    toRun,                 \* those of them whose callback is still to run
    age,                   \* how long ago handleRead read the clock
    alarm,                 \* the timerfd's countdown, 0 when disarmed
    readable,              \* the timerfd has expired and was not read
    calls,                 \* the queued calls of other threads
    steps,                 \* how often the wall clock was set
    cancelled              \* history: the live timers whose cancel() ran

vars == <<heap, numCreated, timerList, activeTimerSet, cancelingTimerSet,
          callingExpiredTimers, expired, toRun, age, alarm, readable, calls,
          steps, cancelled>>

Delay == 0 .. MaxDelay
Left == 0 .. MaxDelay + MaxSteps
Sequence == 1 .. MaxCreated
Timer == [expirationTimestamp : Left, interval : Delay, sequence : Sequence]

Listed == {e[2] : e \in timerList}
Waiting == {c[2] : c \in {d \in Range(calls) : d[1] = "addTimerInLoop"}}

-----------------------------------------------------------------------------
Init ==
    /\ heap = [t \in {} |-> 0]
    /\ numCreated = 0
    /\ timerList = {} /\ activeTimerSet = {} /\ cancelingTimerSet = {}
    /\ callingExpiredTimers = FALSE /\ expired = {} /\ toRun = {} /\ age = 0
    /\ alarm = 0 /\ readable = FALSE
    /\ calls = <<>> /\ steps = 0 /\ cancelled = {}

\* Mutant: a timer that has expired disarms the timerfd instead of firing soon.
HowMuchTimeFromNowUnclamped(when) == when

\* howMuchTimeFromNow: at least one tick, since 0 would disarm the timerfd.
HowMuchTimeFromNow(when) == IF when < 1 THEN 1 ELSE when

\* resetTimerfd: timerfd_settime also forgets an expiration not read yet.
ResetTimerfd(when) == alarm' = HowMuchTimeFromNow(when) /\ readable' = FALSE

\* Mutant: a timer that is due before the first does not move the alarm.
EarliestChangedOnlyWhenEmpty(when, changed) == changed = (timerList = {})

\* insert: is the new timer the first?  Of two times that are both past, the
\* new one may be the earlier.
EarliestChanged(when, changed) ==
    IF timerList = {} THEN changed
    ELSE LET first == Min({e[1] : e \in timerList})
         IN  IF when = 0 /\ first = 0 THEN changed \in BOOLEAN ELSE changed = (when < first)

\* addTimerInLoop(timer), where h is the heap that holds the timer.
AddTimerInLoop(t, h) ==
    LET when == h[t].expirationTimestamp
    IN  /\ \E changed \in BOOLEAN :
              /\ EarliestChanged(when, changed)
              /\ IF changed THEN ResetTimerfd(when) ELSE UNCHANGED <<alarm, readable>>
        /\ timerList' = timerList \cup {<<when, t>>}
        /\ activeTimerSet' = activeTimerSet \cup {<<t, h[t].sequence>>}

\* new Timer(cb, now + delay, interval): the counter gives its sequence.
Allocate(t, delay, interval) ==
    /\ t \notin DOMAIN heap
    /\ numCreated' = (numCreated + 1) % MaxCreated
    /\ heap' = [u \in DOMAIN heap \cup {t} |->
                   IF u = t THEN [expirationTimestamp |-> delay, interval |-> interval,
                                  sequence |-> numCreated + 1]
                   ELSE heap[u]]

\* addTimer in the loop thread, in a callback or not.
AddTimer(t, delay, interval) ==
    /\ Allocate(t, delay, interval)
    /\ AddTimerInLoop(t, heap')
    /\ UNCHANGED <<cancelingTimerSet, callingExpiredTimers, expired, toRun, age, calls,
                   steps, cancelled>>

\* addTimer in another thread.
AddTimerElsewhere(t, delay, interval) ==
    /\ Len(calls) < MaxCalls
    /\ Allocate(t, delay, interval)
    /\ calls' = Append(calls, <<"addTimerInLoop", t>>)
    /\ UNCHANGED <<timerList, activeTimerSet, cancelingTimerSet, callingExpiredTimers,
                   expired, toRun, age, alarm, readable, steps, cancelled>>

\* The TimerId addTimer returns: its sequence is the default of TimerId's
\* constructor.
TimerIdOf(t) == <<t, 0>>

\* cancelInLoop
CancelInLoop(t) ==
    LET id == TimerIdOf(t)
        found == id \in activeTimerSet
    IN  /\ timerList' = {e \in timerList : ~(found /\ e[2] = t)}
        /\ activeTimerSet' = activeTimerSet \ {id}
        /\ heap' = Restrict(heap, {u \in DOMAIN heap : ~(found /\ u = t)})
        /\ cancelingTimerSet' =
              cancelingTimerSet \cup (IF ~found /\ callingExpiredTimers THEN {id} ELSE {})
        /\ cancelled' = cancelled \cup ({t} \cap (Listed \cup expired))
        /\ UNCHANGED <<numCreated, callingExpiredTimers, expired, toRun, age, alarm, readable,
                       steps>>

\* cancel() in the loop thread, with an id whose timer may be gone by now.
Cancel(t) == CancelInLoop(t) /\ UNCHANGED calls

\* cancel() in another thread.
CancelElsewhere(t) ==
    /\ Len(calls) < MaxCalls
    /\ calls' = Append(calls, <<"cancelInLoop", t>>)
    /\ UNCHANGED <<heap, numCreated, timerList, activeTimerSet, cancelingTimerSet,
                   callingExpiredTimers, expired, toRun, age, alarm, readable, steps, cancelled>>

\* doPendingFunctors runs the next call, outside handleRead.
RunCall ==
    /\ ~callingExpiredTimers
    /\ calls # <<>>
    /\ calls' = Tail(calls)
    /\ LET t == Head(calls)[2]
       IN  \/ /\ Head(calls)[1] = "addTimerInLoop"
              /\ AddTimerInLoop(t, heap)
              /\ UNCHANGED <<heap, numCreated, cancelingTimerSet, callingExpiredTimers,
                             expired, toRun, age, steps, cancelled>>
           \/ Head(calls)[1] = "cancelInLoop" /\ CancelInLoop(t)

\* Mutant: the expired timers stay active.
DeactivatedNot(ts) == activeTimerSet

\* getExpired: the set by address after the timers ts left it.
Deactivated(ts) == activeTimerSet \ {<<t, heap[t].sequence>> : t \in ts}

\* handleRead up to the first callback: readTimerfd and getExpired.
HandleRead ==
    LET due == {e \in timerList : e[1] = 0}
    IN  /\ ~callingExpiredTimers
        /\ readable
        /\ readable' = FALSE
        /\ expired' = {e[2] : e \in due}
        /\ toRun' = expired'
        /\ timerList' = timerList \ due
        /\ activeTimerSet' = Deactivated(expired')
        /\ callingExpiredTimers' = TRUE
        /\ cancelingTimerSet' = {}
        /\ age' = 0
        /\ UNCHANGED <<heap, numCreated, alarm, calls, steps, cancelled>>

\* A callback; what it adds and cancels are the actions above.
Run(t) ==
    /\ t \in toRun
    /\ toRun' = toRun \ {t}
    /\ UNCHANGED <<heap, numCreated, timerList, activeTimerSet, cancelingTimerSet,
                   callingExpiredTimers, expired, age, alarm, readable, calls, steps, cancelled>>

\* reset: does the timer go back into the queue?
Restarts(t) == heap[t].interval > 0 /\ <<t, heap[t].sequence>> \notin cancelingTimerSet

\* reset: is the timerfd armed again?
Rearm(again, list) == list # {}

\* reset: the timers that are not deleted.
Kept(again) == (DOMAIN heap \ expired) \cup again

\* The end of handleRead: reset.
Reset ==
    LET again == {t \in expired : Restarts(t)}
        left(t) == IF heap[t].interval > age THEN heap[t].interval - age ELSE 0
    IN  /\ callingExpiredTimers
        /\ toRun = {}
        /\ callingExpiredTimers' = FALSE
        /\ heap' = [t \in Kept(again) |->
                       IF t \in again THEN [heap[t] EXCEPT !.expirationTimestamp = left(t)]
                       ELSE heap[t]]
        /\ timerList' = timerList \cup {<<left(t), t>> : t \in again}
        /\ activeTimerSet' = activeTimerSet \cup {<<t, heap[t].sequence>> : t \in again}
        /\ IF Rearm(again, timerList')
             THEN ResetTimerfd(Min({e[1] : e \in timerList'}))
             ELSE UNCHANGED <<alarm, readable>>
        /\ expired' = {}
        /\ cancelled' = cancelled \ (expired \ again)
        /\ age' = 0
        /\ UNCHANGED <<numCreated, cancelingTimerSet, toRun, calls, steps>>

-----------------------------------------------------------------------------
\* The wall clock moves on by d.  An age beyond every interval is cut off.
Forward(d) ==
    LET nearer(w) == IF w > d THEN w - d ELSE 0
    IN  /\ timerList' = {<<nearer(e[1]), e[2]>> : e \in timerList}
        /\ heap' = [t \in DOMAIN heap |->
                       [heap[t] EXCEPT !.expirationTimestamp = nearer(@)]]
        /\ age' = IF callingExpiredTimers THEN Min({age + d, MaxDelay}) ELSE 0

\* The wall clock moves back by a tick.  Of the times that are past, those of
\* the timers in late stay so.
Backward ==
    \E late \in SUBSET DOMAIN heap :
        LET further(t, w) == IF w = 0 /\ t \in late THEN 0 ELSE w + 1
        IN  /\ timerList' = {<<further(e[2], e[1]), e[2]>> : e \in timerList}
            /\ heap' = [t \in DOMAIN heap |->
                           [heap[t] EXCEPT !.expirationTimestamp = further(t, @)]]
            /\ age' \in IF ~callingExpiredTimers THEN {0}
                       ELSE IF age = MaxDelay THEN {age, age - 1} ELSE {age - 1}

\* External: time passes on both clocks, and the timerfd may fire.
Tick ==
    /\ Forward(1)
    /\ alarm' = IF alarm > 0 THEN alarm - 1 ELSE 0
    /\ readable' = (readable \/ alarm = 1)
    /\ UNCHANGED <<numCreated, activeTimerSet, cancelingTimerSet, callingExpiredTimers,
                   expired, toRun, calls, steps, cancelled>>

\* External: the wall clock is set.
SetClock ==
    /\ steps < MaxSteps
    /\ steps' = steps + 1
    /\ Forward(MaxDelay) \/ Backward
    /\ UNCHANGED <<numCreated, activeTimerSet, cancelingTimerSet, callingExpiredTimers,
                   expired, toRun, alarm, readable, calls, cancelled>>

Next ==
    \/ \E t \in Timers :
          \/ \E delay, interval \in Delay :
                AddTimer(t, delay, interval) \/ AddTimerElsewhere(t, delay, interval)
          \/ Cancel(t) \/ CancelElsewhere(t) \/ Run(t)
    \/ RunCall \/ HandleRead \/ Reset
    \/ Tick \/ SetClock

Spec == Init /\ [][Next]_vars

\* The loop keeps running and time keeps passing.  Every iteration of loop()
\* reaches doPendingFunctors, however often the timerfd fires.
FairSpec ==
    /\ Spec
    /\ WF_vars(Tick) /\ WF_vars(HandleRead) /\ WF_vars(Reset) /\ SF_vars(RunCall)
    /\ \A t \in Timers : WF_vars(Run(t))

-----------------------------------------------------------------------------
\* The two sets hold the same timers, each under its present expiration and
\* sequence: the assertions of getExpired, insert and cancelInLoop hold, also
\* when callbacks and other threads add and cancel.  And every allocated timer
\* is in exactly one place: in a call on its way to the loop, in the queue, or
\* in the batch handleRead works on, so that no timer leaks, and no callback or
\* reset touches one that was deleted.
SetsAgree ==
    /\ \A e \in timerList : e[2] \in DOMAIN heap /\ e[1] = heap[e[2]].expirationTimestamp
    /\ activeTimerSet = {<<t, heap[t].sequence>> : t \in Listed}
    /\ Cardinality(timerList) = Cardinality(activeTimerSet)
    /\ DOMAIN heap = Waiting \cup Listed \cup expired
    /\ Waiting \cap Listed = {} /\ Waiting \cap expired = {} /\ Listed \cap expired = {}

\* Outside handleRead a queue that is not empty has its timerfd fired or
\* armed, whatever happens to the clock: no timer is left without an alarm.
\* While the clock is not set the alarm also comes no later than the first
\* expiration, or within the least delay of a timerfd when that has passed:
\* what resetTimerfd arms is never outdated by a timer added, restarted or
\* cancelled later.
AlarmInTime ==
    ~callingExpiredTimers /\ ~readable
        => \A e \in timerList :
              alarm > 0 /\ (steps = 0 => alarm <= HowMuchTimeFromNow(e[1]))

\* A timer in the queue expires, and its callback runs; one that repeats is in the
\* queue again after that.
ListedRuns ==
    \A t \in Timers :
        /\ t \in Listed ~> t \in toRun
        /\ t \in expired /\ heap[t].interval > 0 ~> t \in Listed

\* cancel() takes a timer out of the queue for good: its TimerId, built from
\* the sequence that the atomic counter makes unique, finds it.
CancelStops == cancelled \cap Listed = {}

=============================================================================
