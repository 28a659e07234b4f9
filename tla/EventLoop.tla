----------------------------- MODULE EventLoop ------------------------------
(***************************************************************************)
(* muduo/EventLoop.{h,cpp}: one loop thread runs loop(); the callbacks it  *)
(* dispatches and any number of other threads call queueInLoop, runInLoop  *)
(* and quit.  The hand-over of functors is guarded by a mutex, the loop is *)
(* woken through an eventfd, and everything else is unsynchronised.        *)
(*                                                                         *)
(* A push under the mutex and the wakeUp() that follows it are separate    *)
(* steps, and so are the two halves of quit(): between them every other    *)
(* thread may run.                                                         *)
(***************************************************************************)
EXTENDS Naturals, Sequences, Functions

CONSTANTS
    Threads,      \* the threads, the loop's own one included
    LoopThread,   \* the thread that constructed the EventLoop
    Functors,     \* the functors callers hand over
    WakeupMax     \* the largest value the eventfd counter holds

ASSUME LoopThreadAssumption == LoopThread \in Threads
ASSUME WakeupMaxAssumption == WakeupMax \in Nat \ {0}

VARIABLES
    pc,                      \* where loop() is, "idle" outside of it
    isQuited,
    callingPendingFunctors,
    pendingFunctors,         \* guarded by mutex
    functors,                \* the local vector of doPendingFunctors
    activeChannels,
    wakeup,                  \* the counter of the eventfd wakeupFd
    ioReady,                 \* whether the application's channel has an event
    call,                    \* per thread: the API call it is inside of
    early                    \* history: the queued functors that the loop
                             \* thread itself queued while outside of loop()

queueVars == <<pendingFunctors, functors, early>>
vars == <<pc, isQuited, callingPendingFunctors, activeChannels, wakeup, ioReady,
          call, pendingFunctors, functors, early>>

PcValues == {"idle", "check", "poll", "dispatch", "handler", "batch", "functor"}

\* The loop thread executes application code: before or after loop(), inside
\* the handler of a channel, or inside a functor.
InUserCode == pc \in {"idle", "handler", "functor"}

InTransit == Range(functors) \cup Range(pendingFunctors)

-----------------------------------------------------------------------------
\* The constructor leaves callingPendingFunctors uninitialised.
Init ==
    /\ pc = "idle"
    /\ isQuited = FALSE
    /\ callingPendingFunctors \in BOOLEAN
    /\ pendingFunctors = <<>>
    /\ functors = <<>>
    /\ activeChannels = {}
    /\ wakeup = 0
    /\ ioReady = FALSE
    /\ call = [t \in Threads |-> "none"]
    /\ early = {}

\* A thread can start a call: it is inside none, and the loop thread is in
\* application code.
CanCall(t) == call[t] = "none" /\ (t = LoopThread => InUserCode)

\* queueInLoop, first half: push under the mutex.  From another thread
\* runInLoop is the same; in the loop thread runInLoop calls the functor in
\* place, which is part of the application code around it.  A functor is in
\* the queue at most once: this bounds the queue.
QueueInLoop(t, f) ==
    /\ CanCall(t)
    /\ f \notin InTransit
    /\ pendingFunctors' = Append(pendingFunctors, f)
    /\ call' = [call EXCEPT ![t] = "queued"]
    /\ early' = IF t = LoopThread /\ pc = "idle" THEN early \cup {f} ELSE early
    /\ UNCHANGED <<pc, isQuited, callingPendingFunctors, activeChannels,
                   wakeup, ioReady, functors>>

\* Mutant: the second half of the test forgotten.
NeedsWakeUpCrossThreadOnly(t) == t # LoopThread

\* The test at the end of queueInLoop.
NeedsWakeUp(t) == t # LoopThread \/ callingPendingFunctors

\* Mutant: the counter wraps around instead.
WakeUpWrapping == wakeup' = (wakeup + 1) % (WakeupMax + 1)

\* The eventfd is non-blocking: a write that would overflow it fails with
\* EAGAIN, which wakeUp() only logs.
WakeUp == wakeup' = IF wakeup < WakeupMax THEN wakeup + 1 ELSE wakeup

\* queueInLoop, second half.
QueueInLoopWakeUp(t) ==
    /\ call[t] = "queued"
    /\ IF NeedsWakeUp(t) THEN WakeUp ELSE UNCHANGED wakeup
    /\ call' = [call EXCEPT ![t] = "none"]
    /\ UNCHANGED <<pc, isQuited, callingPendingFunctors, activeChannels,
                   ioReady, queueVars>>

\* Mutant: quit() without its wakeUp().
AfterQuitStoreSilent(t) == "none"

\* What quit() has left to do once isQuited is set.
AfterQuitStore(t) == IF t = LoopThread THEN "none" ELSE "quitting"

\* quit, first half: the plain store to isQuited.
Quit(t) ==
    /\ CanCall(t)
    /\ isQuited' = TRUE
    /\ call' = [call EXCEPT ![t] = AfterQuitStore(t)]
    /\ UNCHANGED <<pc, callingPendingFunctors, activeChannels, wakeup, ioReady,
                   queueVars>>

\* quit, second half, of a thread that is not the loop's.
QuitWakeUp(t) ==
    /\ call[t] = "quitting"
    /\ WakeUp
    /\ call' = [call EXCEPT ![t] = "none"]
    /\ UNCHANGED <<pc, isQuited, callingPendingFunctors, activeChannels,
                   ioReady, queueVars>>

-----------------------------------------------------------------------------
\* loop(): a previous quit() is forgotten.
StartLoop ==
    /\ pc = "idle"
    /\ call[LoopThread] = "none"
    /\ pc' = "check"
    /\ isQuited' = FALSE
    /\ UNCHANGED <<callingPendingFunctors, activeChannels, wakeup, ioReady,
                   call, queueVars>>

\* The condition of the while statement.
LoopAgain == ~isQuited

CheckQuit ==
    /\ pc = "check"
    /\ pc' = IF LoopAgain THEN "poll" ELSE "idle"
    /\ activeChannels' = {}
    /\ UNCHANGED <<isQuited, callingPendingFunctors, wakeup, ioReady, call,
                   queueVars>>

\* poll() returns the channels that have an event.
Poll ==
    /\ pc = "poll"
    /\ wakeup > 0 \/ ioReady
    /\ pc' = "dispatch"
    /\ activeChannels' = (IF wakeup > 0 THEN {"wakeup"} ELSE {})
                         \cup (IF ioReady THEN {"io"} ELSE {})
    /\ UNCHANGED <<isQuited, callingPendingFunctors, wakeup, ioReady, call,
                   queueVars>>

\* poll() returns after kPollTimeMs, or because of a signal, with no channel:
\* the kernel looks for ready descriptors first.
PollTimeout ==
    /\ pc = "poll"
    /\ wakeup = 0 /\ ~ioReady
    /\ pc' = "dispatch"
    /\ UNCHANGED <<isQuited, callingPendingFunctors, activeChannels, wakeup,
                   ioReady, call, queueVars>>

\* The wakeup channel's handler: reading the eventfd resets its counter.
HandleRead ==
    /\ pc = "dispatch"
    /\ "wakeup" \in activeChannels
    /\ activeChannels' = activeChannels \ {"wakeup"}
    /\ wakeup' = 0
    /\ UNCHANGED <<pc, isQuited, callingPendingFunctors, ioReady, call,
                   queueVars>>

\* The application's channel: its handler consumes the event and may call the
\* loop's API until it returns.  Its place relative to the wakeup channel
\* depends on when it was registered, so both orders occur.
HandleEvent ==
    /\ pc = "dispatch"
    /\ "io" \in activeChannels
    /\ activeChannels' = activeChannels \ {"io"}
    /\ ioReady' = FALSE
    /\ pc' = "handler"
    /\ UNCHANGED <<isQuited, callingPendingFunctors, wakeup, call, queueVars>>

HandlerReturns ==
    /\ pc = "handler"
    /\ call[LoopThread] = "none"
    /\ pc' = "dispatch"
    /\ UNCHANGED <<isQuited, callingPendingFunctors, activeChannels, wakeup,
                   ioReady, call, queueVars>>

\* doPendingFunctors up to the swap.  The flag is only read by the loop
\* thread, so setting it and swapping under the mutex is one step.
SwapFunctors ==
    /\ pc = "dispatch"
    /\ activeChannels = {}
    /\ callingPendingFunctors' = TRUE
    /\ functors' = pendingFunctors
    /\ pendingFunctors' = functors
    /\ pc' = "batch"
    /\ UNCHANGED <<isQuited, activeChannels, wakeup, ioReady, call, early>>

\* The next functor of the batch starts.
RunFunctor ==
    /\ pc = "batch"
    /\ functors # <<>>
    /\ functors' = Tail(functors)
    /\ early' = early \ {Head(functors)}
    /\ pc' = "functor"
    /\ UNCHANGED <<isQuited, callingPendingFunctors, activeChannels, wakeup,
                   ioReady, call, pendingFunctors>>

FunctorReturns ==
    /\ pc = "functor"
    /\ call[LoopThread] = "none"
    /\ pc' = "batch"
    /\ UNCHANGED <<isQuited, callingPendingFunctors, activeChannels, wakeup,
                   ioReady, call, queueVars>>

\* Mutant: the batch was a copy of pendingFunctors, cleared when it is through.
LeaveDoPendingFunctorsClearing == pendingFunctors' = <<>> /\ pc' = "check"

\* Mutant: batches are run until no functor is pending.
LeaveDoPendingFunctorsEmpty ==
    /\ UNCHANGED pendingFunctors
    /\ pc' = IF pendingFunctors = <<>> THEN "check" ELSE "dispatch"

\* One batch per iteration; what it queued waits for the next one.
LeaveDoPendingFunctors == UNCHANGED pendingFunctors /\ pc' = "check"

\* The end of doPendingFunctors and of the iteration.
EndBatch ==
    /\ pc = "batch"
    /\ functors = <<>>
    /\ callingPendingFunctors' = FALSE
    /\ LeaveDoPendingFunctors
    /\ UNCHANGED <<isQuited, activeChannels, wakeup, ioReady, call, functors, early>>

\* External: the application's file descriptor becomes ready.
IoArrives ==
    /\ ~ioReady
    /\ ioReady' = TRUE
    /\ UNCHANGED <<pc, isQuited, callingPendingFunctors, activeChannels,
                   wakeup, call, queueVars>>

-----------------------------------------------------------------------------
\* The loop thread's own progress, apart from the expiry of the poll timeout.
LoopStep ==
    \/ CheckQuit \/ Poll \/ HandleRead \/ HandleEvent \/ HandlerReturns
    \/ SwapFunctors \/ RunFunctor \/ FunctorReturns \/ EndBatch

\* A thread finishes the call it is inside of.
FinishCall(t) == QueueInLoopWakeUp(t) \/ QuitWakeUp(t)

Next ==
    \/ StartLoop \/ LoopStep \/ PollTimeout \/ IoArrives
    \/ \E t \in Threads :
          FinishCall(t) \/ Quit(t) \/ \E f \in Functors : QueueInLoop(t, f)

Spec == Init /\ [][Next]_vars

\* Threads that are inside loop() or an API call keep running.  Nothing makes
\* an application call the API or a descriptor become ready, and the poll
\* timeout is not relied upon.
FairSpec == Spec /\ WF_vars(LoopStep) /\ \A t \in Threads : WF_vars(FinishCall(t))

-----------------------------------------------------------------------------
\* The values the fields and the local variables take.
TypeOK ==
    /\ pc \in PcValues
    /\ isQuited \in BOOLEAN
    /\ callingPendingFunctors \in BOOLEAN
    /\ pendingFunctors \in Seq(Functors)
    /\ functors \in Seq(Functors)
    /\ activeChannels \subseteq {"wakeup", "io"}
    /\ wakeup \in 0 .. WakeupMax
    /\ ioReady \in BOOLEAN
    /\ call \in [Threads -> {"none", "queued", "quitting"}]
    /\ early \subseteq Functors

\* queueInLoop never loses a wakeup: when the loop is blocked in poll() and a
\* functor waits that was not queued by the loop thread outside of loop(),
\* then the eventfd is readable or a thread is still on its way to write it.
NoLostWakeup ==
    pc = "poll" /\ ~(Range(pendingFunctors) \subseteq early)
        => wakeup > 0 \/ \E t \in Threads \ {LoopThread} : call[t] = "queued"

\* quit() never leaves the loop asleep: when the loop is blocked in poll() and
\* isQuited is set, the eventfd is readable or the quitting thread is still on
\* its way to write it.
QuitWakesPoll ==
    pc = "poll" /\ isQuited
        => wakeup > 0 \/ \E t \in Threads \ {LoopThread} : call[t] = "quitting"

\* The swap of doPendingFunctors and the pushes of queueInLoop implement one
\* FIFO queue from which nothing is lost and nothing runs twice, also across
\* quit() and a second loop().
FQ == INSTANCE FunctorQueue WITH queue <- functors \o pendingFunctors
IsFunctorQueue == FQ!Spec

\* A functor that is pending while the loop runs is executed, or the loop is
\* told to quit first, and this does not take the poll timeout.
FunctorsRun ==
    \A f \in Functors :
        (f \in Range(pendingFunctors) \ early /\ pc # "idle")
            ~> (f \notin Range(pendingFunctors) \/ pc = "idle")

\* Functors that queue functors again and again do not starve the channels: a
\* ready channel is handled, or the loop is told to quit first.
IoServed == (ioReady /\ pc # "idle") ~> (~ioReady \/ pc = "idle")

\* A quit() that comes while loop() runs makes loop() return, without the help
\* of the poll timeout.
QuitStopsLoop == (isQuited /\ pc # "idle") ~> (pc = "idle")

=============================================================================
