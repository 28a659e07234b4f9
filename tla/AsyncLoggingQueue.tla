------------------------- MODULE AsyncLoggingQueue -------------------------
(***************************************************************************)
(* muduo/logging/AsyncLoggingQueue.h: threads put log lines into a queue,  *)
(* bounded or not, and a logging thread takes them one by one and writes   *)
(* them.  stop() puts an empty message as the last one.                    *)
(***************************************************************************)
EXTENDS BlockingQueue, LogFile, FiniteSets

CONSTANTS Producers, MaxLines

VARIABLES lines,        \* history: the number of lines put
          putting,      \* the producers in append()
          running, latch, user, pc,
          msg,          \* what take() returned
          output, now

queueVars == <<queue, capacity, notEmpty, notFull>>
vars == <<queueVars, lines, putting, running, latch, user, pc, msg, output, now>>

\* MSG(), the empty message.
Empty == 0

\* The threads that are not producers.
User == "user"
Logger == "logger"

ASSUME ProducersAssumption == IsFiniteSet(Producers) /\ User \notin Producers

Init ==
    /\ queue = <<>> /\ notEmpty = {} /\ notFull = {}
    /\ lines = 0 /\ putting = {}
    /\ running = FALSE /\ latch = NewLatch /\ user = "idle" /\ pc = "none"
    /\ msg = Empty /\ output = NoLogFile /\ now = 1

\* append(), called.
CallAppend(p) ==
    /\ p \notin putting
    /\ lines + Cardinality(putting) < MaxLines
    /\ putting' = putting \cup {p}
    /\ UNCHANGED <<queueVars, lines, running, latch, user, pc, msg, output, now>>

\* append(): queue_.put().  Lines are numbered as they enter the queue.
PutLine(p) ==
    /\ p \in putting
    /\ \/ WaitNotFull(p) /\ UNCHANGED <<lines, putting>>
       \/ Put(p, lines + 1) /\ lines' = lines + 1 /\ putting' = putting \ {p}
    /\ UNCHANGED <<running, latch, user, pc, msg, output, now>>

\* start()
Start ==
    /\ user = "idle"
    /\ user' = "starting"
    /\ running' = TRUE
    /\ pc' = "start"
    /\ UNCHANGED <<queueVars, lines, putting, latch, msg, output, now>>
Started ==
    /\ user = "starting"
    /\ LatchOpen(latch)
    /\ user' = "started"
    /\ UNCHANGED <<queueVars, lines, putting, running, latch, pc, msg, output, now>>

\* stop(), up to the message ...
Stop ==
    /\ user = "started"
    /\ user' = "stopping"
    /\ running' = FALSE
    /\ UNCHANGED <<queueVars, lines, putting, latch, pc, msg, output, now>>

\* Mutant: stop() only tells the thread.
PutStopNot ==
    /\ user = "stopping"
    /\ user' = "joining"
    /\ UNCHANGED <<queueVars, lines, putting, running, latch, pc, msg, output, now>>

\* ... the message, for which the queue may be full ...
PutStop ==
    /\ user = "stopping"
    /\ \/ WaitNotFull(User) /\ user' = user
       \/ Put(User, Empty) /\ user' = "joining"
    /\ UNCHANGED <<lines, putting, running, latch, pc, msg, output, now>>

\* ... and the join.
Stopped ==
    /\ user = "joining"
    /\ pc = "end"
    /\ user' = "stopped"
    /\ UNCHANGED <<queueVars, lines, putting, running, latch, pc, msg, output, now>>

\* threadFunc up to its loop.
ThreadFunc ==
    /\ pc = "start"
    /\ latch' = CountDown(latch)
    /\ output' = NewLogFile(now)
    /\ pc' = "take"
    /\ UNCHANGED <<queueVars, lines, putting, running, user, msg, now>>

\* threadFunc: take() ...
TakeMsg ==
    /\ pc = "take"
    /\ \/ WaitNotEmpty(Logger) /\ UNCHANGED <<pc, msg>>
       \/ Take(Logger) /\ msg' = Head(queue) /\ pc' = "taken"
    /\ UNCHANGED <<lines, putting, running, latch, user, output, now>>

\* ... and what the message says.
WriteMsg ==
    /\ pc = "taken"
    /\ IF msg = Empty
         THEN pc' = "end" /\ output' = FlushFile(output)
         ELSE /\ pc' = "take"
              /\ \E n \in Takes(output, <<msg>>) : output' = AppendFile(output, <<msg>>, n, now)
    /\ msg' = Empty
    /\ UNCHANGED <<queueVars, lines, putting, running, latch, user, now>>

Wakeup(t) ==
    /\ SpuriousWakeup(t)
    /\ UNCHANGED <<lines, putting, running, latch, user, pc, msg, output, now>>

LogStep == ThreadFunc \/ TakeMsg \/ WriteMsg

Next ==
    \/ \E p \in Producers : CallAppend(p) \/ PutLine(p)
    \/ Start \/ Started \/ Stop \/ PutStop \/ Stopped
    \/ LogStep
    \/ \E t \in Producers \cup {User, Logger} : Wakeup(t)

-----------------------------------------------------------------------------

\* The threads in put().
Wanting == putting \cup (IF user = "stopping" THEN {User} ELSE {})

\* Nobody sleeps beside work: a thread waits for room only while those already woken
\* can fill what room there is, and the logging thread only while the queue is empty.
NobodySleeps ==
    /\ notFull # {} => capacity - Len(queue) <= Cardinality(Wanting \ notFull)
    /\ notEmpty # {} => queue = <<>>

=============================================================================
