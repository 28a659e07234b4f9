--------------------------- MODULE AsyncLogging -----------------------------
(***************************************************************************)
(* muduo/logging/AsyncLoggingDoubleBuffering.h: threads append log lines   *)
(* to a current buffer under a mutex; a logging thread swaps the full      *)
(* buffers and the current one for two spares, writes them and makes two   *)
(* of them the next spares.                                                *)
(*                                                                         *)
(* Lines are numbered in the order of their append().                      *)
(***************************************************************************)
EXTENDS LogFile, Sync

CONSTANTS
    Capacity,    \* the lines that fit into a buffer
    MaxBuffers,  \* more buffers than this are dropped (25 in the code)
    MaxLines     \* bound: the number of lines appended

VARIABLES
    lines,           \* history: the number of lines appended
    currentBuffer, nextBuffer, buffers,
    running,
    latch,           \* latch_: the count
    user,            \* the thread that calls start() and stop()
    pc,              \* the logging thread
    newBuffer1, newBuffer2, buffersToWrite,
    next,            \* the loop over buffersToWrite, from 1
    output,          \* the LogFile
    dropped,         \* history: "Dropped log messages" was written
    now              \* time(NULL)

userVars == <<running, latch, user, now>>
frontVars == <<lines, currentBuffer, nextBuffer, buffers>>
backVars == <<newBuffer1, newBuffer2, buffersToWrite, next, output, dropped>>
vars == <<frontVars, userVars, pc, backVars>>

\* A BufferPtr holds the lines of its buffer, or nothing; 0 is no line.
None == <<0>>
DropMsg == 0

-----------------------------------------------------------------------------
Init ==
    /\ lines = 0
    /\ currentBuffer = <<>> /\ nextBuffer = <<>> /\ buffers = <<>>
    /\ running = FALSE /\ latch = NewLatch /\ user = "idle"
    /\ pc = "none"
    /\ newBuffer1 = None /\ newBuffer2 = None /\ buffersToWrite = <<>> /\ next = 1
    /\ output = NoLogFile /\ dropped = FALSE
    /\ now = 1

\* Mutant: the full buffer is not kept.
FullBuffersLost == buffers

\* append: the buffers after the current one was full.
FullBuffers == Append(buffers, currentBuffer)

\* append
AppendLine ==
    /\ lines < MaxLines
    /\ lines' = lines + 1
    /\ IF Len(currentBuffer) < Capacity
         THEN /\ currentBuffer' = Append(currentBuffer, lines')
              /\ UNCHANGED <<nextBuffer, buffers>>
         ELSE /\ buffers' = FullBuffers
              /\ currentBuffer' = (IF nextBuffer # None THEN nextBuffer ELSE <<>>) \o <<lines'>>
              /\ nextBuffer' = None
    /\ UNCHANGED <<userVars, pc, backVars>>

\* start(): the thread is started and the latch awaited.
Start ==
    /\ user = "idle"
    /\ user' = "starting"
    /\ running' = TRUE
    /\ pc' = "start"
    /\ UNCHANGED <<frontVars, latch, now, backVars>>
Started ==
    /\ user = "starting"
    /\ LatchOpen(latch)
    /\ user' = "started"
    /\ UNCHANGED <<frontVars, running, latch, now, pc, backVars>>

\* stop(): the logging thread is told and joined.
Stop ==
    /\ user = "started"
    /\ user' = "stopping"
    /\ running' = FALSE
    /\ UNCHANGED <<frontVars, latch, now, pc, backVars>>
Stopped ==
    /\ user = "stopping"
    /\ pc = "end"
    /\ user' = "stopped"
    /\ UNCHANGED <<frontVars, running, latch, now, pc, backVars>>

\* threadFunc up to its loop.
ThreadFunc ==
    /\ pc = "start"
    /\ latch' = CountDown(latch)
    /\ output' = NewLogFile(now)
    /\ newBuffer1' = <<>> /\ newBuffer2' = <<>>
    /\ pc' = "loop"
    /\ UNCHANGED <<frontVars, running, user, now, buffersToWrite, next, dropped>>

\* threadFunc: the condition of the loop.
LoopAgain == running

\* The condition of the loop, up to the mutex.
CheckRunning ==
    /\ pc = "loop"
    /\ pc' = IF LoopAgain THEN "lock" ELSE "end"
    /\ output' = IF LoopAgain THEN output ELSE FlushFile(output)
    /\ UNCHANGED <<frontVars, userVars, newBuffer1, newBuffer2, buffersToWrite, next, dropped>>

\* With full buffers there waitForSeconds is called, without it is not.
Wait ==
    /\ pc = "lock"
    /\ buffers # <<>>
    /\ pc' = "wait"
    /\ UNCHANGED <<frontVars, userVars, backVars>>

\* Mutant: the second spare is handed out although there is a next buffer.
RefillsNextAlways == TRUE

\* threadFunc: is the second spare needed?
RefillsNext == nextBuffer = None

\* The rest of the critical section; the wait ends by a notify or a timeout.
Swap ==
    /\ pc = "wait" \/ (pc = "lock" /\ buffers = <<>>)
    /\ buffersToWrite' = Append(buffers, currentBuffer)
    /\ buffers' = <<>>
    /\ currentBuffer' = newBuffer1
    /\ newBuffer1' = None
    /\ nextBuffer' = IF RefillsNext THEN newBuffer2 ELSE nextBuffer
    /\ newBuffer2' = IF RefillsNext THEN None ELSE newBuffer2
    /\ pc' = "drop"
    /\ UNCHANGED <<lines, userVars, next, output, dropped>>

\* threadFunc: of too many buffers the last two are kept.
Kept(bs) == IF Len(bs) > MaxBuffers THEN SubSeq(bs, Len(bs) - 1, Len(bs)) ELSE bs

\* threadFunc: of too many buffers most are dropped, with a message.
Drop ==
    /\ pc = "drop"
    /\ buffersToWrite' = Kept(buffersToWrite)
    /\ LET tooMany == Len(buffersToWrite) > MaxBuffers
       IN  /\ dropped' = (dropped \/ tooMany)
           /\ IF tooMany
                THEN \E n \in Takes(output, <<DropMsg>>) :
                         output' = AppendFile(output, <<DropMsg>>, n, now)
                ELSE output' = output
    /\ next' = 1
    /\ pc' = "write"
    /\ UNCHANGED <<frontVars, userVars, newBuffer1, newBuffer2>>

\* threadFunc: the loop that appends the buffers to the LogFile.
Write ==
    /\ pc = "write"
    /\ next <= Len(buffersToWrite)
    /\ \E n \in Takes(output, buffersToWrite[next]) :
           output' = AppendFile(output, buffersToWrite[next], n, now)
    /\ next' = next + 1
    /\ UNCHANGED <<frontVars, userVars, pc, newBuffer1, newBuffer2, buffersToWrite, dropped>>

\* threadFunc: the written buffers that may become spares, last one first.
Recycled(bs) == SubSeq(bs, 1, IF Len(bs) > 2 THEN 2 ELSE Len(bs))

\* Mutant: the spare keeps its lines.
ResetNot(b) == b

\* FixedBuffer::reset
Reset(b) == <<>>

\* threadFunc: the spares are replaced, and the file is flushed.
Recycle ==
    LET spare == Recycled(buffersToWrite)
        left == IF newBuffer1 = None THEN Len(spare) - 1 ELSE Len(spare)
    IN  /\ pc = "write"
        /\ next > Len(buffersToWrite)
        /\ newBuffer1' = IF newBuffer1 = None /\ spare # <<>> THEN Reset(spare[Len(spare)])
                         ELSE newBuffer1
        /\ newBuffer2' = IF newBuffer2 = None /\ left > 0 THEN Reset(spare[left])
                         ELSE newBuffer2
        /\ buffersToWrite' = <<>>
        /\ next' = 1
        /\ output' = FlushFile(output)
        /\ pc' = "loop"
        /\ UNCHANGED <<frontVars, userVars, dropped>>

LogStep == ThreadFunc \/ CheckRunning \/ Wait \/ Swap \/ Drop \/ Write \/ Recycle

Next == AppendLine \/ Start \/ Started \/ Stop \/ Stopped \/ LogStep

-----------------------------------------------------------------------------
\* At the head of the loop both spares are there and empty, as it asserts:
\* whenever the second was handed out, two buffers came back.
SparesReady ==
    pc \in {"loop", "lock", "wait"} => newBuffer1 = <<>> /\ newBuffer2 = <<>>

=============================================================================
