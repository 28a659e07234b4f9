----------------------------- MODULE MCLogging -----------------------------
(***************************************************************************)
(* The loggers between which AsyncLogging_test.cc chooses, one in          *)
(* each behaviour: double buffering, or a queue, bounded or not.  All of   *)
(* them write to a LogFile, by a clock that may be set back.               *)
(***************************************************************************)
EXTENDS AsyncLoggingQueue

CONSTANTS Capacity, MaxBuffers, Capacities, MaxTime

\* As in the code: a buffer takes a line, and what is kept gives two spares.
ASSUME SizeAssumption == Capacity \in Nat \ {0} /\ MaxBuffers \in Nat /\ MaxBuffers >= 2

VARIABLES logger,
          currentBuffer, nextBuffer, buffers, newBuffer1, newBuffer2, buffersToWrite, next, dropped

D == INSTANCE AsyncLogging

doubleOnly == <<currentBuffer, nextBuffer, buffers, newBuffer1, newBuffer2, buffersToWrite, next,
                dropped>>
queueOnly == <<queue, capacity, notEmpty, notFull, putting, msg>>
allVars == <<vars, logger, doubleOnly>>

MCInit ==
    /\ Init
    /\ D!Init
    /\ \/ logger = "double" /\ capacity = Unbounded
       \/ logger = "queue" /\ capacity \in Capacities

Tick ==
    /\ now' \in {now - 1, now + 1} \cap 1 .. MaxTime
    /\ UNCHANGED <<lines, doubleOnly, running, latch, user, pc, output, logger, queueOnly>>

Double(A) == logger = "double" /\ A /\ UNCHANGED <<logger, queueOnly>>
Queue(A) == logger = "queue" /\ A /\ UNCHANGED <<logger, doubleOnly>>

MCNext == Double(D!Next) \/ Queue(Next) \/ Tick

\* The threads run; waits end by a notify or, with a timeout, by themselves.
MCSpec ==
    /\ MCInit /\ [][MCNext]_allVars
    /\ WF_allVars(Double(D!LogStep)) /\ WF_allVars(Double(D!Started)) /\ WF_allVars(Double(D!Stopped))
    /\ WF_allVars(Queue(LogStep)) /\ WF_allVars(Queue(Started)) /\ WF_allVars(Queue(Stopped))
    /\ WF_allVars(Queue(PutStop))
    /\ \A p \in Producers : WF_allVars(Queue(PutLine(p)))

-----------------------------------------------------------------------------
\* The lines in the files, and the lines on their way there: sequences of lines in the
\* order in which they are or will be written.
Written == [i \in DOMAIN output.files |-> output.files[i].lines]
OnTheWay ==
    IF logger = "double"
      THEN SubSeq(buffersToWrite, next, Len(buffersToWrite)) \o Append(buffers, currentBuffer)
      ELSE <<<<msg>>, queue>>
Stores == Written \o OnTheWay

Holds(ss, n) == \E i \in DOMAIN ss : \E k \in DOMAIN ss[i] : ss[i][k] = n

\* Apart from Drop's message and stop()'s, both 0, the lines are in order and none is
\* there twice.
Ascending(ss) ==
    \A i, j \in DOMAIN ss : \A k \in DOMAIN ss[i], l \in DOMAIN ss[j] :
        (i < j \/ (i = j /\ k < l)) /\ ss[i][k] # 0 /\ ss[j][l] # 0 => ss[i][k] < ss[j][l]

\* AsyncLoggingDoubleBuffering.h and AsyncLoggingQueue.h: the lines in the files and on
\* their way there are in the order of the appends.  As long as no write failed and no
\* buffer was dropped they are all there, so that swapping the buffers under the mutex
\* and rolling the file lose none, and where buffers are dropped the newest line is not
\* among them.  The message that ends the logging thread with a queue is that of stop(),
\* and a thread that has ended left nothing unflushed.
InOrder ==
    /\ Ascending(Stores)
    /\ \A n \in 1 .. lines : n = lines \/ ~dropped => Holds(Stores, n) \/ output.failed
    /\ \A i \in DOMAIN Stores : \A k \in DOMAIN Stores[i] : Stores[i][k] \in 0 .. lines
    /\ pc = "taken" /\ msg = Empty => ~running
    /\ pc = "end" => ~output.unflushed

\* AsyncLoggingDoubleBuffering.h, the spares: see AsyncLogging.
SparesReady == D!SparesReady

\* LogFile.cc, append_unlocked and rollFile: a file grows beyond the roll size only
\* within the second it was opened in (or with the clock set back), a new day is
\* noticed when the count is due, and no two files get the same name.
RollsOver ==
    [][/\ output'.writtenBytes > output.writtenBytes =>
             /\ output'.writtenBytes > rollSize => now <= output'.lastRoll
             /\ output'.count = 0 /\ output.count > kCheckTimeRoll =>
                   output'.startOfPeriod = Period(now) \/ now <= output'.lastRoll
       /\ \A i, j \in DOMAIN output'.files : i < j => output'.files[i].name # output'.files[j].name
      ]_output

\* threadFunc of both: while the logger runs a line is written, unless buffers were
\* dropped or the disk failed.
LinesWritten ==
    \A n \in 1 .. MaxLines :
        lines >= n /\ user = "started"
            ~> Holds(Written, n) \/ dropped \/ output.failed \/ user # "started"

\* stop() of both returns, also when the queue is full.
StopReturns == user = "stopping" ~> user = "stopped"

=============================================================================
