--------------------------- MODULE TcpConnection ----------------------------
(***************************************************************************)
(* muduo/TcpConnection.{h,cpp} with the parts of TcpServer, Acceptor,      *)
(* Channel, Poller and EventLoop its life depends on: one connection, from *)
(* accept to its destruction.                                              *)
(*                                                                         *)
(* TcpServer never starts its EventLoopThreadPool, so that getNextLoop     *)
(* returns the base loop and everything runs in one loop thread, in which  *)
(* the application's callbacks also call send() and shutdown().  Another   *)
(* thread may do so too, holding a TcpConnectionPtr.  The object lives as  *)
(* long as the connection map, the application or a functor refers to it;  *)
(* the functors of send() and shutdown() hold the bare address.            *)
(***************************************************************************)
EXTENDS Naturals, Sequences, Functions

CONSTANT MaxSends  \* bound: the number of messages sent
ASSUME BoundAssumption == MaxSends \in Nat

VARIABLES
    pc,            \* the loop thread: "poll", "handle" or "batch"
    cbs,           \* the callbacks handleEvent has still to call
    functors,      \* EventLoop::pendingFunctors, those of this connection
    batch,         \* doPendingFunctors: the functors still to run
    held,          \* the batch's functors that hold a TcpConnectionPtr
    state,         \* TcpConnection::state, "none" before the accept
    events,        \* Channel::events
    registered,    \* the channel is in Poller::channelMap
    watched,       \* its entry has not been negated
    inMap,         \* the connection is in TcpServer::connectionMap
    elsewhere,     \* another thread uses the connection, too
    userRef,       \* the application holds a TcpConnectionPtr
    caller,        \* the other thread's call, past its test of state
    outputBuffer,
    wire,          \* the bytes handed to the kernel
    submitted,     \* history: the bytes passed to sendInLoop
    fin,           \* shutdownWrite was called
    peerClosed,    \* the peer has closed its side
    failed         \* the assertions that have failed

loopVars == <<pc, cbs, functors, batch, held>>
connVars == <<state, events, registered, watched, inMap>>
dataVars == <<outputBuffer, wire, submitted, fin>>
userVars == <<elsewhere, userRef, caller, peerClosed>>
vars == <<loopVars, connVars, dataVars, userVars, failed>>

Shared == {"connectDestroyed", "writeComplete"}
Bare == {"sendInLoop", "shutdownInLoop"}

\* Some TcpConnectionPtr refers to the connection.
Alive ==
    inMap \/ userRef \/ held # {} \/ (Range(functors) \cup Range(batch)) \cap Shared # {}

\* Every message has two bytes, no two of them the same.
Message == <<Len(submitted) + 1, Len(submitted) + 2>>
Queued == SelectSeq(functors \o batch \o <<caller>>, LAMBDA f : f = "sendInLoop")
MaySend == Len(submitted) + 2 * Len(Queued) < 2 * MaxSends

-----------------------------------------------------------------------------
Init ==
    /\ pc = "poll" /\ cbs = <<>> /\ functors = <<>> /\ batch = <<>> /\ held = {}
    /\ state = "none" /\ events = {} /\ registered = FALSE /\ watched = FALSE /\ inMap = FALSE
    /\ elsewhere \in BOOLEAN /\ userRef = FALSE /\ caller = "none" /\ peerClosed = FALSE
    /\ outputBuffer = <<>> /\ wire = <<>> /\ submitted = <<>> /\ fin = FALSE
    /\ failed = {}

\* Acceptor::handleRead, TcpServer::newConnection and connectEstablished, whose
\* callback may keep the pointer.
Accept ==
    /\ pc = "poll"
    /\ state = "none"
    /\ state' = "kConnected"
    /\ events' = {"in"}
    /\ registered' = TRUE /\ watched' = TRUE /\ inMap' = TRUE
    /\ userRef' \in BOOLEAN
    /\ UNCHANGED <<loopVars, dataVars, elsewhere, caller, peerClosed, failed>>

\* Mutant: a hang-up closes also when data can be read.
CallbacksHupAlways(r) ==
    (IF "hup" \in r THEN <<"close">> ELSE <<>>) \o (IF "in" \in r THEN <<"read">> ELSE <<>>)

\* Channel::handleEvent: the callbacks it calls for the events r.
Callbacks(r) ==
    (IF "hup" \in r /\ "in" \notin r THEN <<"close">> ELSE <<>>)
    \o (IF "err" \in r THEN <<"error">> ELSE <<>>)
    \o (IF "in" \in r THEN <<"read">> ELSE <<>>)
    \o (IF "out" \in r THEN <<"write">> ELSE <<>>)

\* Poller::poll.  Poll is level-triggered: the end of the peer's data stays
\* readable.  The kernel reports a hang-up of a TCP socket with POLLIN.
Poll(r) ==
    /\ pc = "poll"
    /\ r # {} => registered /\ watched
    /\ r \subseteq events \cup {"err", "hup"}
    /\ registered /\ watched /\ peerClosed => "in" \in r \/ "in" \notin events
    /\ "hup" \in r => peerClosed
    /\ cbs' = Callbacks(r)
    /\ pc' = "handle"
    /\ UNCHANGED <<functors, batch, held, connVars, dataVars, userVars, failed>>

NextCallback(which) ==
    /\ pc = "handle"
    /\ cbs # <<>>
    /\ Head(cbs) \in which
    /\ cbs' = Tail(cbs)
    /\ UNCHANGED <<pc, batch, held>>

\* handleError, and handleRead with a message or an error: the message
\* callback's calls are actions of their own.
HandleReadOrError ==
    /\ NextCallback({"read", "error"})
    /\ UNCHANGED <<functors, connVars, dataVars, userVars, failed>>

\* Mutant: connectDestroyed is run at once.
RemoveConnectionAtOnce ==
    /\ state' = "kDisconnected" /\ registered' = FALSE
    /\ UNCHANGED functors

\* Mutant: the connection is removed from the map and forgotten.
RemoveConnectionForgets == UNCHANGED <<functors, state, registered>>

\* TcpServer::removeConnection: connectDestroyed is queued.
RemoveConnection ==
    /\ functors' = Append(functors, "connectDestroyed")
    /\ UNCHANGED <<state, registered>>

\* channel->disableAll(): no event is wanted and poll(2) skips the entry.
DisableAll == events' = {} /\ watched' = FALSE

\* handleClose, called for a hang-up or by handleRead at the end of the data.
HandleClose ==
    /\ NextCallback({"read", "close"})
    /\ Head(cbs) = "read" => peerClosed
    /\ failed' = failed \cup
          (IF state \in {"kConnected", "kDisconnecting"} THEN {} ELSE {"handleClose"})
          \cup (IF inMap THEN {} ELSE {"removeConnectionInLoop"})
    /\ DisableAll
    /\ inMap' = FALSE
    /\ RemoveConnection
    /\ UNCHANGED <<dataVars, userVars>>

\* handleWrite: the last byte is written and a shutdown() waits for that.
ShutsDown(left) == left = <<>> /\ state = "kDisconnecting"

\* The bytes of data left after n were written.
Unwritten(data, n) == SubSeq(data, n + 1, Len(data))

\* handleWrite; n bytes are written, 0 when write(2) fails.
HandleWrite(n) ==
    LET left == Unwritten(outputBuffer, n)
    IN  /\ NextCallback({"write"})
        /\ "out" \notin events => n = 0
        /\ n <= Len(outputBuffer)
        /\ fin => n = 0
        /\ wire' = wire \o SubSeq(outputBuffer, 1, n)
        /\ outputBuffer' = IF n > 0 THEN left ELSE outputBuffer
        /\ IF n > 0 /\ left = <<>>
             THEN /\ events' = events \ {"out"}
                  /\ functors' = Append(functors, "writeComplete")
             ELSE UNCHANGED <<events, functors>>
        /\ fin' = (fin \/ (n > 0 /\ ShutsDown(left)))
        /\ UNCHANGED <<submitted, state, registered, watched, inMap, userVars, failed>>

-----------------------------------------------------------------------------
\* Mutant: new data is written past what is still in the buffer.
WritesDirectlyAlways == TRUE

\* sendInLoop: nothing is waiting, so that write(2) is tried at once.
WritesDirectly == "out" \notin events /\ outputBuffer = <<>>

\* Mutant: the channel is not enabled when a direct write was short.
EnablesWritingLate(n) == n = 0 /\ "out" \notin events

\* sendInLoop: bytes are left and handleWrite has to write them.
EnablesWriting(n) == n < Len(Message) /\ "out" \notin events

\* sendInLoop; n bytes are written at once, the others kept, and the channel
\* enabled for writing.  queue is the functors before.  A channel that was
\* removed fails the assertion of Poller::updateChannel.
SendInLoop(n, queue) ==
    LET rest == Unwritten(Message, n)
    IN  /\ n <= Len(Message)
        /\ ~WritesDirectly \/ fin => n = 0
        /\ wire' = wire \o SubSeq(Message, 1, n)
        /\ outputBuffer' = outputBuffer \o rest
        /\ submitted' = submitted \o Message
        /\ events' = IF EnablesWriting(n) THEN events \cup {"out"} ELSE events
        /\ functors' = IF n = Len(Message) THEN Append(queue, "writeComplete") ELSE queue
        /\ failed' = failed \cup (IF EnablesWriting(n) /\ ~registered THEN {"updateChannel"} ELSE {})
        /\ UNCHANGED <<registered, watched, inMap, fin>>

\* shutdownInLoop: while the channel is writing handleWrite will do it.
ShutdownInLoop == fin' = (fin \/ "out" \notin events)

\* send() and shutdown() in the loop thread, between any two handlers.
Send(n) ==
    /\ Alive
    /\ state = "kConnected"
    /\ MaySend
    /\ SendInLoop(n, functors)
    /\ UNCHANGED <<pc, cbs, batch, held, state, userVars>>
Shutdown ==
    /\ Alive
    /\ state = "kConnected"
    /\ state' = "kDisconnecting"
    /\ ShutdownInLoop
    /\ UNCHANGED <<loopVars, events, registered, watched, inMap, outputBuffer, wire, submitted,
                   userVars, failed>>

\* send() and shutdown() in another thread: the test of state...
StartCall(call) ==
    /\ elsewhere
    /\ userRef
    /\ caller = "none"
    /\ state = "kConnected"
    /\ call = "sendInLoop" => MaySend
    /\ caller' = call
    /\ UNCHANGED <<loopVars, connVars, dataVars, elsewhere, userRef, peerClosed, failed>>

\* shutdown() sets the state before it queues shutdownInLoop; send() leaves it alone.
StateAfter(call) == IF call = "shutdownInLoop" THEN "kDisconnecting" ELSE state

\* ... and what follows it: runInLoop queues the bare address.
FinishCall ==
    /\ caller \in Bare
    /\ caller' = "none"
    /\ functors' = Append(functors, caller)
    /\ state' = StateAfter(caller)
    /\ UNCHANGED <<pc, cbs, batch, held, events, registered, watched, inMap, dataVars,
                   elsewhere, userRef, peerClosed, failed>>

\* The application drops its TcpConnectionPtr.
DropRef ==
    /\ userRef
    /\ caller = "none"
    /\ userRef' = FALSE
    /\ UNCHANGED <<loopVars, connVars, dataVars, elsewhere, caller, peerClosed, failed>>

\* External: the peer closes the connection.
PeerCloses ==
    /\ state # "none"
    /\ ~peerClosed
    /\ peerClosed' = TRUE
    /\ UNCHANGED <<loopVars, connVars, dataVars, elsewhere, userRef, caller, failed>>

-----------------------------------------------------------------------------
\* doPendingFunctors: the swap.
SwapFunctors ==
    /\ pc = "handle"
    /\ cbs = <<>>
    /\ pc' = "batch"
    /\ batch' = functors
    /\ functors' = <<>>
    /\ held' = Range(functors) \cap Shared
    /\ UNCHANGED <<cbs, connVars, dataVars, userVars, failed>>

NextFunctor(which) ==
    /\ pc = "batch"
    /\ batch # <<>>
    /\ Head(batch) = which
    /\ batch' = Tail(batch)
    /\ UNCHANGED <<pc, cbs, held>>

\* connectDestroyed
ConnectDestroyed ==
    /\ NextFunctor("connectDestroyed")
    /\ failed' = failed \cup
          (IF state \in {"kConnected", "kDisconnecting"} THEN {} ELSE {"connectDestroyed"})
          \cup (IF registered THEN {} ELSE {"removeChannel"})
    /\ state' = "kDisconnected"
    /\ DisableAll
    /\ registered' = FALSE
    /\ UNCHANGED <<functors, inMap, dataVars, userVars>>

RunWriteComplete ==
    /\ NextFunctor("writeComplete")
    /\ UNCHANGED <<functors, connVars, dataVars, userVars, failed>>

\* A functor with the bare address; what it does to a dead object is not said.
RunSendInLoop(n) ==
    /\ NextFunctor("sendInLoop")
    /\ Alive
    /\ SendInLoop(n, functors)
    /\ UNCHANGED <<state, userVars>>
RunShutdownInLoop ==
    /\ NextFunctor("shutdownInLoop")
    /\ Alive
    /\ ShutdownInLoop
    /\ UNCHANGED <<functors, connVars, outputBuffer, wire, submitted, userVars, failed>>

\* The functors of the batch are destroyed.
EndBatch ==
    /\ pc = "batch"
    /\ batch = <<>>
    /\ held' = {}
    /\ pc' = "poll"
    /\ UNCHANGED <<cbs, functors, batch, connVars, dataVars, userVars, failed>>

LoopStep ==
    \/ \E r \in SUBSET {"in", "out", "err", "hup"} : Poll(r)
    \/ HandleReadOrError \/ HandleClose \/ SwapFunctors \/ ConnectDestroyed
    \/ RunWriteComplete \/ RunShutdownInLoop \/ EndBatch
    \/ \E n \in 0 .. 2 * MaxSends : HandleWrite(n)
    \/ \E n \in 0 .. 2 : RunSendInLoop(n)

Next ==
    \/ LoopStep
    \/ Accept \/ Shutdown \/ FinishCall \/ DropRef \/ PeerCloses
    \/ \E n \in 0 .. 2 : Send(n)
    \/ \E call \in Bare : StartCall(call)

Spec == Init /\ [][Next]_vars

\* The loop runs on.  A peer that has not closed reads, so that again and again
\* the socket is writable and takes bytes; a read at the end of the data
\* fails at most for a while.
FairSpec ==
    /\ Spec
    /\ WF_vars(LoopStep)
    /\ SF_vars(HandleClose)
    /\ SF_vars(\E r \in SUBSET {"in", "out", "err", "hup"} : "out" \in r /\ Poll(r))
    /\ SF_vars(\E n \in 1 .. 2 * MaxSends : HandleWrite(n))

-----------------------------------------------------------------------------
\* handleClose and connectDestroyed run once each, in the states they assert,
\* and each finds the connection in the map and the channel in the poller:
\* also when one handleEvent reports a hang-up, data and writability at once,
\* and when shutdown() of another thread overwrites the state.  Used in the
\* loop thread only, it never enables a channel the poller has lost.
AssertionsHold ==
    /\ failed \subseteq {"updateChannel"}
    /\ ~elsewhere => failed = {}

\* The connection outlives its registration in the poller and every
\* handleEvent of its channel: a channel is never destroyed while it handles
\* an event, nor found dead by the next poll().
NoDanglingChannel == registered \/ cbs # <<>> => Alive

\* Every byte passed to sendInLoop is on the wire or in the output buffer, in
\* order, through direct writes, short writes, failed writes and handleWrite.
\* Used in the loop thread, and as long as it is not being closed, the
\* connection ends the stream when all of them have been written: shutdown()
\* waits for the output buffer.
InOrder ==
    /\ wire \o outputBuffer = submitted
    /\ fin /\ inMap /\ ~elsewhere => wire = submitted

\* Used in the loop thread, what send() has left in the output buffer is written,
\* and shutdown() sends the end of the stream, unless the connection ends first.
OutputDrains ==
    /\ outputBuffer # <<>> /\ ~elsewhere ~> outputBuffer = <<>> \/ state = "kDisconnected"
    /\ state = "kDisconnecting" /\ ~elsewhere ~> fin \/ state = "kDisconnected"

\* A connection whose peer has closed is taken down.
PeerCloseEnds == peerClosed /\ ~elsewhere ~> state = "kDisconnected"

\* send() and shutdown() may be called in any thread that holds the
\* connection: what they queue runs while the connection exists.
NoUseAfterFree == pc = "batch" /\ batch # <<>> => Alive

=============================================================================
