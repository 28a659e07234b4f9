----------------------------- MODULE Connector ------------------------------
(***************************************************************************)
(* muduo/Connector.{h,cpp} and TcpClient.{h,cpp}: a client that connects,  *)
(* retries with a growing delay, hands the socket to a TcpConnection and   *)
(* may connect again when that is closed.  The connection itself is in     *)
(* module TcpConnection; here it is up or not.                             *)
(*                                                                         *)
(* Timers fire in any order: an attempt, a retry and the second that       *)
(* ~TcpClient grants the connector may each take longer than the others.   *)
(* cancel() is left out since it does nothing (module TimerQueue).         *)
(***************************************************************************)
EXTENDS Integers, Sequences, FiniteSets, Functions

CONSTANTS
    kInitRetryDelayMs, kMaxRetryDelayMs,
    MaxStarts,   \* bound: how often connect() is called
    Destroys     \* whether the TcpClient is destroyed
ASSUME DelayAssumption ==
    kInitRetryDelayMs \in Nat /\ kMaxRetryDelayMs \in Nat /\ kInitRetryDelayMs <= kMaxRetryDelayMs

VARIABLES
    pc,             \* the loop thread: "poll", "handle" or "batch"
    cbs,            \* the callbacks handleEvent has still to call
    functors,       \* EventLoop::pendingFunctors, those of the connector
    batch,          \* doPendingFunctors: the functors still to run
    timers,         \* the number of timers that will call startInLoop
    state,          \* Connector::state_
    connect,        \* Connector::connect_
    clientConnect,  \* TcpClient::connect_
    retry,          \* TcpClient::retry_, set by enableRetry() before connect()
    retryDelayMs,
    channel,        \* channel_: "none", "on", or "off" until resetChannel
    sockets,        \* the open sockets no TcpConnection owns
    connection,     \* TcpClient::connection_ is set
    starts,         \* how often connect() was called
    gaveUp,         \* history: an attempt failed in a way that is not retried
    client,         \* the TcpClient: "alive", "dying" or "dead" with its connector
    failed          \* the assertions that have failed

loopVars == <<pc, cbs, functors, batch>>
connVars == <<state, retryDelayMs, channel, sockets, timers, gaveUp>>
userVars == <<clientConnect, retry, starts, client>>
vars == <<loopVars, connVars, connect, connection, userVars, failed>>

Check(what, ok) == failed' = failed \cup IF ok THEN {} ELSE {what}

-----------------------------------------------------------------------------
Init ==
    /\ pc = "poll" /\ cbs = <<>> /\ functors = <<>> /\ batch = <<>> /\ timers = 0
    /\ state = "kDisconnected" /\ connect = FALSE /\ clientConnect = TRUE
    /\ retry \in BOOLEAN
    /\ retryDelayMs = kInitRetryDelayMs
    /\ channel = "none" /\ sockets = 0 /\ connection = FALSE
    /\ starts = 0 /\ gaveUp = FALSE /\ client = "alive"
    /\ failed = {}

\* retry: the delay after the next failure.
NextDelay(ms) == IF 2 * ms < kMaxRetryDelayMs THEN 2 * ms ELSE kMaxRetryDelayMs

\* Mutant: the timer is forgotten.
RetryTimersForgotten(t) == t

\* Mutant: two timers.
RetryTimersTwice(t) == t + 2

\* retry: the timers after it has added one.
RetryTimers(t) == t + 1

\* retry, with t timers and the delay ms; the caller accounts for the socket.
Retry(wanted, t, ms) ==
    /\ state' = "kDisconnected"
    /\ timers' = IF wanted THEN RetryTimers(t) ELSE t
    /\ retryDelayMs' = IF wanted THEN NextDelay(ms) ELSE ms

\* connect(): connect(2) is in progress, is retried, or has failed for good.
Connect(t, ms) ==
    \/ /\ state' = "kConnecting"
       /\ channel' = "on"
       /\ sockets' = sockets + 1
       /\ timers' = t /\ retryDelayMs' = ms
       /\ UNCHANGED gaveUp
    \/ Retry(TRUE, t, ms) /\ UNCHANGED <<channel, sockets, gaveUp>>
    \/ /\ gaveUp' = TRUE
       /\ state' = "kDisconnected"
       /\ timers' = t /\ retryDelayMs' = ms
       /\ UNCHANGED <<channel, sockets>>

\* startInLoop, with its assertion and the one in connecting(); t timers are
\* left.
StartInLoop(t) ==
    /\ Check("startInLoop", state = "kDisconnected" /\ (connect => channel = "none"))
    /\ IF connect THEN Connect(t, retryDelayMs)
       ELSE timers' = t /\ UNCHANGED <<state, retryDelayMs, channel, sockets, gaveUp>>

\* TcpClient::connect in another thread: start() queues startInLoop.
StartElsewhere ==
    /\ client = "alive"
    /\ starts < MaxStarts
    /\ starts' = starts + 1
    /\ clientConnect' = TRUE
    /\ connect' = TRUE
    /\ functors' = Append(functors, "startInLoop")
    /\ UNCHANGED <<pc, cbs, batch, connVars, connection, retry, client, failed>>

\* TcpClient::connect in the loop thread: start() runs startInLoop.
Start ==
    /\ client = "alive"
    /\ starts < MaxStarts
    /\ starts' = starts + 1
    /\ clientConnect' = TRUE
    /\ connect' = TRUE
    /\ Check("startInLoop", state = "kDisconnected" /\ channel = "none")
    /\ Connect(timers, retryDelayMs)
    /\ UNCHANGED <<loopVars, connection, retry, client>>

\* TcpClient::stop, in any thread.
Stop ==
    /\ client = "alive"
    /\ clientConnect' = FALSE
    /\ connect' = FALSE
    /\ UNCHANGED <<loopVars, connVars, connection, retry, starts, client, failed>>

\* TcpClient::disconnect; the shutdown of the connection is in TcpConnection.
Disconnect ==
    /\ client = "alive"
    /\ clientConnect' = FALSE
    /\ UNCHANGED <<loopVars, connVars, connect, connection, retry, starts, client, failed>>

-----------------------------------------------------------------------------
\* poll() reports the connecting socket writable, with an error or without.
Poll(r) ==
    /\ pc = "poll"
    /\ r # <<>> => channel = "on"
    /\ cbs' = r
    /\ pc' = "handle"
    /\ UNCHANGED <<functors, batch, connVars, connect, connection, userVars, failed>>

NextCallback(which) ==
    /\ pc = "handle"
    /\ cbs # <<>>
    /\ Head(cbs) = which
    /\ client # "dead"
    /\ cbs' = Tail(cbs)
    /\ UNCHANGED <<pc, batch>>

\* Mutant: the channel is destroyed at once, inside its own handleEvent.
RemoveAndResetChannelAtOnce == channel' = "none" /\ UNCHANGED functors

\* removeAndResetChannel
RemoveAndResetChannel ==
    /\ channel' = "off"
    /\ functors' = Append(functors, "resetChannel")

\* handleError: retry closes the socket.
HandleError ==
    /\ NextCallback("error")
    /\ Check("handleError", state = "kConnecting")
    /\ RemoveAndResetChannel
    /\ Retry(connect, timers, retryDelayMs)
    /\ sockets' = sockets - 1
    /\ UNCHANGED <<connect, connection, gaveUp, userVars>>

\* handleWrite behind handleError in the same handleEvent.
HandleWriteIgnored ==
    /\ NextCallback("write")
    /\ state # "kConnecting"
    /\ Check("handleWrite", state = "kDisconnected")
    /\ UNCHANGED <<functors, connVars, connect, connection, userVars>>

\* handleWrite when the attempt has failed, or connected the socket to itself.
HandleWriteFails ==
    /\ NextCallback("write")
    /\ state = "kConnecting"
    /\ RemoveAndResetChannel
    /\ Retry(connect, timers, retryDelayMs)
    /\ sockets' = sockets - 1
    /\ UNCHANGED <<connect, connection, gaveUp, userVars, failed>>

\* Mutant: nobody takes or closes the socket of an attempt that was stopped.
SocketsAfterConnectLeaked == IF connect THEN sockets - 1 ELSE sockets

\* handleWrite: the TcpConnection takes the socket, or it is closed.
SocketsAfterConnect == sockets - 1

\* TcpClient::newConnection
NewConnection == connection' = TRUE

\* handleWrite when connected: newConnection, or the socket is closed.
HandleWriteConnected ==
    /\ NextCallback("write")
    /\ state = "kConnecting"
    /\ RemoveAndResetChannel
    /\ state' = "kConnected"
    /\ IF connect THEN NewConnection ELSE UNCHANGED connection
    /\ sockets' = SocketsAfterConnect
    /\ UNCHANGED <<connect, retryDelayMs, timers, gaveUp, userVars, failed>>

\* TcpClient::removeConnection when the connection closes...
RemoveConnection ==
    /\ pc = "poll"
    /\ connection
    /\ connection' = FALSE
    /\ cbs' = IF client = "alive" /\ retry /\ clientConnect THEN <<"restart">> ELSE <<>>
    /\ pc' = "handle"
    /\ UNCHANGED <<functors, batch, connVars, connect, userVars, failed>>

\* ... and restart(), if the client wanted to reconnect when that was tested.
Restart ==
    /\ NextCallback("restart")
    /\ connect' = TRUE
    /\ Check("startInLoop", channel = "none")
    /\ Connect(timers, kInitRetryDelayMs)
    /\ UNCHANGED <<functors, connection, userVars>>

\* A retry timer calls startInLoop.
TimerFires ==
    /\ pc = "poll"
    /\ timers > 0
    /\ client # "dead"
    /\ pc' = "handle"
    /\ StartInLoop(timers - 1)
    /\ UNCHANGED <<cbs, functors, batch, connect, connection, userVars>>

\* doPendingFunctors
SwapFunctors ==
    /\ pc = "handle"
    /\ cbs = <<>>
    /\ pc' = "batch"
    /\ batch' = functors
    /\ functors' = <<>>
    /\ UNCHANGED <<cbs, connVars, connect, connection, userVars, failed>>

NextFunctor(which) ==
    /\ pc = "batch"
    /\ batch # <<>>
    /\ Head(batch) = which
    /\ client # "dead"
    /\ batch' = Tail(batch)
    /\ UNCHANGED <<pc, cbs, functors, connect, connection, userVars>>

RunStartInLoop == NextFunctor("startInLoop") /\ StartInLoop(timers)

\* resetChannel
ResetChannel ==
    /\ NextFunctor("resetChannel")
    /\ channel' = "none"
    /\ UNCHANGED <<state, retryDelayMs, sockets, timers, gaveUp, failed>>

EndBatch ==
    /\ pc = "batch"
    /\ batch = <<>>
    /\ pc' = "poll"
    /\ UNCHANGED <<cbs, functors, batch, connVars, connect, connection, userVars, failed>>

\* ~Connector: channel_ must be gone.  One that is not goes with it, still registered,
\* and its socket stays open.
DestroyConnector ==
    /\ Check("~Connector", channel = "none")
    /\ channel' = "none"
    /\ UNCHANGED <<state, retryDelayMs, sockets, timers, gaveUp>>

\* ~TcpClient, in any callback, functor or thread, but not while removeConnection uses
\* the client.  With a connection the connector goes with it; otherwise it is stopped
\* and kept for a second.  The connection's new close callback is set at once, as in
\* the loop thread.
DestroyClient ==
    /\ Destroys
    /\ client = "alive"
    /\ "restart" \notin Range(cbs)
    /\ \/ connection /\ client' = "dead" /\ DestroyConnector /\ UNCHANGED connect
       \/ ~connection /\ client' = "dying" /\ connect' = FALSE /\ UNCHANGED <<connVars, failed>>
    /\ UNCHANGED <<loopVars, connection, clientConnect, retry, starts>>

\* The second is over: the timer's functor has the last pointer to the connector.  The
\* poll that reports the timer may have reported the channel before it.
ReleaseConnector ==
    /\ pc \in {"poll", "handle"}
    /\ cbs = <<>>
    /\ client = "dying"
    /\ client' = "dead"
    /\ pc' = "handle"
    /\ DestroyConnector
    /\ UNCHANGED <<cbs, functors, batch, connect, connection, clientConnect, retry, starts>>

LoopStep ==
    \/ \E r \in {<<>>, <<"write">>, <<"error">>, <<"error", "write">>} : Poll(r)
    \/ HandleError \/ HandleWriteIgnored \/ HandleWriteFails \/ HandleWriteConnected
    \/ Restart \/ TimerFires \/ SwapFunctors \/ RunStartInLoop \/ ResetChannel \/ EndBatch

Next ==
    \/ LoopStep \/ RemoveConnection
    \/ Start \/ StartElsewhere \/ Stop \/ Disconnect
    \/ DestroyClient \/ ReleaseConnector

Spec == Init /\ [][Next]_vars

\* The loop runs, attempts end and timers fire; of infinitely many attempts
\* one succeeds.
FairSpec ==
    /\ Spec
    /\ WF_vars(LoopStep)
    /\ SF_vars(Poll(<<"write">>)) /\ SF_vars(HandleWriteConnected)
    /\ SF_vars(TimerFires /\ state' = "kConnecting")

-----------------------------------------------------------------------------
StartsQueued ==
    LET queued == functors \o batch IN Cardinality({i \in DOMAIN queued : queued[i] = "startInLoop"})
One(b) == IF b THEN 1 ELSE 0
Attempts ==
    StartsQueued + timers + One(state = "kConnecting") + One(connection)
        + One("restart" \in Range(cbs))

\* A client that calls connect() once, and stop() and disconnect() whenever it likes,
\* fails no assertion of the connector: the old channel is gone when an attempt starts,
\* and no attempt starts during another.  Nor is a channel destroyed before handleEvent
\* has called its callbacks, as ~Channel asserts.  Only the client's own destruction can
\* fail one, that of ~Connector, and does so exactly when the connector goes during an
\* attempt or before its resetChannel: an attempt outlasts the second of ~TcpClient or ends
\* with it, or ~TcpClient runs in the iteration of the loop that has connected.
AssertionsHold ==
    /\ failed \subseteq {"~Connector"}
    /\ "~Connector" \in failed
         <=> /\ client = "dead"
             /\ state = "kConnecting" \/ "resetChannel" \in Range(functors) \cup Range(batch)
    /\ Range(cbs) \cap {"error", "write"} # {} => channel # "none"

\* There is at most one attempt or connection, queued, waiting for its timer,
\* connecting, connected or about to reconnect; and there is one as long as the
\* client wants it and to be reconnected, unless connect(2) failed for good:
\* neither a failure nor a close leaves the client waiting for ever.  The delay
\* of a retry stays within its limits.
OneAttempt ==
    /\ Attempts <= 1
    /\ retry /\ connect /\ clientConnect /\ ~gaveUp /\ client = "alive" => Attempts >= 1
    /\ retryDelayMs \in kInitRetryDelayMs .. kMaxRetryDelayMs

\* A socket is open only while the connector's channel watches it: whichever way an
\* attempt ends, it is closed once or handed over.  Only that of an attempt still in
\* progress at ~Connector stays open without a channel.
NoSocketLeak == sockets = One(channel = "on" \/ (client = "dead" /\ state = "kConnecting"))

\* A client with retry that keeps wanting a connection gets one.
Connects ==
    retry /\ connect /\ clientConnect /\ client = "alive"
        ~> connection \/ ~connect \/ ~clientConnect \/ gaveUp \/ client # "alive"

=============================================================================
