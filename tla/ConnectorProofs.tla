-------------------------- MODULE ConnectorProofs ---------------------------
(***************************************************************************)
(* Connector for any delays, whether its TcpClient is destroyed or not: a  *)
(* client that calls connect() once.                                       *)
(***************************************************************************)
EXTENDS Connector, SequenceTheorems, FiniteSetTheorems, TLAPS

\* At most one functor of the connector is ever queued.
Queue == {<<>>, <<"startInLoop">>, <<"resetChannel">>}
Events == {<<>>, <<"write">>, <<"error">>, <<"error", "write">>}

TypeOK ==
    /\ pc \in {"poll", "handle", "batch"}
    /\ cbs \in Events \cup {<<"restart">>}
    /\ functors \in Queue /\ batch \in Queue
    /\ timers \in {0, 1}
    /\ state \in {"kDisconnected", "kConnecting", "kConnected"}
    /\ connect \in BOOLEAN /\ clientConnect \in BOOLEAN /\ retry \in BOOLEAN
    /\ retryDelayMs \in kInitRetryDelayMs .. kMaxRetryDelayMs
    /\ channel \in {"none", "on", "off"}
    /\ connection \in BOOLEAN /\ gaveUp \in BOOLEAN
    /\ starts \in {0, 1}
    /\ client \in {"alive", "dying", "dead"}

Queued(f) == functors = <<f>> \/ batch = <<f>>
Reconnecting == cbs = <<"restart">>

\* What the attempt waits for excludes the rest: a queued startInLoop all of it, a timer
\* a connection and an attempt in progress; and before the first start nothing waits.
Phases ==
    /\ starts = 0 => /\ functors = <<>> /\ batch = <<>> /\ cbs = <<>> /\ timers = 0
                     /\ state = "kDisconnected" /\ channel = "none" /\ ~connection /\ ~connect
    /\ Queued("startInLoop") => /\ cbs = <<>> /\ timers = 0 /\ state = "kDisconnected"
                                /\ channel = "none" /\ ~connection
    /\ timers = 1 => state = "kDisconnected"
    /\ connection => state = "kConnected"
    /\ Reconnecting => state = "kConnected" /\ channel = "none" /\ ~connection

\* The channel is watched during an attempt.  After it, resetChannel is queued by a
\* callback and has run before the loop polls again.  The channel goes with the
\* connector, which is not in a callback then.
Channel ==
    /\ channel = "on" <=> state = "kConnecting" /\ client # "dead"
    /\ channel = "off" <=> Queued("resetChannel") /\ client # "dead"
    /\ state = "kConnecting" => ~Queued("resetChannel")
    /\ functors = <<>> \/ batch = <<>>
    /\ functors = <<"resetChannel">> => pc = "handle"
    /\ batch # <<>> => pc = "batch"
    /\ cbs # <<>> => pc = "handle" /\ client # "dead"
    /\ cbs \in {<<"error">>, <<"error", "write">>} => state = "kConnecting"
    /\ cbs = <<"write">> => \/ state = "kConnecting"
                            \/ state = "kDisconnected" /\ channel = "off"
    /\ sockets = One(state = "kConnecting")

\* The one assertion that fails: ~Connector with a channel.
Failures ==
    failed = IF client = "dead" /\ (state = "kConnecting" \/ Queued("resetChannel"))
             THEN {"~Connector"} ELSE {}

\* A client that wants to be connected is, or something on the way to that waits.
Wanted ==
    retry /\ connect /\ clientConnect /\ ~gaveUp /\ client = "alive"
        => \/ Queued("startInLoop") \/ timers = 1 \/ state = "kConnecting"
           \/ connection \/ Reconnecting

IInv == TypeOK /\ Phases /\ Channel /\ Wanted /\ Failures

-----------------------------------------------------------------------------
(* Queues and callbacks, written out.                                      *)

LEMMA Single ==
    ASSUME NEW x
    PROVE  /\ <<x>> # <<>> /\ Head(<<x>>) = x /\ Tail(<<x>>) = <<>>
           /\ Append(<<>>, x) = <<x>> /\ Range(<<x>>) = {x}
BY DEF Range

LEMMA Double ==
    ASSUME NEW x, NEW y
    PROVE  /\ <<x, y>> # <<>> /\ Head(<<x, y>>) = x /\ Tail(<<x, y>>) = <<y>>
           /\ Range(<<x, y>>) = {x, y}
BY DEF Range

LEMMA Distinct ==
    /\ \A x, y : <<x>> = <<y>> => x = y
    /\ \A x, y, z : <<x>> # <<y, z>>
<1>1. \A x, y : <<x>> = <<y>> => x = y
  BY Single, Zenon
<1>2. \A x, y, z : <<x>> # <<y, z>>
  <2> SUFFICES ASSUME NEW x, NEW y, NEW z, <<x>> = <<y, z>> PROVE FALSE
    BY Zenon
  <2>1. <<>> = <<z>>
    BY Single, Double, Zenon
  <2> QED BY <2>1, Single, Zenon
<1> QED BY <1>1, <1>2, Zenon

\* handleEvent calls its next callback.
LEMMA NextCallbackFacts ==
    ASSUME IInv, NEW which, NextCallback(which)
    PROVE  /\ pc = "handle" /\ batch = <<>> /\ starts = 1
           /\ client # "dead" /\ failed = {} /\ UNCHANGED <<pc, batch>>
           /\ which = "error" => cbs' \in {<<>>, <<"write">>} /\ state = "kConnecting"
           /\ which = "write" => cbs' = <<>> /\ cbs = <<"write">>
           /\ which = "restart" => cbs' = <<>> /\ Reconnecting
<1>1. /\ pc = "handle" /\ batch = <<>> /\ UNCHANGED <<pc, batch>>
      /\ cbs # <<>> /\ Head(cbs) = which /\ cbs' = Tail(cbs)
      /\ client # "dead" /\ failed = {}
  BY Zenon DEF NextCallback, IInv, Channel, Failures
<1>2. starts = 1
  BY <1>1, Zenon DEF IInv, Phases, TypeOK
<1>3. CASE cbs = <<"write">>
  BY <1>1, <1>2, <1>3, Single, Zenon
<1>4. CASE cbs = <<"error">>
  BY <1>1, <1>2, <1>4, Single, Zenon DEF IInv, Channel
<1>5. CASE cbs = <<"error", "write">>
  BY <1>1, <1>2, <1>5, Double DEF IInv, Channel
<1>6. CASE cbs = <<"restart">>
  BY <1>1, <1>2, <1>6, Single, Zenon DEF Reconnecting
<1> QED BY <1>1, <1>3, <1>4, <1>5, <1>6, Zenon DEF IInv, TypeOK, Events

\* doPendingFunctors runs its only functor.
LEMMA NextFunctorFacts ==
    ASSUME IInv, NEW which, NextFunctor(which)
    PROVE  /\ pc = "batch" /\ batch = <<which>> /\ batch' = <<>>
           /\ functors = <<>> /\ cbs = <<>> /\ starts = 1 /\ client # "dead" /\ failed = {}
           /\ UNCHANGED <<pc, cbs, functors, connect, connection, userVars>>
<1>1. /\ pc = "batch" /\ batch # <<>> /\ Head(batch) = which /\ batch' = Tail(batch)
      /\ client # "dead" /\ failed = {}
      /\ UNCHANGED <<pc, cbs, functors, connect, connection, userVars>>
  BY Zenon DEF NextFunctor, IInv, Failures
<1>2. functors = <<>> /\ cbs = <<>> /\ starts = 1
  BY <1>1, Zenon DEF IInv, Phases, Channel, TypeOK
<1>3. CASE batch = <<"startInLoop">>
  BY <1>1, <1>2, <1>3, Single, Zenon
<1>4. CASE batch = <<"resetChannel">>
  BY <1>1, <1>2, <1>4, Single, Zenon
<1> QED BY <1>1, <1>3, <1>4, Zenon DEF IInv, TypeOK, Queue

-----------------------------------------------------------------------------
(* The steps.                                                              *)

LEMMA InitIInv == Init => IInv
<1> SUFFICES ASSUME Init PROVE IInv
  BY Zenon
<1>1. TypeOK
  <2>1. retryDelayMs \in kInitRetryDelayMs .. kMaxRetryDelayMs
    BY DelayAssumption DEF Init
  <2> QED BY <2>1, Zenon DEF Init, TypeOK, Queue, Events
<1>2. Phases
  BY Single, Zenon DEF Init, Phases, Queued, Reconnecting
<1>3. Channel
  BY Single, Double, Zenon DEF Init, Channel, Queued, One
<1> QED BY <1>1, <1>2, <1>3, Zenon DEF IInv, Init, Wanted, Failures

\* The delay doubles up to its limit.
LEMMA NextDelayBounded ==
    ASSUME NEW ms \in kInitRetryDelayMs .. kMaxRetryDelayMs
    PROVE  NextDelay(ms) \in kInitRetryDelayMs .. kMaxRetryDelayMs
BY DelayAssumption DEF NextDelay

\* connect() of start(), restart() or startInLoop, when nothing else waits.
LEMMA ConnectStep ==
    ASSUME IInv, NEW t, NEW ms \in kInitRetryDelayMs .. kMaxRetryDelayMs, Connect(t, ms),
           t = 0, channel = "none", ~connection, client # "dead",
           pc' \in {"poll", "handle", "batch"}, cbs' = <<>>, functors' = <<>>, batch' = <<>>,
           connect' \in BOOLEAN, clientConnect' \in BOOLEAN, starts' = 1,
           UNCHANGED <<connection, retry, client>>, failed' = {}
    PROVE  IInv'
<1> USE DEF IInv
<1>0. NextDelay(ms) \in kInitRetryDelayMs .. kMaxRetryDelayMs
  BY NextDelayBounded, Zenon
<1>1. /\ timers' \in {0, 1} /\ retryDelayMs' \in kInitRetryDelayMs .. kMaxRetryDelayMs
      /\ gaveUp' \in BOOLEAN
      /\ \/ state' = "kConnecting" /\ channel' = "on" /\ sockets' = sockets + 1 /\ timers' = 0
         \/ state' = "kDisconnected" /\ channel' = "none" /\ sockets' = sockets /\ timers' = 1
         \/ /\ state' = "kDisconnected" /\ channel' = "none" /\ sockets' = sockets /\ timers' = 0
            /\ gaveUp'
  <2>1. gaveUp \in BOOLEAN
    BY Zenon DEF TypeOK
  <2>2. CASE /\ state' = "kConnecting" /\ channel' = "on" /\ sockets' = sockets + 1
             /\ timers' = t /\ retryDelayMs' = ms /\ UNCHANGED gaveUp
    BY <2>1, <2>2, Zenon
  <2>3. CASE Retry(TRUE, t, ms) /\ UNCHANGED <<channel, sockets, gaveUp>>
    <3>1. state' = "kDisconnected" /\ timers' = 1 /\ retryDelayMs' = NextDelay(ms)
      BY <2>3 DEF Retry, RetryTimers
    <3> QED BY <1>0, <2>1, <2>3, <3>1, Zenon
  <2>4. CASE /\ gaveUp' = TRUE /\ state' = "kDisconnected"
             /\ timers' = t /\ retryDelayMs' = ms /\ UNCHANGED <<channel, sockets>>
    BY <2>4, Zenon
  <2> QED BY <2>2, <2>3, <2>4, Zenon DEF Connect
<1>2. sockets = 0
  BY Zenon DEF Channel, One
<1>3. TypeOK'
  BY <1>1, Zenon DEF TypeOK, Queue, Events
<1>4. Phases'
  BY <1>1, Single DEF Phases, Queued, Reconnecting
<1>5. Channel'
  BY <1>1, <1>2, Single, Double DEF Channel, Queued, One
<1>6. Wanted'
  BY <1>1, Zenon DEF Wanted
<1>7. Failures'
  BY Zenon DEF Failures
<1> QED BY <1>3, <1>4, <1>5, <1>6, <1>7, Zenon

LEMMA StartStep == ASSUME MaxStarts \in 0 .. 1, IInv, Start PROVE IInv'
<1>1. starts = 0
  BY DEF Start, IInv, TypeOK
<1>2. /\ functors = <<>> /\ batch = <<>> /\ cbs = <<>> /\ timers = 0
      /\ state = "kDisconnected" /\ channel = "none" /\ ~connection
  BY <1>1, Zenon DEF IInv, Phases
<1>3. /\ retryDelayMs \in kInitRetryDelayMs .. kMaxRetryDelayMs
      /\ pc \in {"poll", "handle", "batch"} /\ client # "dead" /\ failed = {}
  BY Zenon DEF IInv, TypeOK, Failures, Start
<1>4. /\ Connect(timers, retryDelayMs) /\ failed' = {} /\ starts' = 1 /\ connect' = TRUE
      /\ clientConnect' = TRUE /\ UNCHANGED <<pc, cbs, functors, batch, connection, retry, client>>
  BY <1>1, <1>2, <1>3 DEF Start, Check, loopVars
<1> QED BY <1>2, <1>3, <1>4, ConnectStep, Zenon

LEMMA RestartStep == ASSUME IInv, Restart PROVE IInv'
<1>1. /\ pc = "handle" /\ batch = <<>> /\ starts = 1 /\ cbs' = <<>> /\ Reconnecting /\ UNCHANGED <<pc, batch>>
      /\ client # "dead" /\ failed = {}
  BY NextCallbackFacts, Zenon DEF Restart
<1>2. channel = "none" /\ ~connection /\ timers = 0 /\ functors = <<>>
  BY <1>1, Single, Zenon DEF IInv, Phases, Channel, TypeOK, Queue, Queued, Reconnecting
<1>3. kInitRetryDelayMs \in kInitRetryDelayMs .. kMaxRetryDelayMs
  BY DelayAssumption
<1>4. /\ Connect(timers, kInitRetryDelayMs) /\ failed' = {} /\ connect' = TRUE
      /\ UNCHANGED <<functors, connection, clientConnect, retry, starts, client>>
  BY <1>1, <1>2, Zenon DEF Restart, Check, userVars
<1>5. clientConnect' \in BOOLEAN /\ pc' \in {"poll", "handle", "batch"} /\ starts' = 1
  BY <1>1, <1>4, Zenon DEF IInv, TypeOK
<1> QED BY <1>1, <1>2, <1>3, <1>4, <1>5, ConnectStep, Zenon

\* startInLoop, of a timer or a functor, when nothing else waits.
LEMMA StartInLoopStep ==
    ASSUME IInv, NEW t, StartInLoop(t), t = 0, state = "kDisconnected", channel = "none", ~connection,
           client # "dead",
           pc' \in {"poll", "handle", "batch"}, cbs' = <<>>, functors' = <<>>, batch' = <<>>,
           starts' = 1, UNCHANGED <<connect, clientConnect, connection, retry, client>>
    PROVE  IInv'
<1>1. failed' = {}
  BY Zenon DEF StartInLoop, Check, IInv, Failures
<1>2. CASE connect
  <2>1. Connect(t, retryDelayMs)
    BY <1>2, Zenon DEF StartInLoop
  <2>2. /\ retryDelayMs \in kInitRetryDelayMs .. kMaxRetryDelayMs
        /\ connect' \in BOOLEAN /\ clientConnect' \in BOOLEAN
    BY Zenon DEF IInv, TypeOK
  <2> QED BY <1>1, <2>1, <2>2, ConnectStep, Zenon
<1>3. CASE ~connect
  <2> USE DEF IInv
  <2>1. timers' = 0 /\ UNCHANGED <<state, retryDelayMs, channel, sockets, gaveUp>>
    BY <1>3, Zenon DEF StartInLoop
  <2>2. TypeOK'
    BY <2>1, Zenon DEF TypeOK, Queue, Events
  <2>3. Phases'
    BY <2>1, Single DEF Phases, Queued, Reconnecting
  <2>4. Channel'
    BY <2>1, Single, Double, Zenon DEF Channel, Queued, One
  <2>5. Wanted'
    BY <1>3, Zenon DEF Wanted
  <2>6. Failures'
    BY <1>1, Zenon DEF Failures
  <2> QED BY <2>2, <2>3, <2>4, <2>5, <2>6, Zenon
<1> QED BY <1>2, <1>3, Zenon

LEMMA TimerFiresStep == ASSUME IInv, TimerFires PROVE IInv'
<1>1. /\ pc = "poll" /\ timers = 1 /\ pc' = "handle" /\ client # "dead" /\ StartInLoop(timers - 1)
      /\ UNCHANGED <<cbs, functors, batch, connect, connection, clientConnect, retry, starts, client>>
  BY DEF TimerFires, IInv, TypeOK, userVars
<1>2. /\ cbs = <<>> /\ functors = <<>> /\ batch = <<>> /\ starts = 1
      /\ state = "kDisconnected" /\ channel = "none" /\ ~connection
  BY <1>1, Single, Zenon DEF IInv, Phases, Channel, TypeOK, Queue, Queued
<1> QED BY <1>1, <1>2, StartInLoopStep

LEMMA RunStartInLoopStep == ASSUME IInv, RunStartInLoop PROVE IInv'
<1>1. /\ pc = "batch" /\ batch = <<"startInLoop">> /\ batch' = <<>>
      /\ functors = <<>> /\ cbs = <<>> /\ starts = 1 /\ client # "dead"
      /\ UNCHANGED <<pc, cbs, functors, connect, connection, userVars>>
  BY NextFunctorFacts, Zenon DEF RunStartInLoop
<1>2. state = "kDisconnected" /\ channel = "none" /\ ~connection /\ timers = 0
  BY <1>1, Zenon DEF IInv, Phases, Queued
<1>3. StartInLoop(timers) /\ UNCHANGED <<clientConnect, retry, starts, client>>
  BY <1>1, Zenon DEF RunStartInLoop, userVars
<1> QED BY <1>1, <1>2, <1>3, StartInLoopStep, Zenon

\* removeAndResetChannel, at the end of an attempt.
LEMMA RemoveAndResetChannelFacts ==
    ASSUME IInv, state = "kConnecting", client # "dead", RemoveAndResetChannel
    PROVE  /\ functors = <<>> /\ functors' = <<"resetChannel">> /\ channel' = "off"
           /\ sockets = 1 /\ timers = 0 /\ ~connection
<1>1. channel = "on" /\ timers = 0 /\ ~connection /\ sockets = 1
  BY Zenon DEF IInv, Channel, Phases, One, TypeOK
<1>2. functors = <<>>
  BY <1>1, Zenon DEF IInv, Channel, Phases, TypeOK, Queue, Queued
<1>3. functors' = <<"resetChannel">> /\ channel' = "off"
  BY <1>2, Single, Zenon DEF RemoveAndResetChannel
<1> QED BY <1>1, <1>2, <1>3, Zenon

\* An attempt fails: retry.
LEMMA RetryStep ==
    ASSUME IInv, state = "kConnecting", pc = "handle", batch = <<>>, starts = 1, client # "dead",
           RemoveAndResetChannel, Retry(connect, timers, retryDelayMs), sockets' = sockets - 1,
           cbs' \in {<<>>, <<"write">>}, failed' = {},
           UNCHANGED <<pc, batch, connect, connection, gaveUp, userVars>>
    PROVE  IInv'
<1> USE DEF IInv, userVars
<1>1. /\ functors' = <<"resetChannel">> /\ channel' = "off" /\ sockets' = 0 /\ ~connection
  BY RemoveAndResetChannelFacts
<1>2. state' = "kDisconnected" /\ timers' = IF connect THEN 1 ELSE 0
  BY RemoveAndResetChannelFacts DEF Retry, RetryTimers
<1>3. retryDelayMs' \in kInitRetryDelayMs .. kMaxRetryDelayMs
  BY NextDelayBounded, Zenon DEF Retry, TypeOK
<1>4. TypeOK'
  BY <1>1, <1>2, <1>3, Zenon DEF TypeOK, Queue, Events
<1>5. Phases'
  BY <1>1, <1>2, Distinct, Single, Zenon DEF Phases, Queued, Reconnecting
<1>6. Channel'
  BY <1>1, <1>2, Distinct, Single, Double DEF Channel, Queued, One
<1>7. Wanted'
  BY <1>2, Zenon DEF Wanted
<1>8. Failures'
  BY Zenon DEF Failures
<1> QED BY <1>4, <1>5, <1>6, <1>7, <1>8, Zenon

LEMMA HandleErrorStep == ASSUME IInv, HandleError PROVE IInv'
<1>1. /\ pc = "handle" /\ batch = <<>> /\ starts = 1 /\ UNCHANGED <<pc, batch>>
      /\ cbs' \in {<<>>, <<"write">>} /\ state = "kConnecting" /\ client # "dead" /\ failed = {}
  BY NextCallbackFacts, Zenon DEF HandleError
<1>2. failed' = {}
  BY <1>1, Zenon DEF HandleError, Check
<1> QED BY <1>1, <1>2, RetryStep, Zenon DEF HandleError

LEMMA HandleWriteFailsStep == ASSUME IInv, HandleWriteFails PROVE IInv'
<1>1. /\ pc = "handle" /\ batch = <<>> /\ starts = 1 /\ UNCHANGED <<pc, batch>> /\ cbs' = <<>>
      /\ client # "dead" /\ failed = {}
  BY NextCallbackFacts, Zenon DEF HandleWriteFails
<1>2. failed' = {} /\ state = "kConnecting"
  BY <1>1, Zenon DEF HandleWriteFails
<1> QED BY <1>1, <1>2, RetryStep, Zenon DEF HandleWriteFails

LEMMA HandleWriteIgnoredStep == ASSUME IInv, HandleWriteIgnored PROVE IInv'
<1> USE DEF IInv, connVars, userVars
<1>1. /\ pc = "handle" /\ batch = <<>> /\ starts = 1 /\ UNCHANGED <<pc, batch>>
      /\ cbs' = <<>> /\ cbs = <<"write">> /\ client # "dead" /\ failed = {}
  BY NextCallbackFacts, Zenon DEF HandleWriteIgnored
<1>2. /\ failed' = {}
      /\ UNCHANGED <<functors, state, retryDelayMs, channel, sockets, timers, gaveUp,
                     connect, connection, clientConnect, retry, starts, client>>
  BY <1>1, Zenon DEF HandleWriteIgnored, Check, Channel
<1>3. TypeOK'
  BY <1>1, <1>2 DEF TypeOK, Events
<1>4. Phases'
  BY <1>1, <1>2, Single, Zenon DEF Phases, Queued, Reconnecting
<1>5. Channel'
  BY <1>1, <1>2, Single, Double, Zenon DEF Channel, Queued, One
<1>6. Wanted'
  BY <1>1, <1>2, Distinct, Zenon DEF Wanted, Queued, Reconnecting
<1>7. Failures'
  BY <1>1, <1>2, Zenon DEF Failures
<1> QED BY <1>3, <1>4, <1>5, <1>6, <1>7, Zenon

LEMMA HandleWriteConnectedStep == ASSUME IInv, HandleWriteConnected PROVE IInv'
<1> USE DEF IInv, userVars
<1>1. /\ pc = "handle" /\ batch = <<>> /\ starts = 1 /\ UNCHANGED <<pc, batch>> /\ cbs' = <<>>
      /\ client # "dead" /\ failed = {}
  BY NextCallbackFacts, Zenon DEF HandleWriteConnected
<1>2. /\ functors' = <<"resetChannel">> /\ channel' = "off" /\ sockets' = 0
      /\ timers = 0 /\ ~connection
  BY <1>1, RemoveAndResetChannelFacts DEF HandleWriteConnected, SocketsAfterConnect
<1>3. /\ state' = "kConnected" /\ (connection' <=> connect) /\ connection' \in BOOLEAN
      /\ UNCHANGED <<connect, retryDelayMs, timers, gaveUp, clientConnect, retry, starts, client, failed>>
  BY <1>2, Zenon DEF HandleWriteConnected, NewConnection, TypeOK
<1>4. TypeOK'
  BY <1>1, <1>2, <1>3, Zenon DEF TypeOK, Queue, Events
<1>5. Phases'
  BY <1>1, <1>2, <1>3, Distinct, Single DEF Phases, Queued, Reconnecting
<1>6. Channel'
  BY <1>1, <1>2, <1>3, Distinct, Single, Double, Zenon DEF Channel, Queued, One
<1>7. Wanted'
  BY <1>3, Zenon DEF Wanted
<1>8. Failures'
  BY <1>1, <1>3, Zenon DEF Failures
<1> QED BY <1>4, <1>5, <1>6, <1>7, <1>8, Zenon

\* The connection closes, outside the connector's own callbacks.
LEMMA RemoveConnectionStep == ASSUME IInv, RemoveConnection PROVE IInv'
<1> USE DEF IInv, connVars, userVars
<1>1. /\ pc = "poll" /\ connection /\ connection' = FALSE /\ pc' = "handle"
      /\ cbs' = IF client = "alive" /\ retry /\ clientConnect THEN <<"restart">> ELSE <<>>
      /\ UNCHANGED <<functors, batch, state, retryDelayMs, channel, sockets, timers, gaveUp, connect,
                     clientConnect, retry, starts, client, failed>>
  BY Zenon DEF RemoveConnection
<1>2. functors = <<>> /\ batch = <<>> /\ state = "kConnected" /\ channel = "none" /\ timers = 0 /\ starts = 1
  BY <1>1, Zenon DEF Phases, Channel, Queued, TypeOK, Queue
<1>3. TypeOK'
  <2>1. cbs' \in Events \cup {<<"restart">>} /\ connection' \in BOOLEAN
    BY <1>1, Zenon DEF Events
  <2> QED BY <1>1, <2>1 DEF TypeOK
<1>4. Phases'
  BY <1>1, <1>2, Single, Zenon DEF Phases, Queued, Reconnecting
<1>5. Channel'
  BY <1>1, <1>2, Distinct, Single, Double, Zenon DEF Channel, Queued, One
<1>6. Wanted'
  BY <1>1, Zenon DEF Wanted, Reconnecting
<1>7. Failures'
  BY <1>1, Zenon DEF Failures, Queued
<1> QED BY <1>3, <1>4, <1>5, <1>6, <1>7, Zenon

LEMMA StartElsewhereStep == ASSUME MaxStarts \in 0 .. 1, IInv, StartElsewhere PROVE IInv'
<1> USE DEF IInv, connVars
<1>1. starts = 0
  BY DEF StartElsewhere, TypeOK
<1>2. /\ functors = <<>> /\ batch = <<>> /\ cbs = <<>> /\ timers = 0
      /\ state = "kDisconnected" /\ channel = "none" /\ ~connection
  BY <1>1, Zenon DEF Phases
<1>3. /\ starts' = 1 /\ clientConnect' = TRUE /\ connect' = TRUE /\ functors' = <<"startInLoop">>
      /\ UNCHANGED <<pc, cbs, batch, state, retryDelayMs, channel, sockets, timers, gaveUp,
                     connection, retry, client, failed>>
  BY <1>1, <1>2, Single DEF StartElsewhere
<1>4. TypeOK'
  BY <1>3 DEF TypeOK, Queue
<1>5. Phases'
  BY <1>2, <1>3, Single DEF Phases, Queued, Reconnecting
<1>6. Channel'
  BY <1>2, <1>3, Distinct, Single, Double, Zenon DEF Channel, Queued, One
<1>7. Wanted'
  BY <1>3, Zenon DEF Wanted, Queued
<1>8. Failures'
  BY <1>2, <1>3, Zenon DEF StartElsewhere, Failures
<1> QED BY <1>4, <1>5, <1>6, <1>7, <1>8, Zenon

\* stop(), disconnect() and ~TcpClient without a connection only take the wish away.
LEMMA WishStep ==
    ASSUME IInv, client # "dead", client' \in {"alive", "dying"}, client' = "alive" => client = "alive",
           connect' \in BOOLEAN, connect' => connect,
           clientConnect' \in BOOLEAN, clientConnect' => clientConnect,
           UNCHANGED <<loopVars, connVars, connection, retry, starts, failed>>
    PROVE  IInv'
<1> USE DEF IInv
<1>1. UNCHANGED <<pc, cbs, functors, batch, state, retryDelayMs, channel, sockets, timers, gaveUp,
                  connection, retry, starts, failed>>
  BY Zenon DEF loopVars, connVars
<1>2. client' # "dead"
  BY Zenon
<1>3. TypeOK'
  BY <1>1 DEF TypeOK
<1>4. Phases'
  BY <1>1 DEF Phases, Queued, Reconnecting
<1>5. Channel' /\ Failures'
  BY <1>1, <1>2, Zenon DEF Channel, Failures, Queued, One
<1>6. Wanted'
  BY <1>1 DEF Wanted, Queued, Reconnecting
<1> QED BY <1>3, <1>4, <1>5, <1>6, Zenon

LEMMA StopStep == ASSUME IInv, Stop \/ Disconnect PROVE IInv'
<1>1. client = "alive" /\ client' = "alive"
  BY Zenon DEF Stop, Disconnect
<1>2. UNCHANGED <<loopVars, connVars, connection, retry, starts, failed>>
  BY Zenon DEF Stop, Disconnect
<1>3. connect \in BOOLEAN /\ clientConnect \in BOOLEAN
  BY Zenon DEF IInv, TypeOK
<1>4. connect' \in BOOLEAN /\ (connect' => connect)
  <2>1. connect' = connect \/ connect' = FALSE
    BY Zenon DEF Stop, Disconnect
  <2>2. CASE connect' = connect
    BY <1>3, <2>2, Zenon
  <2>3. CASE connect' = FALSE
    BY <2>3, Zenon
  <2> QED BY <2>1, <2>2, <2>3, Zenon
<1>5. clientConnect' \in BOOLEAN /\ (clientConnect' => clientConnect)
  <2>1. clientConnect' = clientConnect \/ clientConnect' = FALSE
    BY Zenon DEF Stop, Disconnect
  <2>2. CASE clientConnect' = clientConnect
    BY <1>3, <2>2, Zenon
  <2>3. CASE clientConnect' = FALSE
    BY <2>3, Zenon
  <2> QED BY <2>1, <2>2, <2>3, Zenon
<1>6. client # "dead" /\ client' \in {"alive", "dying"}
  BY <1>1, Zenon
<1> QED BY <1>1, <1>2, <1>4, <1>5, <1>6, WishStep, Zenon

\* ~Connector, outside the callbacks of its channel, with its assertion.
LEMMA DestroyConnectorStep ==
    ASSUME IInv, client # "dead", client' = "dead", DestroyConnector, cbs = <<>>,
           pc' = pc \/ (pc = "poll" /\ pc' = "handle"),
           UNCHANGED <<cbs, functors, batch, connect, connection, clientConnect, retry, starts>>
    PROVE  IInv'
<1> USE DEF IInv
<1>1. /\ channel' = "none" /\ UNCHANGED <<state, retryDelayMs, sockets, timers, gaveUp>>
      /\ failed' = IF channel = "none" THEN {} ELSE {"~Connector"}
  <2>1. failed = {}
    BY Zenon DEF Failures
  <2> QED BY <2>1 DEF DestroyConnector, Check
<1>2. TypeOK'
  BY <1>1 DEF TypeOK
<1>3. Phases'
  BY <1>1, Zenon DEF Phases, Queued, Reconnecting
<1>4. Channel'
  BY <1>1, Single, Double, Zenon DEF Channel, Queued, One
<1>5. Wanted'
  BY Zenon DEF Wanted
<1>6. Failures'
  <2>1. channel = "none" <=> ~(state = "kConnecting" \/ Queued("resetChannel"))
    BY Zenon DEF Channel, TypeOK
  <2> QED BY <1>1, <2>1, Zenon DEF Failures, Queued
<1> QED BY <1>2, <1>3, <1>4, <1>5, <1>6, Zenon

LEMMA DestroyClientStep == ASSUME IInv, DestroyClient PROVE IInv'
<1>1. client = "alive" /\ UNCHANGED <<loopVars, connection, clientConnect, retry, starts>>
  BY Zenon DEF DestroyClient
<1>2. CASE connection /\ client' = "dead" /\ DestroyConnector /\ UNCHANGED connect
  <2>1. cbs = <<>>
    BY <1>2, Zenon DEF IInv, TypeOK, Events, Phases, Channel, Reconnecting
  <2> QED BY <1>1, <1>2, <2>1, DestroyConnectorStep, Zenon DEF loopVars
<1>3. CASE ~connection /\ client' = "dying" /\ connect' = FALSE /\ UNCHANGED <<connVars, failed>>
  <2>1. client # "dead" /\ client' \in {"alive", "dying"} /\ client' # "alive"
    BY <1>1, <1>3, Zenon
  <2>2. connect' \in BOOLEAN /\ ~connect'
    BY <1>3, Zenon
  <2>3. clientConnect' \in BOOLEAN /\ (clientConnect' => clientConnect)
    BY <1>1, Zenon DEF IInv, TypeOK
  <2> QED BY <1>1, <1>3, <2>1, <2>2, <2>3, WishStep, Zenon
<1> QED BY <1>2, <1>3, Zenon DEF DestroyClient

LEMMA ReleaseConnectorStep == ASSUME IInv, ReleaseConnector PROVE IInv'
<1>1. /\ pc \in {"poll", "handle"} /\ pc' = "handle" /\ cbs = <<>>
      /\ client = "dying" /\ client' = "dead" /\ DestroyConnector
      /\ UNCHANGED <<cbs, functors, batch, connect, connection, clientConnect, retry, starts>>
  BY Zenon DEF ReleaseConnector
<1>2. client # "dead" /\ (pc' = pc \/ (pc = "poll" /\ pc' = "handle"))
  BY <1>1, Zenon
<1> QED BY <1>1, <1>2, DestroyConnectorStep, Zenon

\* The loop goes on; the functors are in one queue or the other.
LEMMA LoopOnStep ==
    ASSUME IInv, (\E r \in Events : Poll(r)) \/ SwapFunctors \/ EndBatch
    PROVE  IInv'
<1> USE DEF IInv
<1>1. UNCHANGED <<state, retryDelayMs, channel, sockets, timers, gaveUp, connect, connection,
                  clientConnect, retry, starts, client, failed>>
  BY Zenon DEF Poll, SwapFunctors, EndBatch, connVars, userVars
<1>2. ASSUME NEW r \in Events, Poll(r) PROVE IInv'
  <2>1. pc = "poll" /\ pc' = "handle" /\ cbs' = r /\ cbs = <<>> /\ batch = <<>> /\ UNCHANGED <<functors, batch>>
    BY <1>2, Zenon DEF Poll, Channel
  <2>2. r # <<>> => channel = "on" /\ state = "kConnecting" /\ client # "dead"
    BY <1>2, Zenon DEF Poll, Channel
  <2>3. r # <<"restart">>
    BY Distinct, Single DEF Events
  <2>4. TypeOK'
    BY <1>1, <2>1 DEF TypeOK
  <2>5. Phases'
    BY <1>1, <2>1, <2>2, <2>3, Zenon DEF Phases, Queued, Reconnecting
  <2>6. Channel'
    BY <1>1, <2>1, <2>2, Single, Double, Zenon DEF Channel, Queued, One
  <2>7. Wanted'
    BY <1>1, <2>1, Single, Zenon DEF Wanted, Queued, Reconnecting
  <2>8. Failures'
    BY <1>1, <2>1, Zenon DEF Failures, Queued
  <2> QED BY <2>4, <2>5, <2>6, <2>7, <2>8, Zenon
<1>3. CASE SwapFunctors
  <2>1. /\ pc = "handle" /\ cbs = <<>> /\ pc' = "batch" /\ batch = <<>>
        /\ batch' = functors /\ functors' = <<>> /\ cbs' = cbs
    BY <1>3, Zenon DEF SwapFunctors, Channel
  <2>2. Queued("startInLoop")' <=> Queued("startInLoop")
    BY <2>1, Single, Zenon DEF Queued
  <2>3. Queued("resetChannel")' <=> Queued("resetChannel")
    BY <2>1, Single, Zenon DEF Queued
  <2>4. TypeOK'
    BY <1>1, <2>1 DEF TypeOK, Queue
  <2>5. Phases'
    BY <1>1, <2>1, <2>2, Zenon DEF Phases, Reconnecting
  <2>6. Channel'
    BY <1>1, <2>1, <2>3, Single, Double, Zenon DEF Channel, One
  <2>7. Wanted'
    BY <1>1, <2>1, <2>2, Zenon DEF Wanted, Reconnecting
  <2>8. Failures'
    BY <1>1, <2>3, Zenon DEF Failures
  <2> QED BY <2>4, <2>5, <2>6, <2>7, <2>8, Zenon
<1>4. CASE EndBatch
  <2>1. pc = "batch" /\ pc' = "poll" /\ cbs = <<>> /\ batch = <<>> /\ UNCHANGED <<cbs, functors, batch>>
    BY <1>4, Zenon DEF EndBatch, Channel
  <2>2. TypeOK'
    BY <1>1, <2>1 DEF TypeOK
  <2>3. Phases' /\ Wanted'
    BY <1>1, <2>1, Zenon DEF Phases, Wanted, Queued, Reconnecting
  <2>4. Channel' /\ Failures'
    BY <1>1, <2>1, Zenon DEF Channel, Failures, Queued, One
  <2> QED BY <2>2, <2>3, <2>4, Zenon
<1> QED BY <1>2, <1>3, <1>4, Zenon

LEMMA ResetChannelStep == ASSUME IInv, ResetChannel PROVE IInv'
<1> USE DEF IInv
<1>1. /\ pc = "batch" /\ batch = <<"resetChannel">> /\ batch' = <<>>
      /\ functors = <<>> /\ cbs = <<>> /\ starts = 1 /\ client # "dead" /\ failed = {}
      /\ UNCHANGED <<pc, cbs, functors, connect, connection, userVars>>
  BY NextFunctorFacts, Zenon DEF ResetChannel
<1>2. /\ channel' = "none" /\ channel = "off"
      /\ UNCHANGED <<state, retryDelayMs, sockets, timers, gaveUp, failed, clientConnect, retry, starts, client>>
  BY <1>1, Zenon DEF ResetChannel, Channel, Queued, userVars
<1>3. TypeOK'
  BY <1>1, <1>2 DEF TypeOK, Queue
<1>4. Phases'
  BY <1>1, <1>2, Single, Zenon DEF Phases, Queued, Reconnecting
<1>5. Channel'
  BY <1>1, <1>2, Single, Double, Zenon DEF Channel, Queued, One
<1>6. Wanted'
  BY <1>1, <1>2, Distinct, Single, Zenon DEF Wanted, Queued, Reconnecting
<1>7. Failures'
  BY <1>1, <1>2, Zenon DEF Failures
<1> QED BY <1>3, <1>4, <1>5, <1>6, <1>7, Zenon

LEMMA IInvStep ==
    ASSUME MaxStarts \in 0 .. 1
    PROVE  IInv /\ [Next]_vars => IInv'
<1> SUFFICES ASSUME IInv, [Next]_vars PROVE IInv'
  BY Zenon
<1>1. CASE LoopStep
  <2>1. CASE (\E r \in Events : Poll(r)) \/ SwapFunctors \/ EndBatch
    BY <2>1, LoopOnStep, Zenon
  <2>2. CASE HandleError
    BY <2>2, HandleErrorStep, Zenon
  <2>3. CASE HandleWriteIgnored
    BY <2>3, HandleWriteIgnoredStep, Zenon
  <2>4. CASE HandleWriteFails
    BY <2>4, HandleWriteFailsStep, Zenon
  <2>5. CASE HandleWriteConnected
    BY <2>5, HandleWriteConnectedStep, Zenon
  <2>6. CASE Restart
    BY <2>6, RestartStep, Zenon
  <2>7. CASE TimerFires
    BY <2>7, TimerFiresStep, Zenon
  <2>8. CASE RunStartInLoop
    BY <2>8, RunStartInLoopStep, Zenon
  <2>9. CASE ResetChannel
    BY <2>9, ResetChannelStep, Zenon
  <2> QED BY <1>1, <2>1, <2>2, <2>3, <2>4, <2>5, <2>6, <2>7, <2>8, <2>9, Zenon DEF LoopStep, Events
<1>2. CASE RemoveConnection
  BY <1>2, RemoveConnectionStep, Zenon
<1>3. CASE Start
  BY <1>3, StartStep, Zenon
<1>4. CASE StartElsewhere
  BY <1>4, StartElsewhereStep, Zenon
<1>5. CASE Stop \/ Disconnect \/ DestroyClient
  BY <1>5, StopStep, DestroyClientStep, Zenon
<1>6. CASE ReleaseConnector
  BY <1>6, ReleaseConnectorStep, Zenon
<1>7. CASE UNCHANGED vars
  <2> USE <1>7 DEF IInv, vars, loopVars, connVars, userVars
  <2>1. TypeOK'
    BY DEF TypeOK
  <2>2. Phases' /\ Wanted'
    BY Zenon DEF Phases, Wanted, Queued, Reconnecting
  <2>3. Channel' /\ Failures'
    BY Zenon DEF Channel, Failures, Queued, One
  <2> QED BY <2>1, <2>2, <2>3, Zenon
<1> QED BY <1>1, <1>2, <1>3, <1>4, <1>5, <1>6, <1>7, Zenon DEF Next

-----------------------------------------------------------------------------
(* The theorems.                                                           *)

\* What Attempts counts: at most one startInLoop is queued.
LEMMA StartsQueuedFacts ==
    ASSUME IInv
    PROVE  StartsQueued = One(Queued("startInLoop"))
<1> DEFINE queued == functors \o batch
           starting == {i \in DOMAIN queued : queued[i] = "startInLoop"}
<1>0. ASSUME NEW q \in Queue PROVE q \o <<>> = q /\ <<>> \o q = q
  <2> DEFINE S == {"startInLoop", "resetChannel"}
  <2>1. <<>> \in Seq(S) /\ \A x \in S : <<x>> \in Seq(S)
    BY EmptySeq
  <2>2. q = <<>> \/ \E x \in S : q = <<x>>
    BY Zenon DEF Queue
  <2>3. q \in Seq(S)
    BY <2>1, <2>2, Zenon
  <2> QED BY <2>3, ConcatEmptySeq, Zenon
<1>1. queued = functors \/ queued = batch
  BY <1>0, Zenon DEF IInv, TypeOK, Channel
<1>2. Queued("startInLoop") <=> queued = <<"startInLoop">>
  BY <1>0, Single, Zenon DEF IInv, TypeOK, Channel, Queued
<1>3. queued \in Queue
  BY <1>1, Zenon DEF IInv, TypeOK
<1> HIDE DEF queued
<1>4. CASE queued = <<"startInLoop">>
  <2>1. starting = {1}
    BY <1>4
  <2> QED BY <1>2, <1>4, <2>1, FS_Singleton, Zenon DEF One, StartsQueued, queued
<1>5. CASE queued # <<"startInLoop">>
  <2>1. starting = {}
    BY <1>3, <1>5 DEF Queue
  <2> QED BY <1>2, <1>5, <2>1, FS_EmptySet, Zenon DEF One, StartsQueued, queued
<1> QED BY <1>4, <1>5, Zenon

THEOREM Invariance ==
    ASSUME MaxStarts \in 0 .. 1
    PROVE  Spec => []IInv
BY InitIInv, IInvStep, PTL DEF Spec

\* Connector.cpp, for any delays: a client that calls connect() once, and stop() and
\* disconnect() whenever it likes, fails no assertion of startInLoop, connecting,
\* handleWrite or handleError, and resetChannel destroys the channel only after its
\* handleEvent.  The assertion of ~Connector fails if and only if the client's destruction
\* takes the connector during an attempt or between an attempt and its resetChannel.
THEOREM AssertionsCorrect ==
    ASSUME MaxStarts \in 0 .. 1
    PROVE  Spec => []AssertionsHold
<1>1. IInv => AssertionsHold
  <2> SUFFICES ASSUME IInv PROVE AssertionsHold
    BY Zenon
  <2>1. Range(<<>>) = {}
    BY DEF Range
  <2>2. ASSUME NEW q \in Queue PROVE "resetChannel" \in Range(q) <=> q = <<"resetChannel">>
    <3>1. CASE q = <<>>
      BY <2>1, <3>1, Single, Zenon
    <3>2. CASE q = <<"startInLoop">>
      <4>1. Range(q) = {"startInLoop"}
        BY <3>2, Single, Zenon
      <4> QED BY <3>2, <4>1, Distinct, Zenon
    <3>3. CASE q = <<"resetChannel">>
      BY <3>3, Single, Zenon
    <3> QED BY <3>1, <3>2, <3>3, Zenon DEF Queue
  <2>3. "resetChannel" \in Range(functors) \cup Range(batch) <=> Queued("resetChannel")
    BY <2>2, Zenon DEF IInv, TypeOK, Queued
  <2>4. /\ failed \subseteq {"~Connector"}
        /\ "~Connector" \in failed
             <=> client = "dead" /\ (state = "kConnecting" \/ Queued("resetChannel"))
    BY Zenon DEF IInv, Failures
  <2>5. Range(cbs) \cap {"error", "write"} # {} => channel # "none"
    <3>1. cbs \in {<<"write">>, <<"error">>, <<"error", "write">>} => channel # "none"
      <4>1. cbs \in {<<"error">>, <<"error", "write">>} => state = "kConnecting"
        BY Zenon DEF IInv, Channel
      <4>2. cbs = <<"write">> => state = "kConnecting" \/ channel = "off"
        BY Zenon DEF IInv, Channel
      <4>3. cbs \in {<<"write">>, <<"error">>, <<"error", "write">>} => client # "dead"
        <5>1. <<"write">> # <<>> /\ <<"error">> # <<>> /\ <<"error", "write">> # <<>>
          BY Single, Double, Zenon
        <5> QED BY <5>1, Zenon DEF IInv, Channel
      <4>4. state = "kConnecting" /\ client # "dead" => channel = "on"
        BY Zenon DEF IInv, Channel
      <4> QED BY <4>1, <4>2, <4>3, <4>4
    <3>2. CASE cbs = <<>>
      BY <2>1, <3>2, Zenon
    <3>3. CASE cbs = <<"restart">>
      <4>1. Range(cbs) = {"restart"}
        BY <3>3, Single, Zenon
      <4> QED BY <4>1, Zenon
    <3> QED BY <3>1, <3>2, <3>3, Zenon DEF IInv, TypeOK, Events
  <2> QED BY <2>3, <2>4, <2>5, Zenon DEF AssertionsHold
<1> QED BY <1>1, Invariance, PTL

\* It has at most one attempt or connection, and one as long as it wants that, unless
\* connect(2) failed for good; and the delay of a retry stays within its limits.
THEOREM OneAttemptCorrect ==
    ASSUME MaxStarts \in 0 .. 1
    PROVE  Spec => []OneAttempt
<1>1. IInv => OneAttempt
  <2> SUFFICES ASSUME IInv PROVE OneAttempt
    BY Zenon
  <2> DEFINE q == Queued("startInLoop")
             k == state = "kConnecting"
             r == "restart" \in Range(cbs)
  <2>1. r <=> Reconnecting
    <3>1. Range(<<>>) = {}
      BY DEF Range
    <3>2. CASE cbs = <<>>
      BY <3>1, <3>2, Single, Zenon DEF Reconnecting
    <3>3. ASSUME NEW x, cbs = <<x>> PROVE r <=> x = "restart"
      BY <3>3, Single
    <3>4. CASE cbs = <<"error", "write">>
      <4>1. ~r
        <5>1. Range(cbs) = {"error", "write"}
          BY <3>4, Double, Zenon
        <5> QED BY <5>1, Zenon
      <4> QED BY <3>4, <4>1, Distinct, Zenon DEF Reconnecting
    <3>5. CASE cbs = <<"write">> \/ cbs = <<"error">>
      <4>1. ~r
        BY <3>3, <3>5
      <4> QED BY <3>5, <4>1, Distinct, Zenon DEF Reconnecting
    <3>6. CASE cbs = <<"restart">>
      BY <3>3, <3>6, Zenon DEF Reconnecting
    <3> QED BY <3>2, <3>4, <3>5, <3>6, Zenon DEF IInv, TypeOK, Events
  <2>2. Attempts = One(q) + timers + One(k) + One(connection) + One(r)
    BY StartsQueuedFacts, Zenon DEF Attempts
  <2>3. /\ q => ~k /\ ~connection /\ ~r /\ timers = 0
        /\ k => ~connection /\ ~r /\ timers = 0
        /\ connection => ~r /\ timers = 0
        /\ r => timers = 0
        /\ timers \in {0, 1}
    BY <2>1, Single, Zenon DEF IInv, TypeOK, Phases, Reconnecting
  <2>4. /\ retry /\ connect /\ clientConnect /\ ~gaveUp /\ client = "alive"
             => q \/ timers = 1 \/ k \/ connection \/ r
        /\ retryDelayMs \in kInitRetryDelayMs .. kMaxRetryDelayMs
    BY <2>1, Zenon DEF IInv, TypeOK, Wanted
  <2> HIDE DEF q, k, r
  <2>5. Attempts <= 1 /\ (q \/ timers = 1 \/ k \/ connection \/ r => Attempts >= 1)
    BY <2>2, <2>3 DEF One
  <2> QED BY <2>4, <2>5, Zenon DEF OneAttempt
<1> QED BY <1>1, Invariance, PTL

\* Connector.cpp, connect to retry: its socket is open exactly while the channel watches
\* it, and closed once or handed over however the attempt ends.  The one socket that stays
\* open without a channel is that of an attempt in progress at ~Connector.
THEOREM NoSocketLeakCorrect ==
    ASSUME MaxStarts \in 0 .. 1
    PROVE  Spec => []NoSocketLeak
<1>1. IInv => NoSocketLeak
  BY Zenon DEF IInv, Channel, NoSocketLeak
<1> QED BY <1>1, Invariance, PTL

=============================================================================
