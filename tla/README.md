# tiny-muduo in TLA+

tiny-muduo is a small reactor library for TCP servers and clients in C++, with
the thread, logging and date libraries it uses. This directory holds TLA+ models
of its parts, the configurations with which TLC checks them on small instances,
and proofs, checked by TLAPS, of the most important results for all instances.
`PROJECT.json` lists components, runs, hazards, theorems and, under `map`, the
source lines each definition stands for.

## The system and its parts

An `EventLoop` belongs to one thread. Its `loop()` asks the `Poller` (or
`EPoller`) for the `Channel`s that have an event, lets each handle it, and then
runs the functors that other threads, or its own callbacks, have queued. A write
to an eventfd ends a blocking poll. `TimerQueue` is a channel on a timerfd.
`Acceptor` accepts connections for `TcpServer`; `Connector` opens them for
`TcpClient`; both hand a socket to a `TcpConnection`, which owns a channel and two
`Buffer`s and lives as long as a shared pointer refers to it. `EventLoopThread`
and `EventLoopThreadPool` run loops in threads of their own. Below these are the
thread library (mutexes, queues, pool, signals), the logging library (streams,
files, two asynchronous loggers) and the date library.

| Part (under `src/muduo`) | Module | State |
|---|---|---|
| EventLoop | `EventLoop`, abstract `FunctorQueue`, `EventLoopProofs` | modelled, proved |
| Poller, Channel's registration | `Poller`, `RegistryProofs` | modelled, proved |
| EPoller | `EPoller`, `RegistryProofs` | modelled, proved |
| Buffer | `Buffer`, `BufferProofs` | modelled, proved |
| TimerQueue, Timer, TimerId | `TimerQueue`, `TimerQueueProofs` | all but destruction, proved |
| TcpConnection, Channel::handleEvent | `TcpConnection`, `TcpConnectionProofs` | modelled, proved |
| TcpServer, Acceptor, accept(2) and the descriptors | `TcpServer`, `TcpServerProofs` | all but destruction, proved |
| Connector, TcpClient | `Connector`, `ConnectorProofs` | modelled, proved for one connect() |
| EventLoopThread, EventLoopThreadPool | `EventLoopThreadPool`, `EventLoopProofs` | modelled, proved |
| thread/: ThreadPool | `ThreadPool` | modelled |
| thread/: SignalSlot | `SignalSlot`, `RegistryProofs` | all that can be instantiated, proved |
| thread/: BlockingQueue, BoundedBlockingQueue | `BlockingQueue`, `LoggingProofs` | modelled, proved |
| thread/: Thread, Condition, CountDownLatch | `Sync` | what the modules with threads use |
| logging/: AsyncLoggingDoubleBuffering | `AsyncLogging`, `LoggingProofs` | modelled, spares and order proved |
| logging/: AsyncLoggingQueue | `AsyncLoggingQueue`, `LoggingProofs` | modelled, order proved |
| logging/: LogFile | `LogFile`, `LoggingProofs` | modelled, proved |
| logging/: LogStream, Logging | `LogStream`, `Logging` | modelled |
| datetime/: Date, TimeZone | `Date`, `TimeZone`, reference `Calendar` | modelled |
| Timestamp, other socket calls | | choices in the models that use them |
| Callbacks, Atomic, Singleton, ThreadLocal, WeakCallback, Exception | | not modelled |

The `MC` modules make runs of these. `MCEventLoop`, `MCRegistries`, `MCSequential`,
`MCLogging` and `MCThreads` hold several independent programs of which each behaviour
runs one, chosen in the initial state, while the variables of the others stay as they are.

## How the models correspond to the code

Variables and operators keep the names of the fields and functions. An action is
a handler or, where another thread can interfere, the part of one between two
points at which it can: a critical section is one step, and a plain load or store
that other threads race with is a step of its own. Assertions of the code are
either invariants or, where several are collected, recorded in the variable
`failed`. Operators marked "Mutant" are wrong variants of the definition that
follows; each property is checked to fail for one of them.

**EventLoop.** `pc` is where the loop thread is. `QueueInLoop` pushes under the
mutex, `QueueInLoopWakeUp` is the test and the `wakeUp()` after it; `Quit` and
`QuitWakeUp` are the two halves of `quit()`. The eventfd is a counter whose
overflowing write fails, as the code only logs. The constructor does not
initialise `callingPendingFunctors`, so `Init` allows both values. `early` remembers
functors that the loop's thread queued outside `loop()`: the code sends no wakeup
for these, and they wait for the first event. `FunctorQueue` is the promise to the
callers of `queueInLoop`: one FIFO queue; `functors \o pendingFunctors` refines it.

**Poller** keeps the array of poll(2) with the indices in the channels, the
swap with the last entry in `removeChannel`, and the descriptor `-fd-1` of a channel
without events. **EPoller** keeps the three values of `index_` against the kernel's
interest list (external). Callers behave as those in the library: they enable a
channel before they disable or remove it.

**Buffer** models the vector byte by byte, stale bytes included; `content` is the
queue a user expects. `ReadFd` is readv into the vector and the stack buffer.

**TimerQueue.** Time is the time left until an expiration, so that it needs no
unbounded clock. `Tick` lowers all expirations and the timerfd's countdown;
`SetClock` moves the wall clock and not the timerfd. Calls of other threads wait
in a FIFO queue, which is what `EventLoop` is proved to implement. Of the sequence
numbers only the difference from the 0 in a `TimerId` matters.

**TcpConnection** composes what one connection's life depends on: poll, the order
of callbacks in `handleEvent`, the functors and their batch, the connection map
and the pointers. `elsewhere` says whether a second thread also calls `send()` and
`shutdown()`; `StartCall` is the test of the state there and `FinishCall` the rest.
As `TcpServer` never starts its thread pool there is one loop.

**Connector** is the connector and its client. The results of connect(2) and of the
attempt are choices, timers fire in any order, `RemoveConnection` and `Restart` are
two steps because `stop()` of another thread can come between them. `retry_` is
chosen at the start. `DestroyClient` is `~TcpClient`, in any callback, functor or thread;
`DestroyConnector` is `~Connector` with its assertion, at once if there is a connection
and otherwise by the timer of `~TcpClient` (`ReleaseConnector`). What would
call into a connector that is gone is not taken: see the hazard at `TcpClient.cpp:77`.
Nor are two things in the model that concern the connection after `~TcpClient`: the client
destroyed while `removeConnection` is using it, and, in another thread, a close that comes
before the queued `setCloseCallback` (the FIXME at `TcpClient.cpp:70`).

**TcpServer** has many connections, each reduced to its state, its descriptor and
who points to it (the map, the application, a queued `connectDestroyed`). accept(2)
succeeds with any free descriptor, fails with an expected error, or ends the
process as `LOG_FATAL` does. `start()` may be called in another thread and again.

**EventLoopThreadPool** models `startLoop()` as the code runs it: start the thread,
take the mutex, wait until `loop` is set. The loop is a local variable of the thread:
it is `live` between its constructor and the end of `threadFunc`, and `stale` collects
uses of it outside that time. The comment at `EventLoopThread.cpp:32` doubts the need
of the `while` around the wait; a mutant without it breaks `LoopsUsable`.

**Sync** has a condition variable as the set of the threads that wait. A notify removes
any one of them, a spurious wakeup too, and a thread that is not in the set tests its
condition again. **BlockingQueue** has put and take of both queues over it, with a
capacity of `Unbounded` for the plain one. **ThreadPool** also keeps its mutex,
because `running_` is written without it and a worker's test and wait must be two steps.
**SignalSlot** has the current list and the one each `call()` walks. `sharing` has the calls
whose list is the current one itself; a write leaves them the old list, as `copyOnWrite`
does when the list is not unique. A slot dies with its last reference, in any thread. What
`clean()` keeps is written as the increasing enumeration of the positions that have not
expired (`KeptInList`), and not with `SelectSeq`, whose recursive definition the provers
cannot use.

**AsyncLogging** has a buffer as the sequence of its lines. The critical section of
`append` and that of the logging thread are one step each, the wait is one
more; writing, which touches only local variables, is one step. The code waits
when there *are* full buffers and spins when there are none; the model does too.
**AsyncLoggingQueue** puts lines into a `BlockingQueue`; `stop()` puts the empty message.
Both write through **LogFile**, a record with the fields of the class and the files so
far. A write may take only part of the lines; the clock may go back.

**Date**, **TimeZone**, **LogStream** and **Logging** are functions, with the division and
remainder of C++. `Calendar` counts days one at a time as the test of `Date` does. A zone file
is a record of what it holds and where it ends. A streamed item has a kind and a
length; the line keeps what fits, with the 32 bytes that a number reserves.

## Runs

| Run | Instance | Distinct states | Shows |
|---|---|---|---|
| `eventloop` | loop and two threads, three functors, eventfd limit 1; a pool of up to two loop threads | 82818 | no lost wakeup; refinement of `FunctorQueue`; functors run, channels are served, quit ends the loop; loops exist while they are handed out, and the pool's destruction ends |
| `registries` | descriptors 0 to 2; EPoller's event list of 1; two callers and two slots | 58689 | entries, indices and map agree; the kernel's list equals the interests and no epoll_ctl is refused; only wanted channels are reported; a signal runs what is connected and cleans its list |
| `poller_reenable` | Poller of the same | violation | a channel disabled and enabled again is not watched |
| `sequential` | see the bounds | 99020 | layout and contents of a Buffer; dates against counting; local time and back; numbers read back; log lines keep whole items in order |
| `buffer_shrink` | Buffer of the same, with `shrink` | violation | `shrink` leaves the indices behind |
| `timerqueue` | two timers, delays up to 2 ticks, one waiting call, one clock step | 154902 | the two sets agree, one owner per timer, the alarm set and in time; timers run and repeat |
| `timerqueue_cancel` | same, two sequence numbers, no clock step | violation | `cancel()` finds no timer |
| `tcp` | three messages of two bytes | 36564 | assertions, lifetime of the channel, order of bytes, end of stream after the data; shutdown, close and drain complete |
| `tcp_free` | one message, two threads | violation | a functor runs after the connection is gone |
| `connector` | one `connect()`, delays of the code | 2692 | one attempt, never two and never none while one is wanted; no leaked socket and no failed assertion, and exactly when `~Connector` is the exception; a client that wants a connection gets it |
| `logging` | four lines; buffers of one, two producers, a queue of one or unbounded; files of one line | 44468 | spares come back, lines in order, nobody sleeps beside work, files roll when due; lines are written and `stop()` returns |
| `threads` | two workers and three tasks; four clients and two descriptors | 6787 | connections own their descriptors; tasks run once, in order; stopping ends; clients are accepted |

Each proof has the type of its component's state in its invariant.

**The bounds.** Three functors give one in the batch, one pending and one being
queued; two foreign threads give a queueInLoop against a quit; an eventfd limit of
1 makes the overflow frequent. Three descriptors give a removed entry, one that
moves into its place and one that stays, with 0 as the descriptor that cannot be
negated. A Buffer of 2+2 bytes, strings up to 2 and three byte values reach growing,
moving and the spill of readv in two calls. Days run from 1900 to 2100, which has a
century with and one without a leap day; UTC is checked where 32 bits hold it, at four
seconds of a day. Zones are those of the test with summers shortened to two days, at
every quarter of an hour, and one file cut off. Numbers are all of up to four digits
around zero and the limits of `int`. Messages end just before, at and after the
end of a line. Two timers are one that expires and one that is added, cancelled or
restarted meanwhile. Three messages are one written, one partly written and one
behind it. The delays of the connector are those of the code. With one line per
buffer and at most two waiting buffers, four lines overrun the logger (the code's 25 changes only
the number), and a queue of one with two producers and `stop()` has three threads that want
its place. Two workers can miss one notification each; two slots and two callers are a
snapshot that is read while its list is copied, cleaned and freed. Four clients on two
descriptors use each descriptor twice. Where a module has a proof, the bounds are gone.

**Deadlock** is checked for `eventloop` and `registries`, where only a destroyed pool of
loops and a Signal that is gone may stop. It is not for the others, whose
bounded inputs run out: a timer queue with no timer, a closed connection, a destroyed
client, a stopped logger or pool, and the last day of the calendar have nothing to do.
That threads do not wait for each other there is what the liveness properties say.

**Fairness.** Threads inside `loop()`, an API call, a worker or the logging thread keep
running (weak fairness on their steps). The poll timeout is never relied upon, nor a
spurious wakeup. In `TimerQueue` time passes, and each iteration of `loop()` reaches the
queued calls even if the timerfd fires every time (strong fairness on `RunCall`; the loop runs
`doPendingFunctors` after the channels in every iteration). In `TcpConnection` a peer
that has not closed reads, so that a socket is writable again and again and then
takes bytes. In `Connector` attempts end, and of infinitely many one succeeds; in
`TcpServer` so does accept(2) while a descriptor is free (strong fairness on `HandleRead`).
These are about the network and the kernel, and without them a client may retry and a
server fail for ever. Nothing obliges an application to call anything.

## Proofs

The proofs hold for every value of the constants that satisfies the assumptions named in
the modules: the loop's thread is one of the threads and the eventfd holds at least 1;
descriptors of the poller are natural numbers, and so is the size of epoll's list;
no slot is the mark for "no slot"; `Zero` is a byte
and sizes are naturals; bounds on threads, clients, messages, timers and delays are naturals
(and at least one timer can be made); the first retry delay is not above the largest;
producers are finitely many and the stopping thread is not one of them; a file's limits are
naturals and its period is not 0; at least two buffers may wait before some are dropped
(the code has 25).

**EventLoopProofs**: `TypeCorrect`, `WakeupSafe` (`NoLostWakeup`), `QuitSafe`
(`QuitWakesPoll`) and `ImplementsFunctorQueue`. `NoLostWakeup` speaks of the moment
when the loop is blocked, and is not inductive: the invariant says, at every
point of the loop, why a waiting functor will be seen (`Covered`): the eventfd is
readable, another thread is about to write it, the swap is still to come, or a
functor's own `queueInLoop` has not reached its test. The last case needs that
`callingPendingFunctors` is set during a batch (`Control`). For the refinement, a push
maps to `Submit`, the start of a functor to `Execute`, and the swap to a stutter
because the batch is empty before it.
`LoopsUsableCorrect` is about the pool of loops. A loop is not gone while it is handed out
because nobody but the owner ends it: the invariant ties the address, the position of the
thread and the thread's life together (`LoopThreads`) and says which threads the owner has
told to quit (`Doomed`). `Even` has the turn of `getNextLoop()`: the loops before
`nextLoop` are one call ahead.

**RegistryProofs**: `TypeCorrect`, `EntriesCorrect` (`EntriesMatchChannels`) and
`OnlyWantedReported` (`NothingUnwanted`) for `Poller`. The entries' invariant is almost
inductive; it needs that a channel in the map has a non-negative index. The hard step is
`RemoveChannel`, with the cases that the removed entry is the last or is not.
`KernelWatchesInterestCorrect` is about `EPoller`: the invariant says what each of the three
values of `index_` means, in the map and in the kernel.
`RunsConnectedCorrect` and `ListIsCleanCorrect` are about the Signal. The list that a call
walks is not written, because `copyOnWrite` leaves it to the call. So each slot
before a call's position that is still due has been run (`CallOK`), and the current list has
every living slot once and a dead one only before its `clean()` (`ListsOK`). That `clean()`
keeps the slots that live, each as often as before, is a lemma (`KeptInListFacts`).

**BufferProofs**: `TypeCorrect`, `LayoutCorrect`, `ContentCorrect` and `MoveCorrect`
(`MoveIsForward`: `std::copy` may overlap only in one direction). The
invariant `Holds` relates vector, indices and queue, and adds that the vector is
never smaller than the header room, to which `retrieveAll` resets the indices.
Lemmas state it for `ensureWritableBytes` and `append` on any vector, and `readFd` uses
them for the second part of its data.

**TimerQueueProofs**: `SetsAgreeCorrect` and `AlarmInTimeCorrect`. To the property the
invariant adds that a timer is on its way to the loop in one call only, and that the batch
is empty outside `handleRead`. The alarm's half rests on the least element of the queue:
`insert` reports whether the first expiration changed, and `resetTimerfd` is called exactly
then or after a batch. A lemma on the way (`CancelInLoopFacts`) says for all states what the
run `timerqueue_cancel` shows on an example: `cancelInLoop` never takes a timer out.

**TcpConnectionProofs**: `AssertionsCorrect`, `NoDanglingChannelCorrect` and
`InOrderCorrect`. The invariant follows the one `connectDestroyed`: the channel is
registered exactly while the connection is in the map or that functor waits, which is
queued once, by whichever callback closes first (`Life`). What is in the output buffer is
waited for, and nothing is in it after the end of the stream (`Output`). `Calls` has what
a second thread may have queued; without one there is no bare pointer.

**ConnectorProofs**: `AssertionsCorrect`, `OneAttemptCorrect` and `NoSocketLeakCorrect`, for
a client that calls `connect()` at most once (`MaxStarts \in 0 .. 1`); with two, the timer that
`cancel` left makes them false. The invariant gives the phases of the attempt, each of which
excludes the others (`Phases`), the channel's state in each (`Channel`), what waits while
the client wants a connection (`Wanted`), and which assertion has failed (`Failures`): none, or
that of `~Connector` if the connector went with its channel.

**TcpServerProofs**: `FdsCorrect` (`FdsOwned`) and `OnlyAcceptDies`: the assertions of
`removeConnectionInLoop`, `handleClose` and `connectDestroyed` never fail. The invariant
adds that the numbers in use are below `nextConnId`, so that a new connection
meets no pointer to an old one, and that accepted and waiting clients are not more
than those that came. The hard steps are those in which a pointer goes
(`FunctorStep`, `DropStep`): the descriptor is closed exactly when no other is left.

**LoggingProofs**: `NobodySleepsCorrect` (`NobodySleeps`), with any clock. That
a thread waits only while the queue is full is not invariant, since a take wakes one
thread and leaves the others; what is invariant is a count: while threads wait, there
are at least as many awake in put() as free places. Each take adds a place and wakes one,
each put uses up both. The invariant adds who may wait where, and the capacity.
`SparesReadyCorrect`: `nextBuffer` is missing only while a full buffer waits, so that whenever the
second spare is handed out at least two buffers are written and can come back (`Spares`);
dropping keeps two. `RollsOverCorrect` is an action property of both loggers: the lemmas
about `rollFile` and `append` hold for any `LogFile`, and names grow with `lastRoll` (`Named`).
`InOrderCorrect` is the order of lines (`InOrder` of `MCLogging`) for both loggers. Its
invariant `OrderInv` adds to the property where the lines are at each point of the logging
thread (`Phases`): the files first, then the buffers or the queue, then the current buffer,
so that a swap, a write or a drop moves the border between two neighbours.

**Only model-checked**: all liveness (the prover does no fairness or ENABLED); what the
functions of `Date`, `TimeZone`, `LogStream` and `Logging` compute (`DatesCount`,
`LocalRoundTrip`, `NumberReadsBack`, `LineSound`), which need induction over data;
and `ThreadPool`, whose two properties are liveness.

## What the code does not do as it says

The four violation runs are recorded under `findings`, with the comments of the code
they contradict: re-enabling a channel (`Poller.cpp:78`), `shrink` (`Buffer.h:124`),
`cancel` (`TimerQueue.cpp:82`) and the bare pointers in `send` and `shutdown`
(`TcpConnection.cpp:121`). Some passing properties are limited accordingly:

- `Buffer`'s `Spec` has no `shrink`, which nothing in the library calls.
- The liveness of a connection, and the second part of its `InOrder`, are about use in
  the loop thread; its `AssertionsHold` allows `Poller::updateChannel` to fail when a
  second thread's send arrives behind `connectDestroyed`.
- `Connector` covers one `connect()`, because after `stop()` a second one meets the
  timer that `cancel` left.

Others are limited by behaviour that no document denies, and that the models reach:

- `ThreadPool::stop()` clears `running_` and notifies without the mutex
  (`ThreadPool.cc:50`). A worker between its test and its wait misses that, and `join()`
  does not return; `StopReturns` excepts exactly this (`missed`).
- `loop()` clears `isQuited` (`EventLoop.cpp:69`). A quit that comes between `startLoop()` and
  `loop()` is lost, and the destructor waits for ever; `PoolEnds` excepts this (`lost`).
- The `wakeUp()` at the end of `quit()` may find the loop of an `EventLoopThread` gone;
  `LoopsUsable` allows this call and no other.
- `~Connector` asserts that its channel is gone (`Connector.cpp:36`), and nothing sees to it:
  an attempt may outlast the second for which `~TcpClient` keeps the connector or end with it
  (`TcpClient.cpp:77`, marked "FIXME: HACK"), and `~TcpClient` may run, with the new connection, before
  the queued `resetChannel`. Then the assertion fails, and in an attempt the socket
  stays open. `AssertionsHold` and `NoSocketLeak` of `Connector` say that this happens in
  these cases and in no other.
- With double buffering, lines appended shortly before `stop()` are not written;
  `LinesWritten` is about a running logger.
- A message put behind the one of `stop()` stays in the queue.

## Not modelled

- The destructors of `TimerQueue` and `TcpServer`: both are run when the loop has ended,
  by code outside the library. `TcpServer`'s is the default one.
- `TcpServer::setThreadNum`: `start()` never starts the pool, so that the number has
  no effect and there is one loop.
- `Signal::connect` with a tie, which passes an lvalue to an rvalue reference and
  cannot be instantiated, and `SignalSlotTrivial`, a vector without threads.
- Text: wording and layout of log lines, time stamps, addresses, zone abbreviations.
- Wrappers of single system calls, socket options, compiler builtins, pthread_once,
  thread-specific data, backtraces, fork handlers, and the detaching of a thread that is
  never joined.
- The example programs and tests, which use the library.
