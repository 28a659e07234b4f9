------------------------------ MODULE EPoller -------------------------------
(***************************************************************************)
(* muduo/EPoller.{h,cpp}, the epoll(4) alternative to Poller, with the     *)
(* part of muduo/Channel.{h,cpp} that registers interest.  index_ of a     *)
(* channel says whether the kernel knows it: kNew, kAdded or kDeleted.     *)
(*                                                                         *)
(* A channel is named by its descriptor; the callers behave as described   *)
(* in module Poller.                                                       *)
(***************************************************************************)
EXTENDS Integers, FiniteSets

CONSTANTS Fds, kInitEventListSize

VARIABLES
    events,         \* Channel::events_, per channel
    index,          \* Channel::index_, per channel
    channels,       \* channels_, as the set of its descriptors
    watched,        \* the kernel's interest list: descriptor -> events
    fatal,          \* an epoll_ctl failed with LOG_SYSFATAL
    listSize,       \* events_.size()
    activeChannels  \* the channels the last poll() reported

vars == <<events, index, channels, watched, fatal, listSize, activeChannels>>

Events == {"in", "out"}
kNew == -1
kAdded == 1
kDeleted == 2

-----------------------------------------------------------------------------
Init ==
    /\ events = [c \in Fds |-> {}]
    /\ index = [c \in Fds |-> kNew]
    /\ channels = {}
    /\ watched = [c \in {} |-> {}]
    /\ fatal = FALSE
    /\ listSize = kInitEventListSize
    /\ activeChannels = {}

\* External: epoll_ctl.  Adding what is there or changing what is not fails.
CtlFails(op, c) == IF op = "ADD" THEN c \in DOMAIN watched ELSE c \notin DOMAIN watched
Ctl(op, c, evts) ==
    [d \in IF op = "DEL" THEN DOMAIN watched \ {c} ELSE DOMAIN watched \cup {c} |->
        IF d = c THEN evts ELSE watched[d]]

\* EPoller::update: a failed DEL is only logged.
Update(op, c, evts) ==
    /\ watched' = IF CtlFails(op, c) THEN watched ELSE Ctl(op, c, evts)
    /\ fatal' = (fatal \/ (op # "DEL" /\ CtlFails(op, c)))

\* Mutant: a deleted channel is taken for an added one.
OpForKeepsDeleted(c, evts) ==
    IF index[c] = kNew THEN "ADD" ELSE IF evts = {} THEN "DEL" ELSE "MOD"

\* The operation updateChannel chooses.
OpFor(c, evts) ==
    IF index[c] # kAdded THEN "ADD" ELSE IF evts = {} THEN "DEL" ELSE "MOD"

\* Channel::update() with the new set of events: EPoller::updateChannel.
UpdateChannel(c, evts) ==
    /\ events' = [events EXCEPT ![c] = evts]
    /\ Update(OpFor(c, evts), c, evts)
    /\ index' = [index EXCEPT ![c] = IF OpFor(c, evts) = "DEL" THEN kDeleted ELSE kAdded]
    /\ channels' = channels \cup {c}
    /\ UNCHANGED <<listSize, activeChannels>>

EnableReading(c) == UpdateChannel(c, events[c] \cup {"in"})
EnableWriting(c) == UpdateChannel(c, events[c] \cup {"out"})

\* Events are disabled where some are enabled (a channel that wants none is
\* only disabled again in the call that removes it, see DisableAllAndRemove).
DisableWriting(c) == events[c] # {} /\ UpdateChannel(c, events[c] \ {"out"})
DisableAll(c) == events[c] # {} /\ UpdateChannel(c, {})

\* removeChannel of a channel without events, which is then destroyed.
RemoveChannel(c) ==
    /\ c \in channels
    /\ events[c] = {}
    /\ channels' = channels \ {c}
    /\ IF index[c] = kAdded THEN Update("DEL", c, {}) ELSE UNCHANGED <<watched, fatal>>
    /\ index' = [index EXCEPT ![c] = kNew]
    /\ UNCHANGED <<events, listSize, activeChannels>>

\* TcpConnection::connectDestroyed and Connector::removeAndResetChannel call
\* disableAll and removeChannel in a row.  On a channel that is already
\* disabled the first adds it to the kernel's list without events and the
\* second takes it out; otherwise the first takes it out.
DisableAllAndRemove(c) ==
    /\ c \in channels
    /\ IF OpFor(c, {}) = "ADD"
         THEN /\ watched' = [d \in DOMAIN watched \ {c} |-> watched[d]]
              /\ fatal' = (fatal \/ CtlFails("ADD", c))
         ELSE Update("DEL", c, {})
    /\ events' = [events EXCEPT ![c] = {}]
    /\ index' = [index EXCEPT ![c] = kNew]
    /\ channels' = channels \ {c}
    /\ UNCHANGED <<listSize, activeChannels>>

\* poll(): the kernel fills at most listSize slots from the watched
\* descriptors that have an event, or an error nobody asked for; a full list
\* is doubled.
Poll ==
    /\ \E ready \in SUBSET DOMAIN watched :
          /\ Cardinality(ready) <= listSize
          /\ activeChannels' = ready
          /\ listSize' = IF Cardinality(ready) = listSize THEN 2 * listSize ELSE listSize
    /\ UNCHANGED <<events, index, channels, watched, fatal>>

Next ==
    \/ Poll
    \/ \E c \in Fds :
          \/ EnableReading(c) \/ EnableWriting(c) \/ DisableWriting(c)
          \/ DisableAll(c) \/ RemoveChannel(c) \/ DisableAllAndRemove(c)

-----------------------------------------------------------------------------
\* After every call the kernel watches exactly the channels that want events,
\* and each for the events it wants, also when events are disabled, enabled
\* again and the channel is replaced: poll() reports no channel that was
\* removed, as fillActiveChannels asserts, or that wants nothing.  On the way
\* updateChannel has chosen operations the kernel accepts, so that LOG_SYSFATAL
\* is not reached, and the list has room for an event.
KernelWatchesInterest ==
    /\ DOMAIN watched = {c \in channels : events[c] # {}}
    /\ \A c \in DOMAIN watched : watched[c] = events[c]
    /\ ~fatal
    /\ listSize >= kInitEventListSize

=============================================================================
