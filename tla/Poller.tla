------------------------------ MODULE Poller --------------------------------
(***************************************************************************)
(* muduo/Poller.{h,cpp}, with the part of muduo/Channel.{h,cpp} that       *)
(* registers interest: a Channel keeps the events it wants and its index   *)
(* in the array handed to poll(2); Poller keeps that array and the map     *)
(* from descriptors to channels.  A channel that wants nothing keeps its   *)
(* place, with the descriptor replaced by -fd-1, which poll(2) skips.      *)
(*                                                                         *)
(* A channel is named by its descriptor.  Everything runs in the loop      *)
(* thread; the callers obey Poller.h and remove a channel only when it     *)
(* destructs, after which the descriptor may get a new Channel object.     *)
(***************************************************************************)
EXTENDS Integers, Sequences

CONSTANT Fds
ASSUME FdsAssumption == Fds \subseteq Nat

VARIABLES
    events,         \* Channel::events_, per channel
    index,          \* Channel::index_, per channel
    pollFdList,     \* the array of poll(2), positions from 1
    channelMap,     \* the descriptors that have an entry in channelMap
    activeChannels  \* the channels the last poll() reported

vars == <<events, index, pollFdList, channelMap, activeChannels>>

Events == {"in", "out"}
PollFd == [fd : Int, events : SUBSET Events]

\* The descriptor stored for a channel that wants no event: 0 must change too.
Ignored(fd) == -fd - 1

-----------------------------------------------------------------------------
Init ==
    /\ events = [c \in Fds |-> {}]
    /\ index = [c \in Fds |-> -1]
    /\ pollFdList = <<>>
    /\ channelMap = {}
    /\ activeChannels = {}

\* Mutant: a channel without events is left to poll(2).
UpdatedPollFdNeverIgnored(pfd, c, evts) == [fd |-> pfd.fd, events |-> evts]

\* updateChannel on a channel that has an entry.  The descriptor is negated
\* when no event is left, and not restored when events come back.
UpdatedPollFd(pfd, c, evts) ==
    [fd |-> IF evts = {} THEN Ignored(c) ELSE pfd.fd, events |-> evts]

\* Channel::update() with the new set of events: Poller::updateChannel.
UpdateChannel(c, evts) ==
    /\ events' = [events EXCEPT ![c] = evts]
    /\ IF index[c] < 0
         THEN /\ pollFdList' = Append(pollFdList, [fd |-> c, events |-> evts])
              /\ index' = [index EXCEPT ![c] = Len(pollFdList)]
              /\ channelMap' = channelMap \cup {c}
         ELSE /\ pollFdList' = [pollFdList EXCEPT ![index[c] + 1] =
                                    UpdatedPollFd(@, c, evts)]
              /\ UNCHANGED <<index, channelMap>>
    /\ UNCHANGED activeChannels

\* A channel that was never enabled, or has its entry.
Enable(c) == index[c] < 0 \/ c \in channelMap
EnableReading(c) == Enable(c) /\ UpdateChannel(c, events[c] \cup {"in"})
EnableWriting(c) == Enable(c) /\ UpdateChannel(c, events[c] \cup {"out"})

\* Every user of a channel enables it before it disables it.
DisableWriting(c) == c \in channelMap /\ UpdateChannel(c, events[c] \ {"out"})
DisableAll(c) == c \in channelMap /\ UpdateChannel(c, {})

\* The descriptor of an entry, ignored or not.
FdOf(pfd) == IF pfd.fd < 0 THEN -pfd.fd - 1 ELSE pfd.fd

\* Mutant: the moved entry is taken for a live one.
MovedFdRaw(pfd) == IF pfd.fd < 0 THEN -pfd.fd ELSE pfd.fd

\* The channel whose entry takes the place of the removed one.
MovedFd(pfd) == FdOf(pfd)

\* removeChannel of a channel without events: its entry is swapped with the
\* last one, whose channel learns its new index.  The removed channel keeps
\* its stale index.
RemoveChannel(c) ==
    LET idx == index[c] + 1
        last == Len(pollFdList)
        moved == MovedFd(pollFdList[last])
    IN  /\ c \in channelMap
        /\ events[c] = {}
        /\ channelMap' = channelMap \ {c}
        /\ pollFdList' = [i \in 1 .. last - 1 |->
                             IF i = idx THEN pollFdList[last] ELSE pollFdList[i]]
        /\ index' = IF idx = last THEN index
                    ELSE [index EXCEPT ![moved] = idx - 1]
        /\ UNCHANGED <<events, activeChannels>>

\* The removed Channel is destroyed and one for the same descriptor made.
NewChannel(c) ==
    /\ c \notin channelMap
    /\ index[c] >= 0
    /\ index' = [index EXCEPT ![c] = -1]
    /\ events' = [events EXCEPT ![c] = {}]
    /\ UNCHANGED <<pollFdList, channelMap, activeChannels>>

\* poll() and fillActiveChannels: an entry with a negative descriptor is
\* skipped; any other may report an event, or an error it was not asked for.
Poll ==
    /\ \E ready \in SUBSET (1 .. Len(pollFdList)) :
          activeChannels' = {pollFdList[i].fd : i \in {j \in ready : pollFdList[j].fd >= 0}}
    /\ UNCHANGED <<events, index, pollFdList, channelMap>>

Next ==
    \/ Poll
    \/ \E c \in Fds :
          \/ EnableReading(c) \/ EnableWriting(c) \/ DisableWriting(c)
          \/ DisableAll(c) \/ RemoveChannel(c) \/ NewChannel(c)

Spec == Init /\ [][Next]_vars

-----------------------------------------------------------------------------
\* The values the fields of Channel and Poller take.
TypeOK ==
    /\ events \in [Fds -> SUBSET Events]
    /\ index \in [Fds -> Int]
    /\ pollFdList \in Seq(PollFd)
    /\ channelMap \subseteq Fds
    /\ activeChannels \subseteq Fds

\* Whatever is registered, updated and removed in whatever order, every
\* channel of the map finds its own entry at its index, with the events it
\* asked for, ignored if there are none, and every entry belongs to such a
\* channel: the assertions of updateChannel, removeChannel and
\* fillActiveChannels hold.
EntriesMatchChannels ==
    /\ \A c \in channelMap :
          /\ index[c] + 1 \in DOMAIN pollFdList
          /\ FdOf(pollFdList[index[c] + 1]) = c
          /\ pollFdList[index[c] + 1].events = events[c]
          /\ events[c] = {} => pollFdList[index[c] + 1].fd = Ignored(c)
    /\ \A i \in DOMAIN pollFdList :
          FdOf(pollFdList[i]) \in channelMap /\ index[FdOf(pollFdList[i])] = i - 1

\* poll() never reports a channel that has disabled all its events, not even
\* for an error or a hang-up.
NothingUnwanted ==
    [][activeChannels' # activeChannels =>
          \A c \in activeChannels' : c \in channelMap /\ events[c] # {}]_vars

\* What updateChannel is for: a channel that wants events is watched.
InterestIsWatched ==
    \A c \in channelMap : events[c] # {} => pollFdList[index[c] + 1].fd = c

=============================================================================
