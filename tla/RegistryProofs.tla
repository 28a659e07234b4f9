-------------------------- MODULE RegistryProofs ---------------------------
(***************************************************************************)
(* Poller and EPoller for any set of descriptors: the array of poll(2),    *)
(* or the kernel's interest list, the map and the indices kept in the      *)
(* channels agree after every sequence of registrations, updates and       *)
(* removals.  The Signal for any slots and any number of calling threads:  *)
(* a call runs what is connected, and the list of slots is kept clean.     *)
(***************************************************************************)
EXTENDS MCRegistries, TLAPS

\* The inductive invariant: the property itself, on typed state, with indices
\* never below -1 and none for a channel that has no entry yet.
IInv ==
    /\ TypeOK
    /\ EntriesMatchChannels
    /\ \A c \in Fds : index[c] >= -1 /\ (c \in channelMap => index[c] >= 0)

LEMMA ElementIn ==
    ASSUME NEW T, NEW seq \in Seq(T), NEW k \in 1 .. Len(seq)
    PROVE  seq[k] \in T
OBVIOUS

LEMMA ExceptIn ==
    ASSUME NEW T, NEW seq \in Seq(T), NEW k \in 1 .. Len(seq), NEW e \in T
    PROVE  /\ [seq EXCEPT ![k] = e] \in Seq(T)
           /\ DOMAIN [seq EXCEPT ![k] = e] = DOMAIN seq
           /\ \A i \in DOMAIN seq : [seq EXCEPT ![k] = e][i] = IF i = k THEN e ELSE seq[i]
OBVIOUS

LEMMA InitIInv == Init => IInv
<1> SUFFICES ASSUME Init PROVE IInv
  BY Zenon
<1>1. <<>> \in Seq(PollFd) /\ DOMAIN pollFdList = {}
  BY DEF Init
<1>2. TypeOK
  BY <1>1 DEF Init, TypeOK
<1> QED BY <1>1, <1>2 DEF Init, IInv, EntriesMatchChannels

\* A call of updateChannel, on a new channel or on one that has its entry.
LEMMA UpdateStep ==
    ASSUME IInv, NEW c \in Fds, NEW evts \in SUBSET Events,
           index[c] < 0 \/ c \in channelMap,
           index[c] < 0 => evts # {},
           UpdateChannel(c, evts)
    PROVE  IInv'
<1> USE FdsAssumption DEF IInv, TypeOK, EntriesMatchChannels, FdOf, Ignored, PollFd
<1>a. /\ events' = [events EXCEPT ![c] = evts]
      /\ events' \in [Fds -> SUBSET Events]
      /\ activeChannels' = activeChannels
  BY Zenon DEF UpdateChannel
<1>1. CASE index[c] < 0
  <2> DEFINE pfd == [fd |-> c, events |-> evts]
  <2>1. /\ pollFdList' = Append(pollFdList, pfd)
        /\ index' = [index EXCEPT ![c] = Len(pollFdList)]
        /\ channelMap' = channelMap \cup {c}
    BY <1>1, Zenon DEF UpdateChannel
  <2>2. pfd \in PollFd /\ c \notin channelMap
    BY <1>1
  <2>3. /\ pollFdList' \in Seq(PollFd)
        /\ Len(pollFdList') = Len(pollFdList) + 1
        /\ \A i \in 1 .. Len(pollFdList) : pollFdList'[i] = pollFdList[i]
        /\ pollFdList'[Len(pollFdList) + 1] = pfd
    <3> HIDE DEF pfd
    <3> QED BY <2>1, <2>2
  <2>4. /\ DOMAIN pollFdList = 1 .. Len(pollFdList)
        /\ DOMAIN pollFdList' = 1 .. Len(pollFdList) + 1
        /\ Len(pollFdList) \in Nat
    BY <2>3
  <2>5. TypeOK'
    <3>1. index' \in [Fds -> Int] /\ channelMap' \subseteq Fds /\ activeChannels' \subseteq Fds
      BY <1>a, <2>1, <2>4
    <3> QED BY <3>1, <1>a, <2>3, Zenon
  <2>6. ASSUME NEW d \in channelMap'
        PROVE /\ index'[d] + 1 \in DOMAIN pollFdList'
              /\ FdOf(pollFdList'[index'[d] + 1]) = d
              /\ pollFdList'[index'[d] + 1].events = events'[d]
              /\ events'[d] = {} => pollFdList'[index'[d] + 1].fd = Ignored(d)
              /\ index'[d] >= 0
    <3>1. CASE d = c
      BY <3>1, <1>a, <1>1, <2>1, <2>3, <2>4
    <3>2. CASE d # c
      <4>1. d \in channelMap /\ index'[d] = index[d] /\ events'[d] = events[d]
        BY <3>2, <2>1, <1>a, Zenon
      <4>2. pollFdList'[index[d] + 1] = pollFdList[index[d] + 1]
        BY <4>1, <2>3, <2>4, Zenon
      <4> QED BY <4>1, <4>2, <2>4
    <3> QED BY <3>1, <3>2, Zenon
  <2>7. ASSUME NEW i \in DOMAIN pollFdList'
        PROVE FdOf(pollFdList'[i]) \in channelMap' /\ index'[FdOf(pollFdList'[i])] = i - 1
    <3>1. CASE i = Len(pollFdList) + 1
      BY <3>1, <2>1, <2>3, <2>4
    <3>2. CASE i \in 1 .. Len(pollFdList)
      BY <3>2, <2>1, <2>2, <2>3, <2>4
    <3> QED BY <3>1, <3>2, <2>4
  <2>8. \A d \in Fds : index'[d] >= -1
    BY <2>1, <2>4
  <2> QED BY <2>5, <2>6, <2>7, <2>8, Zenon
<1>2. CASE c \in channelMap
  <2> DEFINE k == index[c] + 1
             pfd == UpdatedPollFd(pollFdList[k], c, evts)
  <2>1. /\ pollFdList' = [pollFdList EXCEPT ![k] = pfd]
        /\ index' = index
        /\ channelMap' = channelMap
    BY <1>2 DEF UpdateChannel
  <2>2. DOMAIN pollFdList = 1 .. Len(pollFdList) /\ k \in 1 .. Len(pollFdList)
    BY <1>2
  <2>3. /\ pfd \in PollFd
        /\ FdOf(pfd) = c
        /\ pfd.events = evts
        /\ evts = {} => pfd.fd = Ignored(c)
    <3>1. pollFdList[k] \in PollFd
      BY <2>2, ElementIn, Zenon
    <3>2. FdOf(pollFdList[k]) = c
      BY <1>2, Zenon
    <3> QED BY <3>2, <3>1 DEF UpdatedPollFd
  <2> HIDE DEF pfd
  <2>4. /\ pollFdList' \in Seq(PollFd)
        /\ DOMAIN pollFdList' = DOMAIN pollFdList
        /\ \A i \in DOMAIN pollFdList :
              pollFdList'[i] = IF i = k THEN pfd ELSE pollFdList[i]
    <3> HIDE DEF PollFd, k
    <3> QED BY <2>1, <2>2, <2>3, ExceptIn, Zenon
  <2>5. \A d \in channelMap : d # c => index[d] # index[c]
    <3>1. \A d \in channelMap : FdOf(pollFdList[index[d] + 1]) = d
      BY Zenon
    <3> HIDE DEF FdOf
    <3> QED BY <1>2, <3>1, Zenon
  <2>6. TypeOK'
    BY <1>a, <2>1, <2>4, Zenon
  <2>7. ASSUME NEW d \in channelMap'
        PROVE /\ index'[d] + 1 \in DOMAIN pollFdList'
              /\ FdOf(pollFdList'[index'[d] + 1]) = d
              /\ pollFdList'[index'[d] + 1].events = events'[d]
              /\ events'[d] = {} => pollFdList'[index'[d] + 1].fd = Ignored(d)
    <3>1. CASE d = c
      BY <3>1, <1>a, <2>1, <2>2, <2>3, <2>4, Zenon
    <3>2. CASE d # c
      <4>1. /\ d \in channelMap /\ index'[d] = index[d] /\ events'[d] = events[d]
            /\ index[d] + 1 \in DOMAIN pollFdList /\ index[d] + 1 # k
        BY <3>2, <1>a, <2>1, <2>5
      <4>2. pollFdList'[index[d] + 1] = pollFdList[index[d] + 1]
        BY <4>1, <2>4, Zenon
      <4>3. /\ FdOf(pollFdList[index[d] + 1]) = d
            /\ pollFdList[index[d] + 1].events = events[d]
            /\ events[d] = {} => pollFdList[index[d] + 1].fd = Ignored(d)
        BY <4>1, Zenon
      <4> HIDE DEF IInv, TypeOK, EntriesMatchChannels, FdOf, Ignored, PollFd
      <4> QED BY <4>1, <4>2, <4>3, <2>4, Zenon
    <3> QED BY <3>1, <3>2, Zenon
  <2>8. ASSUME NEW i \in DOMAIN pollFdList'
        PROVE FdOf(pollFdList'[i]) \in channelMap' /\ index'[FdOf(pollFdList'[i])] = i - 1
    <3>1. CASE i = k
      BY <3>1, <1>2, <2>1, <2>2, <2>3, <2>4
    <3>2. CASE i # k
      BY <3>2, <2>1, <2>4, Zenon
    <3> QED BY <3>1, <3>2, Zenon
  <2> QED BY <2>1, <2>6, <2>7, <2>8, Zenon
<1> QED BY <1>1, <1>2, Zenon

\* A removal: the last entry moves into the gap and its channel is told.
LEMMA RemoveStep ==
    ASSUME IInv, NEW c \in Fds, RemoveChannel(c)
    PROVE  IInv'
<1> DEFINE idx == index[c] + 1
           last == Len(pollFdList)
           moved == MovedFd(pollFdList[last])
<1>1. /\ c \in channelMap /\ events[c] = {}
      /\ channelMap' = channelMap \ {c}
      /\ pollFdList' = [i \in 1 .. last - 1 |->
                           IF i = idx THEN pollFdList[last] ELSE pollFdList[i]]
      /\ index' = IF idx = last THEN index ELSE [index EXCEPT ![moved] = idx - 1]
      /\ events' = events /\ activeChannels' = activeChannels
  BY Zenon DEF RemoveChannel
<1>2. /\ DOMAIN pollFdList = 1 .. last /\ last \in Nat
      /\ pollFdList \in [1 .. last -> PollFd]
      /\ index \in [Fds -> Int] /\ channelMap \subseteq Fds
      /\ \A d \in Fds : index[d] >= -1
  BY DEF IInv, TypeOK
\* The invariant, with what it says of an entry left unexpanded.
<1> DEFINE Matches(d, pfd) == /\ FdOf(pfd) = d
                              /\ pfd.events = events[d]
                              /\ events[d] = {} => pfd.fd = Ignored(d)
<1>3. \A d \in channelMap : index[d] + 1 \in 1 .. last /\ Matches(d, pollFdList[index[d] + 1])
  BY <1>2, Zenon DEF IInv, EntriesMatchChannels
<1>4. \A i \in 1 .. last :
         FdOf(pollFdList[i]) \in channelMap /\ index[FdOf(pollFdList[i])] = i - 1
  BY <1>2, Zenon DEF IInv, EntriesMatchChannels
<1>5. \A d \in channelMap : FdOf(pollFdList[index[d] + 1]) = d
  BY <1>3, Zenon
<1> HIDE DEF Matches
<1>6. idx \in 1 .. last /\ last \in 1 .. last
  BY <1>1, <1>2, <1>3
<1>7. moved \in channelMap /\ index[moved] = last - 1 /\ moved = FdOf(pollFdList[last])
  BY <1>4, <1>6, Zenon DEF MovedFd
<1> HIDE DEF moved
<1>8. index' \in [Fds -> Int]
  BY <1>1, <1>2, <1>6, <1>7
<1>9. /\ DOMAIN pollFdList' = 1 .. last - 1
      /\ pollFdList' \in [1 .. last - 1 -> PollFd]
      /\ \A i \in 1 .. last - 1 :
            pollFdList'[i] = IF i = idx THEN pollFdList[last] ELSE pollFdList[i]
  BY <1>1, <1>2, <1>6
<1> HIDE DEF last
<1>10. pollFdList' \in Seq(PollFd)
  <2>1. last - 1 \in Nat
    BY <1>2, <1>6
  <2> QED BY <2>1, <1>9
<1>11. \A d \in Fds : index'[d] = IF idx # last /\ d = moved THEN idx - 1 ELSE index[d]
  BY <1>1, <1>2, <1>7, Zenon
<1>12. \A d \in channelMap : d # c => index[d] # index[c]
  BY <1>1, <1>5, Zenon
<1>13. ASSUME NEW d \in channelMap'
       PROVE  index'[d] + 1 \in 1 .. last - 1 /\ Matches(d, pollFdList'[index'[d] + 1])
  <2>1. d \in channelMap /\ d # c /\ d \in Fds /\ index[d] # index[c]
    BY <1>1, <1>2, <1>12, <1>13, Zenon
  <2>2. index[d] \in Int /\ index[c] \in Int /\ index[d] + 1 \in 1 .. last
    BY <1>1, <1>2, <1>3, <2>1, Zenon
  <2>3. CASE d = moved
    <3>1. idx # last /\ idx \in 1 .. last - 1
      BY <1>2, <1>6, <1>7, <2>1, <2>2, <2>3
    <3>2. index'[d] + 1 = idx /\ pollFdList'[idx] = pollFdList[last] /\ last = index[d] + 1
      BY <1>2, <1>7, <1>9, <1>11, <2>1, <2>2, <2>3, <3>1
    <3> QED BY <1>3, <2>1, <3>1, <3>2, Zenon
  <2>4. CASE d # moved
    <3>1. index'[d] = index[d]
      BY <1>11, <2>1, <2>4, Zenon
    <3>2. index[d] + 1 # last
      BY <1>3, <1>5, <1>7, <2>1, <2>4, Zenon
    <3>3. index[d] + 1 \in 1 .. last - 1
      BY <1>2, <2>2, <3>2
    <3>4. pollFdList'[index[d] + 1] = pollFdList[index[d] + 1]
      BY <1>9, <2>1, <2>2, <3>3
    <3> QED BY <1>3, <2>1, <3>1, <3>3, <3>4, Zenon
  <2> QED BY <2>3, <2>4, Zenon
<1>14. ASSUME NEW i \in 1 .. last - 1
       PROVE  FdOf(pollFdList'[i]) \in channelMap' /\ index'[FdOf(pollFdList'[i])] = i - 1
  <2>1. i \in 1 .. last /\ i # last
    BY <1>2, <1>14
  <2>2. CASE i = idx
    <3>1. pollFdList'[i] = pollFdList[last] /\ idx # last
      BY <1>9, <2>1, <2>2, Zenon
    <3>2. moved # c
      BY <1>1, <1>2, <1>7, <3>1
    <3> QED BY <1>1, <1>2, <1>7, <1>11, <2>2, <3>1, <3>2, Zenon
  <2>3. CASE i # idx
    <3> DEFINE d == FdOf(pollFdList[i])
    <3>1. pollFdList'[i] = pollFdList[i] /\ d \in channelMap /\ index[d] = i - 1
      BY <1>4, <1>9, <2>1, <2>3, Zenon
    <3> HIDE DEF d
    <3>2. d # c /\ d # moved /\ d \in Fds
      <4>1. index[c] # i - 1 /\ index[moved] # i - 1
        BY <1>1, <1>2, <1>7, <2>1, <2>3
      <4> QED BY <1>2, <3>1, <4>1, Zenon
    <3>3. d \in channelMap' /\ index'[d] = i - 1
      BY <1>1, <1>11, <3>1, <3>2, Zenon
    <3> QED BY <3>1, <3>3, Zenon DEF d
  <2> QED BY <2>2, <2>3, Zenon
<1>15. TypeOK'
  BY <1>1, <1>8, <1>10, Zenon DEF IInv, TypeOK
<1>16. EntriesMatchChannels'
  <2>1. \A i \in DOMAIN pollFdList' :
           FdOf(pollFdList'[i]) \in channelMap' /\ index'[FdOf(pollFdList'[i])] = i - 1
    BY <1>9, <1>14, Zenon
  <2>2. \A d \in channelMap' :
           /\ index'[d] + 1 \in DOMAIN pollFdList'
           /\ FdOf(pollFdList'[index'[d] + 1]) = d
           /\ pollFdList'[index'[d] + 1].events = events'[d]
           /\ events'[d] = {} => pollFdList'[index'[d] + 1].fd = Ignored(d)
    BY <1>1, <1>9, <1>13, Zenon DEF Matches
  <2> QED BY <2>1, <2>2, Zenon DEF EntriesMatchChannels
<1>17. \A d \in Fds : index'[d] >= -1 /\ (d \in channelMap' => index'[d] >= 0)
  BY <1>2, <1>6, <1>8, <1>11, <1>13
<1> QED BY <1>15, <1>16, <1>17, Zenon DEF IInv

-----------------------------------------------------------------------------
\* An entry that poll(2) looks at belongs to a channel that wants events.
LEMMA LiveEntriesWanted ==
    ASSUME IInv, NEW i \in DOMAIN pollFdList, pollFdList[i].fd >= 0
    PROVE  pollFdList[i].fd \in channelMap /\ events[pollFdList[i].fd] # {}
<1> DEFINE d == pollFdList[i].fd
<1>1. pollFdList \in Seq(PollFd) /\ DOMAIN pollFdList = 1 .. Len(pollFdList)
  BY DEF IInv, TypeOK
<1>2. i \in Int /\ pollFdList[i] \in PollFd
  BY <1>1
<1>3. FdOf(pollFdList[i]) = d
  BY <1>2 DEF FdOf, PollFd
<1>4. d \in channelMap /\ index[d] = i - 1
  BY <1>3, Zenon DEF IInv, EntriesMatchChannels
<1> HIDE DEF d
<1>5. index[d] + 1 = i /\ d \in Nat
  <2>1. index[d] + 1 = i
    BY <1>2, <1>4
  <2>2. d \in Nat
    BY <1>4, FdsAssumption, Zenon DEF IInv, TypeOK
  <2> QED BY <2>1, <2>2, Zenon
<1>6. events[d] = {} => d = Ignored(d)
  BY <1>4, <1>5, Zenon DEF IInv, EntriesMatchChannels, d
<1>7. events[d] # {}
  BY <1>5, <1>6 DEF Ignored
<1> QED BY <1>4, <1>7, Zenon DEF d

LEMMA NextIInv == IInv /\ [Next]_vars => IInv'
<1> SUFFICES ASSUME IInv, [Next]_vars PROVE IInv'
  BY Zenon
<1>1. ASSUME NEW c \in Fds, EnableReading(c) PROVE IInv'
  BY <1>1, UpdateStep, Zenon DEF EnableReading, Enable, IInv, TypeOK, Events
<1>2. ASSUME NEW c \in Fds, EnableWriting(c) PROVE IInv'
  BY <1>2, UpdateStep, Zenon DEF EnableWriting, Enable, IInv, TypeOK, Events
<1>3. ASSUME NEW c \in Fds, DisableWriting(c) PROVE IInv'
  <2>1. events[c] \ {"out"} \in SUBSET Events /\ ~(index[c] < 0)
    BY <1>3 DEF DisableWriting, IInv, TypeOK
  <2> QED BY <1>3, <2>1, UpdateStep, Zenon DEF DisableWriting
<1>4. ASSUME NEW c \in Fds, DisableAll(c) PROVE IInv'
  <2>1. {} \in SUBSET Events /\ ~(index[c] < 0)
    BY <1>4 DEF DisableAll, IInv, TypeOK
  <2> QED BY <1>4, <2>1, UpdateStep, Zenon DEF DisableAll
<1>5. ASSUME NEW c \in Fds, RemoveChannel(c) PROVE IInv'
  BY <1>5, RemoveStep, Zenon
<1>6. ASSUME NEW c \in Fds, NewChannel(c) PROVE IInv'
  <2>1. \A d \in channelMap : index'[d] = index[d] /\ events'[d] = events[d]
    BY <1>6, Zenon DEF NewChannel, IInv, TypeOK
  <2>2. TypeOK'
    BY <1>6 DEF NewChannel, IInv, TypeOK
  <2>3. pollFdList' = pollFdList /\ channelMap' = channelMap
    BY <1>6, Zenon DEF NewChannel
  <2>4. \A d \in Fds : index'[d] >= -1
    BY <1>6 DEF NewChannel, IInv, TypeOK
  <2>5. EntriesMatchChannels'
    BY <2>1, <2>3 DEF IInv, EntriesMatchChannels, FdOf, Ignored
  <2> QED BY <2>1, <2>2, <2>3, <2>4, <2>5, Zenon DEF IInv, TypeOK
<1>7. CASE Poll
  <2>1. activeChannels' \subseteq Fds
    BY <1>7, LiveEntriesWanted DEF Poll, IInv, TypeOK
  <2> QED BY <1>7, <2>1, Zenon DEF Poll, IInv, TypeOK, EntriesMatchChannels, FdOf, Ignored
<1>8. CASE UNCHANGED vars
  BY <1>8, Zenon DEF vars, IInv, TypeOK, EntriesMatchChannels, FdOf, Ignored
<1> QED
  BY <1>1, <1>2, <1>3, <1>4, <1>5, <1>6, <1>7, <1>8, Zenon DEF Next

THEOREM Invariance == Spec => []IInv
BY InitIInv, NextIInv, PTL DEF Spec

\* Channel and Poller fields always have their types.
THEOREM TypeCorrect == Spec => []TypeOK
<1>1. IInv => TypeOK
  BY Zenon DEF IInv
<1> QED BY Invariance, <1>1, PTL

\* The assertions of updateChannel, removeChannel and fillActiveChannels hold
\* after any sequence of calls on any number of channels.
THEOREM EntriesCorrect == Spec => []EntriesMatchChannels
<1>1. IInv => EntriesMatchChannels
  BY Zenon DEF IInv
<1> QED BY Invariance, <1>1, PTL

\* poll() reports registered channels that want events and no others.
THEOREM OnlyWantedReported == Spec => NothingUnwanted
<1>1. IInv /\ [Next]_vars =>
        [activeChannels' # activeChannels =>
            \A c \in activeChannels' : c \in channelMap /\ events[c] # {}]_vars
  <2> SUFFICES ASSUME IInv, Next, activeChannels' # activeChannels, NEW c \in activeChannels'
               PROVE  c \in channelMap /\ events[c] # {}
    BY Zenon
  <2>1. Poll
    BY Zenon DEF Next, EnableReading, EnableWriting, DisableWriting, DisableAll,
           UpdateChannel, RemoveChannel, NewChannel
  <2> QED BY <2>1, LiveEntriesWanted DEF Poll, IInv, TypeOK
<1> QED BY Invariance, <1>1, PTL DEF Spec, NothingUnwanted

-----------------------------------------------------------------------------
(* EPoller.                                                                *)

\* The inductive invariant of EPoller: index_ says whether the channel is in the map
\* (not kNew) and whether the kernel knows it (kAdded), which it does of those that
\* want events.
EPollerInv ==
    /\ epEvents \in [Fds -> SUBSET Events]
    /\ epIndex \in [Fds -> {E!kNew, E!kAdded, E!kDeleted}]
    /\ listSize \in Nat
    /\ channels = {c \in Fds : epIndex[c] # E!kNew}
    /\ \A c \in Fds : epIndex[c] = E!kAdded <=> epEvents[c] # {}
    /\ KernelWatchesInterest

\* What the kernel watches, in terms of the index.
LEMMA KernelKnows ==
    ASSUME EPollerInv, NEW c \in Fds
    PROVE  c \in DOMAIN watched <=> epIndex[c] = E!kAdded
BY DEF EPollerInv, KernelWatchesInterest, E!KernelWatchesInterest, E!kNew, E!kAdded

LEMMA EPollerInit == E!Init => EPollerInv
<1> SUFFICES ASSUME E!Init PROVE EPollerInv
  BY Zenon
<1>1. listSize \in Nat /\ listSize >= kInitEventListSize
  BY ListSizeAssumption DEF E!Init
<1>2. DOMAIN watched = {}
  BY Zenon DEF E!Init
<1> QED BY <1>1, <1>2 DEF E!Init, EPollerInv, KernelWatchesInterest, E!KernelWatchesInterest,
                          E!kNew, E!kAdded, E!kDeleted, Events

\* updateChannel: events are enabled, or some of a channel that has events disabled.
LEMMA EPollerUpdateStep ==
    ASSUME EPollerInv, NEW c \in Fds, NEW evts \in SUBSET Events, E!UpdateChannel(c, evts),
           evts # {} \/ epEvents[c] # {}
    PROVE  EPollerInv'
<1> USE DEF E!kNew, E!kAdded, E!kDeleted
<1>1. /\ epEvents' = [epEvents EXCEPT ![c] = evts]
      /\ epIndex' = [epIndex EXCEPT ![c] = IF evts = {} THEN E!kDeleted ELSE E!kAdded]
      /\ channels' = channels \cup {c}
      /\ listSize' = listSize
  BY Zenon DEF E!UpdateChannel, E!OpFor, EPollerInv
<1>2. /\ DOMAIN watched' = IF evts = {} THEN DOMAIN watched \ {c} ELSE DOMAIN watched \cup {c}
      /\ \A d \in DOMAIN watched' : watched'[d] = IF d = c THEN evts ELSE watched[d]
      /\ ~fatal'
  <2>1. ~fatal
    BY Zenon DEF EPollerInv, KernelWatchesInterest, E!KernelWatchesInterest
  <2>2. CASE epIndex[c] = E!kAdded
    <3>1. c \in DOMAIN watched
      BY <2>2, KernelKnows, Zenon
    <3> QED BY <2>1, <2>2, <3>1, Zenon DEF E!UpdateChannel, E!Update, E!CtlFails, E!Ctl, E!OpFor
  <2>3. CASE epIndex[c] # E!kAdded
    <3>1. c \notin DOMAIN watched /\ evts # {}
      BY <2>3, KernelKnows, Zenon DEF EPollerInv
    <3> QED BY <2>1, <2>3, <3>1, Zenon DEF E!UpdateChannel, E!Update, E!CtlFails, E!Ctl, E!OpFor
  <2> QED BY <2>2, <2>3, Zenon
<1>3. /\ epEvents' \in [Fds -> SUBSET Events]
      /\ epIndex' \in [Fds -> {E!kNew, E!kAdded, E!kDeleted}]
      /\ listSize' \in Nat /\ listSize' >= kInitEventListSize
      /\ channels' = {d \in Fds : epIndex'[d] # E!kNew}
      /\ \A d \in Fds : epIndex'[d] = E!kAdded <=> epEvents'[d] # {}
  BY <1>1 DEF EPollerInv, KernelWatchesInterest, E!KernelWatchesInterest
<1>4. DOMAIN watched' = {d \in channels' : epEvents'[d] # {}}
  BY <1>1, <1>2 DEF EPollerInv, KernelWatchesInterest, E!KernelWatchesInterest
<1>5. \A d \in DOMAIN watched' : watched'[d] = epEvents'[d]
  BY <1>1, <1>2 DEF EPollerInv, KernelWatchesInterest, E!KernelWatchesInterest
<1> QED BY <1>2, <1>3, <1>4, <1>5, Zenon DEF EPollerInv, KernelWatchesInterest, E!KernelWatchesInterest

\* removeChannel, with or without the disableAll before it.
LEMMA EPollerRemoveStep ==
    ASSUME EPollerInv, NEW c \in Fds, E!RemoveChannel(c) \/ E!DisableAllAndRemove(c)
    PROVE  EPollerInv'
<1> USE DEF E!kNew, E!kAdded, E!kDeleted
<1>1. /\ epEvents' = [epEvents EXCEPT ![c] = {}]
      /\ epIndex' = [epIndex EXCEPT ![c] = E!kNew]
      /\ channels' = channels \ {c}
      /\ listSize' = listSize
  BY Zenon DEF E!RemoveChannel, E!DisableAllAndRemove, EPollerInv
<1>2. /\ DOMAIN watched' = DOMAIN watched \ {c}
      /\ \A d \in DOMAIN watched' : watched'[d] = watched[d]
      /\ ~fatal'
  <2>1. ~fatal /\ (c \in DOMAIN watched <=> epIndex[c] = E!kAdded)
    BY KernelKnows, Zenon DEF EPollerInv, KernelWatchesInterest, E!KernelWatchesInterest
  <2>2. CASE E!RemoveChannel(c)
    BY <2>1, <2>2, Zenon DEF E!RemoveChannel, EPollerInv
  <2>3. CASE E!DisableAllAndRemove(c)
    <3>1. CASE epIndex[c] # E!kAdded
      BY <2>1, <2>3, <3>1, Zenon DEF E!DisableAllAndRemove, E!OpFor, E!CtlFails
    <3>2. CASE epIndex[c] = E!kAdded
      <4>1. E!Update("DEL", c, {})
        BY <2>3, <3>2, Zenon DEF E!DisableAllAndRemove, E!OpFor
      <4>2. ~E!CtlFails("DEL", c)
        BY <2>1, <3>2, Zenon DEF E!CtlFails
      <4>3. watched' = E!Ctl("DEL", c, {}) /\ ~fatal'
        BY <2>1, <4>1, <4>2, Zenon DEF E!Update
      <4> QED BY <4>3, Zenon DEF E!Ctl
    <3> QED BY <3>1, <3>2, Zenon
  <2> QED BY <2>2, <2>3, Zenon
<1>3. /\ epEvents' \in [Fds -> SUBSET Events]
      /\ epIndex' \in [Fds -> {E!kNew, E!kAdded, E!kDeleted}]
      /\ listSize' \in Nat /\ listSize' >= kInitEventListSize
      /\ channels' = {d \in Fds : epIndex'[d] # E!kNew}
      /\ \A d \in Fds : epIndex'[d] = E!kAdded <=> epEvents'[d] # {}
  BY <1>1 DEF EPollerInv, KernelWatchesInterest, E!KernelWatchesInterest
<1>4. DOMAIN watched' = {d \in channels' : epEvents'[d] # {}}
  BY <1>1, <1>2, Zenon DEF EPollerInv, KernelWatchesInterest, E!KernelWatchesInterest
<1>5. \A d \in DOMAIN watched' : watched'[d] = epEvents'[d]
  BY <1>1, <1>2, Zenon DEF EPollerInv, KernelWatchesInterest, E!KernelWatchesInterest
<1> QED BY <1>2, <1>3, <1>4, <1>5, Zenon DEF EPollerInv, KernelWatchesInterest, E!KernelWatchesInterest

LEMMA EPollerStep == EPollerInv /\ [MCNext]_allVars => EPollerInv'
<1> SUFFICES ASSUME EPollerInv, [MCNext]_allVars PROVE EPollerInv'
  BY Zenon
<1>1. CASE UNCHANGED epVars
  BY <1>1, Zenon DEF epVars, EPollerInv, KernelWatchesInterest, E!KernelWatchesInterest
<1>2. CASE E!Poll
  <2>1. UNCHANGED <<epEvents, epIndex, channels, watched, fatal>>
    BY <1>2, Zenon DEF E!Poll
  <2>2. listSize' = listSize \/ listSize' = 2 * listSize
    BY <1>2, Zenon DEF E!Poll
  <2>3. listSize' \in Nat /\ listSize' >= kInitEventListSize
    BY <2>2, ListSizeAssumption DEF EPollerInv, KernelWatchesInterest, E!KernelWatchesInterest
  <2> QED BY <2>1, <2>3, Zenon DEF EPollerInv, KernelWatchesInterest, E!KernelWatchesInterest
<1>3. ASSUME NEW c \in Fds,
             \/ E!EnableReading(c) \/ E!EnableWriting(c) \/ E!DisableWriting(c) \/ E!DisableAll(c)
             \/ E!RemoveChannel(c) \/ E!DisableAllAndRemove(c)
      PROVE  EPollerInv'
  <2>1. epEvents[c] \in SUBSET Events
    BY Zenon DEF EPollerInv
  <2>2. CASE E!EnableReading(c)
    BY <2>1, <2>2, EPollerUpdateStep, Zenon DEF E!EnableReading, Events
  <2>3. CASE E!EnableWriting(c)
    BY <2>1, <2>3, EPollerUpdateStep, Zenon DEF E!EnableWriting, Events
  <2>4. CASE E!DisableWriting(c)
    BY <2>1, <2>4, EPollerUpdateStep, Zenon DEF E!DisableWriting
  <2>5. CASE E!DisableAll(c)
    BY <2>1, <2>5, EPollerUpdateStep, Zenon DEF E!DisableAll
  <2>6. CASE E!RemoveChannel(c) \/ E!DisableAllAndRemove(c)
    BY <2>6, EPollerRemoveStep, Zenon
  <2> QED BY <1>3, <2>2, <2>3, <2>4, <2>5, <2>6, Zenon
<1> QED BY <1>1, <1>2, <1>3, Zenon DEF MCNext, SignalGone, allVars, E!Next

\* For any set of descriptors and any sequence of calls, the kernel watches exactly the
\* channels that want events, each for what it wants; epoll_ctl has failed never, and
\* the list of events has not shrunk.
THEOREM KernelWatchesInterestCorrect == MCSpec => []KernelWatchesInterest
<1>1. EPollerInv => KernelWatchesInterest
  BY Zenon DEF EPollerInv
<1>2. MCInit => EPollerInv
  BY EPollerInit, Zenon DEF MCInit
<1> QED BY <1>1, <1>2, EPollerStep, PTL DEF MCSpec

-----------------------------------------------------------------------------
(* The Signal.                                                             *)

Elements(seq) == {seq[k] : k \in 1 .. Len(seq)}
Once(seq) == \A j, k \in 1 .. Len(seq) : seq[j] = seq[k] => j = k

SignalTypeOK ==
    /\ slots \in Seq(Slots) /\ list \in [Callers -> Seq(Slots)] /\ alive \in BOOLEAN
    /\ handle \in [Slots -> {"new", "held", "gone"}] /\ dying \subseteq Slots
    /\ position \in [Callers -> Nat \ {0}]
    /\ slotImpl \in [Callers -> Slots \cup {S!None}]
    /\ ran \in [Callers -> SUBSET Slots] /\ due \in [Callers -> SUBSET Slots]
    /\ past \in [Callers -> SUBSET Slots]

\* The list has every slot that lives, and one that does not only before its clean().
ListsOK ==
    /\ \A s \in dying : handle[s] = "gone"
    /\ \A s \in Elements(slots) : handle[s] # "new"
    /\ Once(slots)
    /\ \A s \in Slots : handle[s] # "new" /\ ~S!Expired(s) => s \in Elements(slots)
    /\ alive => \A s \in Elements(slots) : S!Expired(s) => s \in dying

\* A call: the slots due are on its list, those before its position were run, and the
\* one it runs is the one at its position; what was gone before stays expired.
CallOK(c) ==
    /\ \A s \in due[c] : handle[s] = "held"
    /\ \A s \in past[c] : handle[s] = "gone" /\ S!Expired(s)
    /\ ran[c] \cap past[c] = {}
    /\ IF c \notin walking
         THEN /\ slotImpl[c] = S!None /\ position[c] = 1
              /\ ran[c] = {} /\ due[c] = {} /\ past[c] = {}
         ELSE LET mine == list[c]
              IN  /\ \A s \in Elements(mine) : handle[s] # "new"
                  /\ due[c] \subseteq Elements(mine)
                  /\ \A k \in 1 .. Len(mine) :
                         k < position[c] /\ mine[k] \in due[c] => mine[k] \in ran[c]
                  /\ slotImpl[c] # S!None =>
                         /\ position[c] <= Len(mine) /\ slotImpl[c] = mine[position[c]]
                         /\ slotImpl[c] \in ran[c]

\* The inductive invariant.
SignalInv == SignalTypeOK /\ ListsOK /\ \A c \in Callers : CallOK(c)

\* clean(): the slots that are kept are those that live, each as often as before.
LEMMA KeptInListFacts ==
    ASSUME slots \in Seq(Slots), NEW kept \in S!KeptInList
    PROVE  /\ kept \in Seq(Slots)
           /\ Elements(kept) = {s \in Elements(slots) : ~S!Expired(s)}
           /\ Once(slots) => Once(kept)
<1> PICK T : T = S!KeptPositions
  BY Zenon
<1>1. PICK h \in UNION {[1 .. m -> T] : m \in 0 .. Len(slots)} :
          /\ \A i, j \in DOMAIN h : i < j => h[i] < h[j]
          /\ \A k \in T : \E i \in DOMAIN h : h[i] = k
          /\ kept = [i \in DOMAIN h |-> slots[h[i]]]
  BY DEF S!KeptInList
<1>2. PICK n \in 0 .. Len(slots) : h \in [1 .. n -> T]
  BY Zenon
<1>3. DOMAIN h = 1 .. n /\ n \in Nat
  BY <1>2
<1>4. T \subseteq 1 .. Len(slots) /\ \A k \in 1 .. Len(slots) : k \in T <=> ~S!Expired(slots[k])
  BY DEF S!KeptPositions
<1>5. \A i \in 1 .. n : h[i] \in T /\ kept[i] = slots[h[i]]
  BY <1>1, <1>2, <1>3, Zenon
<1>6. kept \in Seq(Slots) /\ Len(kept) = n
  <2>0. \A k \in 1 .. Len(slots) : slots[k] \in Slots
    OBVIOUS
  <2>1. \A i \in 1 .. n : slots[h[i]] \in Slots
    BY <1>4, <1>5, <2>0, Zenon
  <2>2. kept = [i \in 1 .. n |-> slots[h[i]]]
    BY <1>1, <1>3, Zenon
  <2> QED BY ONLY <1>3, <2>1, <2>2
<1>7. Elements(kept) = {s \in Elements(slots) : ~S!Expired(s)}
  <2>1. ASSUME NEW i \in 1 .. n PROVE kept[i] \in Elements(slots) /\ ~S!Expired(kept[i])
    BY <1>4, <1>5, Zenon DEF Elements
  <2>2. ASSUME NEW k \in 1 .. Len(slots), ~S!Expired(slots[k]) PROVE \E i \in 1 .. n : slots[k] = kept[i]
    BY <1>1, <1>3, <1>4, <1>5, <2>2, Zenon
  <2>3. ASSUME NEW s \in Elements(kept) PROVE s \in Elements(slots) /\ ~S!Expired(s)
    BY <1>6, <2>1, Zenon DEF Elements
  <2>4. ASSUME NEW s \in Elements(slots), ~S!Expired(s) PROVE s \in Elements(kept)
    <3>1. PICK k \in 1 .. Len(slots) : s = slots[k]
      BY Zenon DEF Elements
    <3>2. \E i \in 1 .. n : s = kept[i]
      BY <2>2, <2>4, <3>1, Zenon
    <3> QED BY <1>6, <3>2, Zenon DEF Elements
  <2> QED BY <2>3, <2>4, Zenon
<1>8. ASSUME Once(slots) PROVE Once(kept)
  <2> SUFFICES ASSUME NEW a \in 1 .. n, NEW b \in 1 .. n, kept[a] = kept[b] PROVE a = b
    BY <1>6, Zenon DEF Once
  <2>1. h[a] = h[b] /\ h[a] \in 1 .. Len(slots)
    <3>1. h[a] \in 1 .. Len(slots) /\ h[b] \in 1 .. Len(slots) /\ slots[h[a]] = slots[h[b]]
      BY <1>4, <1>5, Zenon
    <3> QED BY <1>8, <3>1, Zenon DEF Once
  <2>2. (a < b => h[a] < h[b]) /\ (b < a => h[b] < h[a])
    BY <1>1, <1>3, Zenon
  <2> QED BY <1>3, <2>1, <2>2
<1> QED BY <1>6, <1>7, <1>8, Zenon

LEMMA AppendElements ==
    ASSUME NEW old \in Seq(Slots), NEW s \in Slots
    PROVE  /\ Append(old, s) \in Seq(Slots)
           /\ Elements(Append(old, s)) = Elements(old) \cup {s}
           /\ Once(old) /\ s \notin Elements(old) => Once(Append(old, s))
<1> DEFINE r == Append(old, s)
           len == Len(old)
<1>1. /\ r \in Seq(Slots) /\ Len(r) = len + 1 /\ r[len + 1] = s /\ len \in Nat
      /\ \A k \in 1 .. len : r[k] = old[k]
  OBVIOUS
<1>2. \A k \in 1 .. len + 1 : k \in 1 .. len \/ k = len + 1
  BY <1>1
<1> HIDE DEF r
<1>3. \A x : x \in Elements(r) <=> x \in Elements(old) \/ x = s
  BY <1>1, <1>2 DEF Elements
<1>4. ASSUME Once(old), s \notin Elements(old) PROVE Once(r)
  <2>1. \A k \in 1 .. len : r[k] # s
    BY <1>1, <1>4, Zenon DEF Elements
  <2> SUFFICES ASSUME NEW j \in 1 .. len + 1, NEW k \in 1 .. len + 1, r[j] = r[k] PROVE j = k
    BY <1>1, Zenon DEF Once
  <2>2. (j \in 1 .. len /\ k \in 1 .. len) \/ (j = len + 1 /\ k = len + 1)
    BY <1>1, <1>2, <2>1, Zenon
  <2> QED BY <1>1, <1>4, <2>2, Zenon DEF Once
<1> QED BY <1>1, <1>3, <1>4, Zenon DEF r

\* copyOnWrite: a write leaves the list of every call as it was.
LEMMA WriteListFacts ==
    ASSUME SignalTypeOK, NEW new, S!WriteList(new)
    PROVE  slots' = new /\ list' = list
BY Zenon DEF S!WriteList, S!CopyOnWrite, SignalTypeOK

\* What keeps a call as it was.
LEMMA CallSame ==
    ASSUME NEW c \in Callers, CallOK(c), list[c] \in Seq(Slots),
           c \in walking' <=> c \in walking, list'[c] = list[c], position'[c] = position[c],
           slotImpl'[c] = slotImpl[c],
           ran'[c] = ran[c], past'[c] = past[c], due'[c] \subseteq due[c],
           \A s \in Slots : handle[s] # "new" => handle'[s] # "new",
           \A s \in due'[c] : handle'[s] = "held",
           \A s \in past[c] : handle'[s] = "gone" /\ S!Expired(s)'
    PROVE  CallOK(c)'
<1>1. CASE c \notin walking
  BY <1>1, Zenon DEF CallOK
<1>2. CASE c \in walking
  <2> DEFINE mine == list[c]
  <2>1. \A s \in Elements(mine) : handle'[s] # "new"
    BY <1>2 DEF CallOK, Elements
  <2>2. /\ due[c] \subseteq Elements(mine)
        /\ \A k \in 1 .. Len(mine) : k < position[c] /\ mine[k] \in due[c] => mine[k] \in ran[c]
        /\ slotImpl[c] # S!None => /\ position[c] <= Len(mine) /\ slotImpl[c] = mine[position[c]]
                                   /\ slotImpl[c] \in ran[c]
        /\ ran[c] \cap past[c] = {}
    BY <1>2, Zenon DEF CallOK
  <2>3. list'[c] = mine
    BY Zenon
  <2> HIDE DEF mine
  <2> QED BY <1>2, <2>1, <2>2, <2>3, Zenon DEF CallOK
<1> QED BY <1>1, <1>2, Zenon

\* connect()
LEMMA ConnectStep == ASSUME SignalInv, NEW s \in Slots, S!Connect(s) PROVE SignalInv'
<1>1. /\ handle[s] = "new" /\ handle' = [handle EXCEPT ![s] = "held"]
      /\ S!WriteList(Append(slots, s))
      /\ UNCHANGED <<alive, dying, due, walking, position, slotImpl, ran, past>>
  BY Zenon DEF S!Connect, S!callVars
<1>2. SignalTypeOK /\ ListsOK /\ handle \in [Slots -> {"new", "held", "gone"}]
  BY Zenon DEF SignalInv, SignalTypeOK
<1> DEFINE old == slots
           new == Append(slots, s)
<1>3. old \in Seq(Slots) /\ s \notin Elements(old)
  BY <1>1, <1>2, Zenon DEF SignalTypeOK, ListsOK
<1>4. /\ new \in Seq(Slots) /\ Elements(new) = Elements(old) \cup {s} /\ Once(new)
  BY <1>2, <1>3, AppendElements, Zenon DEF ListsOK
<1>5. slots' = new /\ list' = list
  BY <1>1, <1>2, WriteListFacts, Zenon
<1> HIDE DEF new
<1>6. /\ handle' \in [Slots -> {"new", "held", "gone"}] /\ handle'[s] = "held"
      /\ \A x \in Slots \ {s} : handle'[x] = handle[x]
  BY <1>1, <1>2, Zenon
<1>7. ~S!Expired(s)' /\ \A x \in Slots \ {s} : S!Expired(x)' <=> S!Expired(x)
  BY <1>1, <1>6, Zenon DEF S!Expired
<1>8. SignalTypeOK'
  BY <1>1, <1>2, <1>4, <1>5, <1>6, Zenon DEF SignalTypeOK
<1>9. ListsOK'
  <2>1. \A x \in dying' : handle'[x] = "gone"
    BY <1>1, <1>2, <1>6, Zenon DEF ListsOK, SignalTypeOK
  <2>2. \A x \in Elements(new) : handle'[x] # "new"
    <3>1. \A x \in Elements(old) : x \in Slots
      BY <1>3 DEF Elements
    <3> QED BY <1>2, <1>4, <1>6, <3>1, Zenon DEF ListsOK
  <2>3. ASSUME NEW x \in Slots, handle'[x] # "new", ~S!Expired(x)' PROVE x \in Elements(new)
    BY <1>2, <1>4, <1>6, <1>7, <2>3, Zenon DEF ListsOK
  <2>4. alive => \A x \in Elements(new) : S!Expired(x)' => x \in dying
    <3>1. \A x \in Elements(old) : x \in Slots \ {s}
      BY <1>3 DEF Elements
    <3> QED BY <1>2, <1>4, <1>7, <3>1, Zenon DEF ListsOK
  <2> QED BY <1>1, <1>4, <1>5, <2>1, <2>2, <2>3, <2>4, Zenon DEF ListsOK
<1>10. ASSUME NEW c \in Callers PROVE CallOK(c)'
  <2>1. CallOK(c) /\ due[c] \subseteq Slots /\ past[c] \subseteq Slots /\ list[c] \in Seq(Slots)
    BY <1>2, Zenon DEF SignalInv, SignalTypeOK
  <2>2. \A x \in due[c] : handle'[x] = "held"
    BY <1>6, <2>1, Zenon DEF CallOK
  <2>3. \A x \in past[c] : handle'[x] = "gone" /\ S!Expired(x)'
    BY <1>1, <1>6, <1>7, <2>1, Zenon DEF CallOK
  <2> QED BY <1>1, <1>5, <2>1, <2>2, <2>3, CallSame
<1> QED BY <1>8, <1>9, <1>10, Zenon DEF SignalInv

\* The last Slot is dropped: the slot expires, or a call runs it.
LEMMA DisconnectStep == ASSUME SignalInv, NEW s \in Slots, S!Disconnect(s) PROVE SignalInv'
<1>1. /\ handle[s] = "held" /\ handle' = [handle EXCEPT ![s] = "gone"]
      /\ due' = [c \in Callers |-> due[c] \ {s}]
      /\ dying' = IF alive /\ (\A c \in Callers : slotImpl[c] # s) THEN dying \cup {s} ELSE dying
      /\ UNCHANGED <<slots, list, alive, walking, position, slotImpl, ran, past>>
  BY Zenon DEF S!Disconnect, S!callVars
<1>2. SignalTypeOK /\ ListsOK /\ handle \in [Slots -> {"new", "held", "gone"}]
      /\ dying \subseteq Slots
  BY Zenon DEF SignalInv, SignalTypeOK
<1>3. /\ handle' \in [Slots -> {"new", "held", "gone"}] /\ handle'[s] = "gone"
      /\ \A x \in Slots \ {s} : handle'[x] = handle[x]
  BY <1>1, <1>2, Zenon
<1>4. /\ dying \subseteq dying' /\ dying' \subseteq dying \cup {s}
      /\ alive /\ (\A c \in Callers : slotImpl[c] # s) => s \in dying'
  BY <1>1, Zenon
<1>5. ~S!Expired(s)
  BY <1>1, Zenon DEF S!Expired
<1>6. \A x \in Slots \ {s} : S!Expired(x)' <=> S!Expired(x)
  BY <1>1, <1>3, <1>4, Zenon DEF S!Expired
<1>7. alive /\ S!Expired(s)' => s \in dying'
  BY <1>1, <1>3, <1>4, Zenon DEF S!Expired
<1>8. SignalTypeOK'
  <2>1. due' \in [Callers -> SUBSET Slots]
    BY <1>1, Zenon DEF SignalInv, SignalTypeOK
  <2> QED BY <1>1, <1>2, <1>3, <1>4, <2>1, Zenon DEF SignalTypeOK
<1>9. ListsOK'
  <2>1. \A x \in Elements(slots) : x \in Slots
    BY <1>2 DEF SignalTypeOK, Elements
  <2>2. \A x \in dying' : handle'[x] = "gone"
    BY <1>2, <1>3, <1>4, Zenon DEF ListsOK
  <2>3. \A x \in Elements(slots) : handle'[x] # "new"
    BY <1>2, <1>3, <2>1, Zenon DEF ListsOK
  <2>4. ASSUME NEW x \in Slots, handle'[x] # "new", ~S!Expired(x)' PROVE x \in Elements(slots)
    BY <1>1, <1>2, <1>3, <1>5, <1>6, <2>4, Zenon DEF ListsOK
  <2>5. alive => \A x \in Elements(slots) : S!Expired(x)' => x \in dying'
    BY <1>2, <1>4, <1>6, <1>7, <2>1, Zenon DEF ListsOK, SignalTypeOK
  <2> QED BY <1>1, <1>2, <2>2, <2>3, <2>4, <2>5, Zenon DEF ListsOK
<1>10. ASSUME NEW c \in Callers PROVE CallOK(c)'
  <2>1. CallOK(c) /\ due[c] \subseteq Slots /\ past[c] \subseteq Slots /\ list[c] \in Seq(Slots)
    BY <1>2, Zenon DEF SignalInv, SignalTypeOK
  <2>2. due'[c] \subseteq due[c] /\ s \notin due'[c]
    BY <1>1, Zenon
  <2>3. \A x \in due'[c] : handle'[x] = "held"
    BY <1>3, <2>1, <2>2, Zenon DEF CallOK
  <2>4. s \notin past[c]
    BY <1>1, <2>1, Zenon DEF CallOK
  <2>5. \A x \in past[c] : handle'[x] = "gone" /\ S!Expired(x)'
    BY <1>3, <1>6, <2>1, <2>4, Zenon DEF CallOK
  <2> QED BY <1>1, <2>1, <2>2, <2>3, <2>5, CallSame
<1> QED BY <1>8, <1>9, <1>10, Zenon DEF SignalInv

\* call() goes on to its next position: the slot it leaves has been run, or is not due.
LEMMA PassedOne ==
    ASSUME NEW mine, Len(mine) \in Nat, NEW D, NEW R, NEW p \in Nat,
           mine[p] \in D => mine[p] \in R,
           \A k \in 1 .. Len(mine) : k < p /\ mine[k] \in D => mine[k] \in R
    PROVE  \A k \in 1 .. Len(mine) : k < p + 1 /\ mine[k] \in D => mine[k] \in R
<1> SUFFICES ASSUME NEW k \in 1 .. Len(mine), k < p + 1, mine[k] \in D PROVE mine[k] \in R
  BY Zenon
<1>1. k < p \/ k = p
  OBVIOUS
<1> QED BY <1>1, Zenon

\* ~SlotImpl: clean() takes out what has expired, and the call that ran the slot goes on.
LEMMA CleanStep == ASSUME SignalInv, NEW s \in Slots, S!Clean(s) PROVE SignalInv'
<1>1. /\ s \in dying /\ (\E kept \in S!KeptInList : S!WriteList(kept)) /\ dying' = dying \ {s}
      /\ position' = [c \in Callers |-> IF slotImpl[c] = s THEN position[c] + 1 ELSE position[c]]
      /\ slotImpl' = [c \in Callers |-> IF slotImpl[c] = s THEN S!None ELSE slotImpl[c]]
      /\ UNCHANGED <<alive, handle, walking, ran, due, past>>
  BY Zenon DEF S!Clean
<1>2. SignalTypeOK /\ ListsOK
  BY Zenon DEF SignalInv
<1>3. slots \in Seq(Slots)
  BY <1>2, Zenon DEF SignalTypeOK
<1> PICK new \in S!KeptInList : S!WriteList(new)
  BY <1>1, Zenon
<1>4. new \in Seq(Slots) /\ Elements(new) = {x \in Elements(slots) : ~S!Expired(x)} /\ Once(new)
  BY <1>2, <1>3, KeptInListFacts, Zenon DEF ListsOK
<1>5. slots' = new /\ list' = list
  BY <1>2, WriteListFacts, Zenon
<1>6. s # S!None /\ handle[s] = "gone"
  BY <1>1, <1>2, SlotsAssumption, Zenon DEF S!None, ListsOK
<1>7. \A x \in Slots : S!Expired(x)' <=> S!Expired(x)
  <2>1. S!Expired(s) /\ S!Expired(s)'
    BY <1>1, <1>6, Zenon DEF S!Expired
  <2>2. ASSUME NEW x \in Slots, x # s PROVE S!Expired(x)' <=> S!Expired(x)
    <3>1. \A c \in Callers : slotImpl'[c] = x <=> slotImpl[c] = x
      BY <1>1, <2>2, SlotsAssumption DEF S!None
    <3>2. x \in dying' <=> x \in dying
      BY <1>1, <2>2, Zenon
    <3> QED BY <1>1, <3>1, <3>2, Zenon DEF S!Expired
  <2> QED BY <2>1, <2>2, Zenon
<1>8. SignalTypeOK'
  <2>1. /\ slotImpl' \in [Callers -> Slots \cup {S!None}] /\ position' \in [Callers -> Nat \ {0}]
    BY <1>1, <1>2 DEF SignalTypeOK
  <2> QED BY <1>1, <1>2, <1>4, <1>5, <2>1, Zenon DEF SignalTypeOK
<1>9. ListsOK'
  <2>1. \A x \in Elements(new) : handle'[x] # "new"
    BY <1>1, <1>2, <1>4, Zenon DEF ListsOK
  <2>2. \A x \in Elements(new) : x \in Slots /\ ~S!Expired(x)'
    <3>1. \A x \in Elements(slots) : x \in Slots
      BY <1>3 DEF Elements
    <3> QED BY <1>4, <1>7, <3>1, Zenon
  <2>3. ASSUME NEW x \in Slots, handle'[x] # "new", ~S!Expired(x)' PROVE x \in Elements(new)
    BY <1>1, <1>2, <1>4, <1>7, <2>3, Zenon DEF ListsOK
  <2> QED BY <1>1, <1>2, <1>4, <1>5, <2>1, <2>2, <2>3, Zenon DEF ListsOK
<1>10. ASSUME NEW c \in Callers PROVE CallOK(c)'
  <2>1. CallOK(c) /\ due[c] \subseteq Slots /\ past[c] \subseteq Slots /\ list[c] \in Seq(Slots)
    BY <1>2, Zenon DEF SignalInv, SignalTypeOK
  <2>2. \A x \in past[c] : handle'[x] = "gone" /\ S!Expired(x)'
    BY <1>1, <1>7, <2>1, Zenon DEF CallOK
  <2>3. \A x \in due[c] : handle'[x] = "held"
    BY <1>1, <2>1, Zenon DEF CallOK
  <2>4. CASE slotImpl[c] # s
    <3>1. position'[c] = position[c] /\ slotImpl'[c] = slotImpl[c]
      BY <1>1, <2>4, Zenon
    <3> QED BY <1>1, <1>5, <2>1, <2>2, <2>3, <3>1, CallSame, Zenon
  <2>5. CASE slotImpl[c] = s
    <3> DEFINE mine == list[c]
    <3>1. position'[c] = position[c] + 1 /\ slotImpl'[c] = S!None
      BY <1>1, <2>5, Zenon
    <3>2. /\ c \in walking /\ due[c] \subseteq Elements(mine) /\ \A x \in Elements(mine) : handle[x] # "new"
          /\ \A k \in 1 .. Len(mine) : k < position[c] /\ mine[k] \in due[c] => mine[k] \in ran[c]
          /\ slotImpl[c] = mine[position[c]] /\ slotImpl[c] \in ran[c]
          /\ ran[c] \cap past[c] = {}
      BY <1>6, <2>1, <2>5, Zenon DEF CallOK
    <3>3. list'[c] = mine /\ c \in walking'
      BY <1>1, <1>5, <3>2, Zenon
    <3>4. position[c] \in Nat /\ Len(mine) \in Nat
      BY <1>2, <3>2 DEF SignalTypeOK
    <3> HIDE DEF mine
    <3>5. \A k \in 1 .. Len(mine) : k < position'[c] /\ mine[k] \in due[c] => mine[k] \in ran[c]
      BY <2>5, <3>1, <3>2, <3>4, PassedOne
    <3> QED BY <1>1, <2>2, <2>3, <3>1, <3>2, <3>3, <3>5, Zenon DEF CallOK
  <2> QED BY <2>4, <2>5, Zenon
<1> QED BY <1>8, <1>9, <1>10, Zenon DEF SignalInv

\* What keeps the list as it was.
LEMMA ListsSame ==
    ASSUME SignalTypeOK, ListsOK, UNCHANGED <<slots, alive, handle>>,
           dying \subseteq dying', \A x \in dying' : handle[x] = "gone",
           \A x \in Slots : S!Expired(x) => S!Expired(x)',
           \A x \in Slots : S!Expired(x)' => S!Expired(x) \/ x \in dying'
    PROVE  ListsOK'
<1>1. \A x \in Elements(slots) : x \in Slots
  BY DEF SignalTypeOK, Elements
<1>2. alive => \A x \in Elements(slots) : S!Expired(x)' => x \in dying'
  BY <1>1, Zenon DEF ListsOK
<1> QED BY <1>2, Zenon DEF ListsOK

\* call() takes the list: all slots that are held are on it.
LEMMA CallStep == ASSUME SignalInv, NEW c \in Callers, S!Call(c) PROVE SignalInv'
<1>1. /\ c \notin walking /\ walking' = walking \cup {c} /\ list' = [list EXCEPT ![c] = slots]
      /\ due' = [due EXCEPT ![c] = {s \in Slots : handle[s] = "held"}]
      /\ past' = [past EXCEPT ![c] = {s \in Slots : handle[s] = "gone" /\ S!Expired(s)}]
      /\ UNCHANGED <<slots, alive, handle, dying, position, slotImpl, ran>>
  BY Zenon DEF S!Call
<1>2. SignalTypeOK /\ ListsOK
  BY Zenon DEF SignalInv
<1>3. \A x : S!Expired(x)' <=> S!Expired(x)
  BY <1>1, Zenon DEF S!Expired
<1>4. SignalTypeOK'
  <2>1. list' \in [Callers -> Seq(Slots)]
    BY <1>1, <1>2, Zenon DEF SignalTypeOK
  <2>2. due' \in [Callers -> SUBSET Slots] /\ past' \in [Callers -> SUBSET Slots]
    BY <1>1, <1>2, Zenon DEF SignalTypeOK
  <2> QED BY <1>1, <1>2, <2>1, <2>2, Zenon DEF SignalTypeOK
<1>5. ListsOK'
  BY <1>1, <1>2, <1>3, ListsSame, Zenon DEF ListsOK
<1>6. ASSUME NEW d \in Callers, d # c PROVE CallOK(d)'
  <2>1. CallOK(d) /\ list[d] \in Seq(Slots)
    BY Zenon DEF SignalInv, SignalTypeOK
  <2>2. list'[d] = list[d] /\ (d \in walking' <=> d \in walking) /\ due'[d] = due[d] /\ past'[d] = past[d]
    BY <1>1, <1>2, <1>6, Zenon DEF SignalTypeOK
  <2>3. /\ \A s \in due'[d] : handle'[s] = "held"
        /\ \A s \in past[d] : handle'[s] = "gone" /\ S!Expired(s)'
    BY <1>1, <1>3, <2>1, <2>2, Zenon DEF CallOK
  <2> QED BY <1>1, <2>1, <2>2, <2>3, CallSame, Zenon
<1>7. CallOK(c)'
  <2>1. /\ slotImpl[c] = S!None /\ position[c] = 1 /\ ran[c] = {}
    BY <1>1, Zenon DEF SignalInv, CallOK
  <2>2. /\ list'[c] = slots /\ c \in walking' /\ due'[c] = {s \in Slots : handle[s] = "held"}
        /\ past'[c] = {s \in Slots : handle[s] = "gone" /\ S!Expired(s)}
    BY <1>1, <1>2, Zenon DEF SignalTypeOK
  <2>3. \A s \in Elements(slots) : handle[s] # "new"
    BY <1>2, Zenon DEF ListsOK
  <2>4. due'[c] \subseteq Elements(slots)
    <3>1. \A s \in Slots : handle[s] = "held" => ~S!Expired(s)
      BY Zenon DEF S!Expired
    <3> QED BY <1>2, <2>2, <3>1, Zenon DEF ListsOK
  <2>5. \A k \in 1 .. Len(slots) : ~(k < position[c])
    BY <2>1
  <2> QED BY <1>1, <1>3, <2>1, <2>2, <2>3, <2>4, <2>5, Zenon DEF CallOK
<1> QED BY <1>4, <1>5, <1>6, <1>7, Zenon DEF SignalInv

\* call() runs the slot at its position, or passes one that has expired.
LEMMA RunSlotStep == ASSUME SignalInv, NEW c \in Callers, S!RunSlot(c) PROVE SignalInv'
<1> DEFINE mine == list[c]
<1>1. /\ c \in walking /\ slotImpl[c] = S!None /\ position[c] <= Len(mine)
      /\ UNCHANGED <<slots, list, alive, handle, dying, walking, due, past>>
  BY Zenon DEF S!RunSlot
<1>2. SignalTypeOK /\ ListsOK /\ CallOK(c)
  BY Zenon DEF SignalInv
<1>3. /\ mine \in Seq(Slots) /\ Len(mine) \in Nat /\ position[c] \in 1 .. Len(mine)
      /\ mine[position[c]] \in Slots
  <2>1. position[c] \in Nat \ {0}
    BY <1>2, Zenon DEF SignalTypeOK
  <2>2. mine \in Seq(Slots)
    BY <1>2, Zenon DEF SignalTypeOK
  <2>3. Len(mine) \in Nat
    BY <2>2
  <2>4. position[c] \in 1 .. Len(mine)
    BY <1>1, <2>1, <2>3
  <2> QED BY <2>2, <2>3, <2>4
<1> PICK s \in Slots : s = mine[position[c]]
  BY <1>3, Zenon
<1>4. /\ due[c] \subseteq Elements(mine) /\ \A x \in Elements(mine) : handle[x] # "new"
      /\ \A k \in 1 .. Len(mine) : k < position[c] /\ mine[k] \in due[c] => mine[k] \in ran[c]
      /\ ran[c] \cap past[c] = {}
      /\ \A x \in due[c] : handle[x] = "held"
      /\ \A x \in past[c] : handle[x] = "gone" /\ S!Expired(x)
  BY <1>1, <1>2, Zenon DEF CallOK
<1>5. S!Expired(s) =>
          position' = [position EXCEPT ![c] = @ + 1] /\ UNCHANGED <<slotImpl, ran>>
  BY Zenon DEF S!RunSlot
<1>6. ~S!Expired(s) => /\ slotImpl' = [slotImpl EXCEPT ![c] = s]
                       /\ ran' = [ran EXCEPT ![c] = @ \cup {s}] /\ position' = position
  BY Zenon DEF S!RunSlot
<1>7. list'[c] = mine /\ mine[position[c]] = s
  BY <1>1, Zenon
<1> HIDE DEF mine
<1>8. \A x \in Slots : S!Expired(x)' <=> S!Expired(x)
  <2>1. CASE S!Expired(s)
    BY <1>1, <1>5, <2>1, Zenon DEF S!Expired
  <2>2. CASE ~S!Expired(s)
    <3>1. slotImpl'[c] = s /\ \A d \in Callers \ {c} : slotImpl'[d] = slotImpl[d]
      BY <1>2, <1>6, <2>2, Zenon DEF SignalTypeOK
    <3>2. ~S!Expired(s)'
      BY <1>1, <2>2, <3>1, Zenon DEF S!Expired
    <3>3. ASSUME NEW x \in Slots, x # s PROVE S!Expired(x)' <=> S!Expired(x)
      <4>1. \A d \in Callers : slotImpl'[d] = x <=> slotImpl[d] = x
        BY <1>1, <3>1, <3>3, SlotsAssumption, Zenon DEF S!None
      <4> QED BY <1>1, <4>1, Zenon DEF S!Expired
    <3> QED BY <2>2, <3>2, <3>3, Zenon
  <2> QED BY <2>1, <2>2, Zenon
<1>9. SignalTypeOK'
  <2>1. CASE S!Expired(s)
    <3>1. position' \in [Callers -> Nat \ {0}]
      <4>1. position \in [Callers -> Nat \ {0}] /\ position[c] + 1 \in Nat \ {0}
        BY <1>2 DEF SignalTypeOK
      <4> QED BY <1>5, <2>1, <4>1, Zenon
    <3> QED BY <1>1, <1>2, <1>5, <2>1, <3>1, Zenon DEF SignalTypeOK
  <2>2. CASE ~S!Expired(s)
    <3>1. slotImpl' \in [Callers -> Slots \cup {S!None}]
      BY <1>2, <1>6, <2>2, Zenon DEF SignalTypeOK
    <3>2. ran' \in [Callers -> SUBSET Slots]
      <4>1. ran \in [Callers -> SUBSET Slots] /\ ran[c] \cup {s} \in SUBSET Slots
        BY <1>2, Zenon DEF SignalTypeOK
      <4> QED BY <1>6, <2>2, <4>1, Zenon
    <3> QED BY <1>1, <1>2, <1>6, <2>2, <3>1, <3>2, Zenon DEF SignalTypeOK
  <2> QED BY <2>1, <2>2, Zenon
<1>10. ListsOK'
  BY <1>1, <1>2, <1>8, ListsSame, Zenon DEF ListsOK
<1>11. ASSUME NEW d \in Callers, d # c PROVE CallOK(d)'
  <2>1. CallOK(d) /\ past[d] \subseteq Slots /\ list[d] \in Seq(Slots)
    BY Zenon DEF SignalInv, SignalTypeOK
  <2>2. position'[d] = position[d] /\ slotImpl'[d] = slotImpl[d] /\ ran'[d] = ran[d]
    BY <1>2, <1>5, <1>6, <1>11, Zenon DEF SignalTypeOK
  <2>3. /\ \A x \in due'[d] : handle'[x] = "held"
        /\ \A x \in past[d] : handle'[x] = "gone" /\ S!Expired(x)'
    BY <1>1, <1>8, <2>1, Zenon DEF CallOK
  <2> QED BY <1>1, <2>1, <2>2, <2>3, CallSame, Zenon
<1>12. CallOK(c)'
  <2>1. /\ past[c] \subseteq Slots /\ position[c] \in Nat
        /\ \A x \in past[c] : S!Expired(x)'
    BY <1>2, <1>4, <1>8, Zenon DEF SignalTypeOK
  <2>2. CASE S!Expired(s)
    <3>1. position'[c] = position[c] + 1 /\ slotImpl'[c] = S!None /\ ran'[c] = ran[c]
      BY <1>1, <1>2, <1>5, <2>2, Zenon DEF SignalTypeOK
    <3>2. s \notin due[c]
      BY <1>4, <2>2, Zenon DEF S!Expired
    <3>3. \A k \in 1 .. Len(mine) : k < position'[c] /\ mine[k] \in due[c] => mine[k] \in ran[c]
      BY <1>3, <1>4, <1>7, <2>1, <3>1, <3>2, PassedOne
    <3> QED BY <1>1, <1>4, <1>7, <2>1, <3>1, <3>3, Zenon DEF CallOK
  <2>3. CASE ~S!Expired(s)
    <3>1. position'[c] = position[c] /\ slotImpl'[c] = s /\ ran'[c] = ran[c] \cup {s}
      BY <1>2, <1>6, <2>3, Zenon DEF SignalTypeOK
    <3>2. ran'[c] \cap past[c] = {}
      BY <1>4, <2>3, <3>1, Zenon
    <3> QED BY <1>1, <1>4, <1>7, <2>1, <3>1, <3>2, Zenon DEF CallOK
  <2> QED BY <2>2, <2>3, Zenon
<1> QED BY <1>9, <1>10, <1>11, <1>12, Zenon DEF SignalInv

\* call() drops its reference: it destroys the slot, or goes on to the next one.
LEMMA SlotReturnsStep == ASSUME SignalInv, NEW c \in Callers, S!SlotReturns(c) PROVE SignalInv'
<1>1. SignalTypeOK /\ ListsOK /\ CallOK(c)
  BY Zenon DEF SignalInv
<1> PICK s \in Slots : s = slotImpl[c]
  BY <1>1, Zenon DEF S!SlotReturns, SignalTypeOK
<1> DEFINE last == handle[s] # "held" /\ \A d \in Callers \ {c} : slotImpl[d] # s
<1>2. /\ s # S!None /\ s \notin dying
      /\ dying' = IF last THEN dying \cup {s} ELSE dying
      /\ slotImpl' = IF last THEN slotImpl ELSE [slotImpl EXCEPT ![c] = S!None]
      /\ position' = IF last THEN position ELSE [position EXCEPT ![c] = @ + 1]
      /\ UNCHANGED <<slots, list, alive, handle, walking, ran, due, past>>
  BY Zenon DEF S!SlotReturns
<1> DEFINE mine == list[c]
<1>3. /\ c \in walking /\ due[c] \subseteq Elements(mine) /\ \A x \in Elements(mine) : handle[x] # "new"
      /\ \A k \in 1 .. Len(mine) : k < position[c] /\ mine[k] \in due[c] => mine[k] \in ran[c]
      /\ position[c] <= Len(mine) /\ s = mine[position[c]] /\ s \in ran[c]
      /\ ran[c] \cap past[c] = {}
  BY <1>1, <1>2, Zenon DEF CallOK
<1>4. handle[s] # "new"
  <2>1. position[c] \in Nat \ {0}
    BY <1>1, Zenon DEF SignalTypeOK
  <2>2. Len(mine) \in Nat
    BY <1>1 DEF SignalTypeOK
  <2>3. position[c] \in 1 .. Len(mine)
    BY <1>3, <2>1, <2>2
  <2>4. s \in Elements(mine)
    BY <1>3, <2>3, Zenon DEF Elements
  <2> QED BY <1>3, <2>4, Zenon
<1> HIDE DEF mine, last
<1>5. CASE last
  <2>1. /\ dying' = dying \cup {s} /\ UNCHANGED <<slotImpl, position>>
        /\ handle[s] = "gone"
    BY <1>1, <1>2, <1>4, <1>5, Zenon DEF last, SignalTypeOK
  <2>2. \A x \in Slots : S!Expired(x) => S!Expired(x)'
    BY <1>2, <2>1, Zenon DEF S!Expired
  <2>3. SignalTypeOK'
    BY <1>1, <1>2, <2>1, Zenon DEF SignalTypeOK
  <2>4. ListsOK'
    <3>1. \A x \in Slots : S!Expired(x)' => S!Expired(x) \/ x \in dying'
      BY <1>2, <2>1, Zenon DEF S!Expired
    <3>2. \A x \in dying' : handle[x] = "gone"
      BY <1>1, <2>1, Zenon DEF ListsOK
    <3>3. dying \subseteq dying'
      BY <2>1, Zenon
    <3> QED BY <1>1, <1>2, <2>2, <3>1, <3>2, <3>3, ListsSame, Zenon
  <2>5. ASSUME NEW d \in Callers PROVE CallOK(d)'
    <3>1. CallOK(d) /\ past[d] \subseteq Slots /\ list[d] \in Seq(Slots)
      BY <1>1, Zenon DEF SignalInv, SignalTypeOK
    <3>2. /\ \A x \in due'[d] : handle'[x] = "held"
          /\ \A x \in past[d] : handle'[x] = "gone" /\ S!Expired(x)'
      BY <1>2, <2>2, <3>1, Zenon DEF CallOK
    <3> QED BY <1>2, <2>1, <3>1, <3>2, CallSame, Zenon
  <2> QED BY <2>3, <2>4, <2>5, Zenon DEF SignalInv
<1>6. CASE ~last
  <2>1. /\ dying' = dying /\ slotImpl' = [slotImpl EXCEPT ![c] = S!None]
        /\ position' = [position EXCEPT ![c] = @ + 1]
    BY <1>2, <1>6, Zenon
  <2>2. slotImpl'[c] = S!None /\ \A d \in Callers \ {c} : slotImpl'[d] = slotImpl[d]
    BY <1>1, <2>1, Zenon DEF SignalTypeOK
  <2>3. position'[c] = position[c] + 1 /\ \A d \in Callers \ {c} : position'[d] = position[d]
    BY <1>1, <2>1, Zenon DEF SignalTypeOK
  <2>4. \A x \in Slots : S!Expired(x)' <=> S!Expired(x)
    <3>1. ~S!Expired(s) /\ ~S!Expired(s)'
      <4>1. CASE handle[s] = "held"
        BY <1>2, <4>1, Zenon DEF S!Expired
      <4>2. CASE \E d \in Callers \ {c} : slotImpl[d] = s
        BY <1>2, <2>1, <2>2, <4>2, Zenon DEF S!Expired
      <4> QED BY <1>6, <4>1, <4>2, Zenon DEF last
    <3>2. ASSUME NEW x \in Slots, x # s PROVE S!Expired(x)' <=> S!Expired(x)
      <4>1. \A d \in Callers : slotImpl'[d] = x <=> slotImpl[d] = x
        BY <2>2, <3>2, SlotsAssumption, Zenon DEF S!None
      <4> QED BY <1>2, <2>1, <4>1, Zenon DEF S!Expired
    <3> QED BY <3>1, <3>2, Zenon
  <2>5. SignalTypeOK'
    <3>1. slotImpl' \in [Callers -> Slots \cup {S!None}]
      BY <1>1, <2>1, Zenon DEF SignalTypeOK
    <3>2. position' \in [Callers -> Nat \ {0}]
      BY <1>1, <2>1 DEF SignalTypeOK
    <3> QED BY <1>1, <1>2, <2>1, <3>1, <3>2, Zenon DEF SignalTypeOK
  <2>6. ListsOK'
    BY <1>1, <1>2, <2>1, <2>4, ListsSame, Zenon DEF ListsOK
  <2>7. ASSUME NEW d \in Callers PROVE CallOK(d)'
    <3>1. CallOK(d) /\ past[d] \subseteq Slots /\ list[d] \in Seq(Slots)
      BY <1>1, Zenon DEF SignalInv, SignalTypeOK
    <3>2. /\ \A x \in due'[d] : handle'[x] = "held"
          /\ \A x \in past[d] : handle'[x] = "gone" /\ S!Expired(x)'
      BY <1>2, <2>4, <3>1, Zenon DEF CallOK
    <3>3. CASE d # c
      BY <1>2, <2>2, <2>3, <3>1, <3>2, <3>3, CallSame, Zenon
    <3>4. CASE d = c
      <4>1. list'[c] = mine /\ c \in walking'
        BY <1>2, <1>3, Zenon DEF mine
      <4>0. Len(mine) \in Nat
        BY <1>1, <1>3 DEF SignalTypeOK, mine
      <4>2. position[c] \in Nat
        BY <1>1, Zenon DEF SignalTypeOK
      <4>3. \A k \in 1 .. Len(mine) : k < position'[c] /\ mine[k] \in due[c] => mine[k] \in ran[c]
        <5>1. mine[position[c]] \in ran[c]
          BY <1>3, Zenon
        <5>2. \A k \in 1 .. Len(mine) : k < position[c] /\ mine[k] \in due[c] => mine[k] \in ran[c]
          BY <1>3, Zenon
        <5> QED BY <2>3, <4>0, <4>2, <5>1, <5>2, PassedOne
      <4> QED BY <1>2, <1>3, <2>2, <3>2, <3>4, <4>1, <4>3, Zenon DEF CallOK
    <3> QED BY <3>3, <3>4, Zenon
  <2> QED BY <2>5, <2>6, <2>7, Zenon DEF SignalInv
<1> QED BY <1>5, <1>6, Zenon

\* call() returns.
LEMMA CallReturnsStep == ASSUME SignalInv, NEW c \in Callers, S!CallReturns(c) PROVE SignalInv'
<1>1. /\ c \in walking /\ slotImpl[c] = S!None
      /\ walking' = walking \ {c} /\ list' = [list EXCEPT ![c] = <<>>]
      /\ position' = [position EXCEPT ![c] = 1] /\ ran' = [ran EXCEPT ![c] = {}]
      /\ due' = [due EXCEPT ![c] = {}] /\ past' = [past EXCEPT ![c] = {}]
      /\ UNCHANGED <<slots, alive, handle, dying, slotImpl>>
  BY Zenon DEF S!CallReturns
<1>2. SignalTypeOK /\ ListsOK
  BY Zenon DEF SignalInv
<1>3. \A x : S!Expired(x)' <=> S!Expired(x)
  BY <1>1, Zenon DEF S!Expired
<1>6. SignalTypeOK'
  <2>1. list' \in [Callers -> Seq(Slots)]
    BY <1>1, <1>2 DEF SignalTypeOK
  <2>2. position' \in [Callers -> Nat \ {0}]
    BY <1>1, <1>2 DEF SignalTypeOK
  <2>3. /\ ran' \in [Callers -> SUBSET Slots] /\ due' \in [Callers -> SUBSET Slots]
        /\ past' \in [Callers -> SUBSET Slots]
    BY <1>1, <1>2, Zenon DEF SignalTypeOK
  <2> QED BY <1>1, <1>2, <2>1, <2>2, <2>3, Zenon DEF SignalTypeOK
<1>7. ListsOK'
  BY <1>1, <1>2, <1>3, ListsSame, Zenon DEF ListsOK
<1>8. ASSUME NEW d \in Callers, d # c PROVE CallOK(d)'
  <2>1. CallOK(d) /\ list[d] \in Seq(Slots)
    BY Zenon DEF SignalInv, SignalTypeOK
  <2>2. /\ list'[d] = list[d] /\ (d \in walking' <=> d \in walking) /\ position'[d] = position[d] /\ ran'[d] = ran[d]
        /\ due'[d] = due[d] /\ past'[d] = past[d]
    BY <1>1, <1>2, <1>8, Zenon DEF SignalTypeOK
  <2>4. /\ \A x \in due'[d] : handle'[x] = "held"
        /\ \A x \in past[d] : handle'[x] = "gone" /\ S!Expired(x)'
    BY <1>1, <1>3, <2>1, <2>2, Zenon DEF CallOK
  <2> QED BY <1>1, <2>1, <2>2, <2>4, CallSame, Zenon
<1>9. CallOK(c)'
  <2>1. /\ c \notin walking' /\ position'[c] = 1 /\ ran'[c] = {} /\ due'[c] = {} /\ past'[c] = {}
    BY <1>1, <1>2, Zenon DEF SignalTypeOK
  <2> QED BY <1>1, <2>1, Zenon DEF CallOK
<1> QED BY <1>6, <1>7, <1>8, <1>9, Zenon DEF SignalInv

LEMMA SignalInit == MCInit => SignalInv
<1> SUFFICES ASSUME S!Init PROVE SignalInv
  BY Zenon DEF MCInit
<1>2. /\ slots = <<>>
      /\ \A s \in Slots : handle[s] = "new"
      /\ \A c \in Callers : /\ c \notin walking /\ position[c] = 1 /\ slotImpl[c] = S!None
                            /\ ran[c] = {} /\ due[c] = {} /\ past[c] = {}
      /\ dying = {}
  BY Zenon DEF S!Init
<1>3. SignalTypeOK
  <2>1. slots \in Seq(Slots) /\ list \in [Callers -> Seq(Slots)]
    BY DEF S!Init
  <2>2. /\ handle \in [Slots -> {"new", "held", "gone"}]
        /\ position \in [Callers -> Nat \ {0}] /\ slotImpl \in [Callers -> Slots \cup {S!None}]
    BY DEF S!Init
  <2>3. ran \in [Callers -> SUBSET Slots] /\ due = ran /\ past = ran
    BY Zenon DEF S!Init
  <2> QED BY <1>2, <2>1, <2>2, <2>3, Zenon DEF S!Init, SignalTypeOK
<1>4. ListsOK
  <2>1. Elements(<<>>) = {} /\ Once(<<>>)
    BY DEF Elements, Once
  <2> QED BY <1>2, <2>1, Zenon DEF ListsOK
<1>5. \A c \in Callers : CallOK(c)
  BY <1>2, Zenon DEF CallOK
<1> QED BY <1>3, <1>4, <1>5, Zenon DEF SignalInv

LEMMA SignalStep == SignalInv /\ [MCNext]_allVars => SignalInv'
<1> SUFFICES ASSUME SignalInv, [MCNext]_allVars PROVE SignalInv'
  BY Zenon
<1>1. ASSUME UNCHANGED <<slots, list, handle, dying, walking, position, slotImpl, ran, due, past>>,
             alive' \in BOOLEAN, alive' => alive
      PROVE  SignalInv'
  <2>1. \A x : S!Expired(x)' <=> S!Expired(x)
    BY <1>1, Zenon DEF S!Expired
  <2>2. SignalTypeOK'
    BY <1>1, Zenon DEF SignalInv, SignalTypeOK
  <2>3. ListsOK'
    BY <1>1, <2>1, Zenon DEF SignalInv, ListsOK
  <2>4. \A c \in Callers : CallOK(c)'
    BY <1>1, <2>1, Zenon DEF SignalInv, CallOK
  <2> QED BY <2>2, <2>3, <2>4, Zenon DEF SignalInv
<1>2. CASE UNCHANGED signalVars
  BY <1>1, <1>2, Zenon DEF signalVars, SignalInv, SignalTypeOK
<1>3. CASE S!DestroySignal
  BY <1>1, <1>3, Zenon DEF S!DestroySignal, S!callVars
<1>4. UNCHANGED signalVars \/ S!Next
  BY Zenon DEF MCNext, SignalGone, allVars
<1> QED BY <1>2, <1>3, <1>4, ConnectStep, DisconnectStep, CleanStep, CallStep, RunSlotStep,
           SlotReturnsStep, CallReturnsStep, Zenon DEF S!Next

\* SignalSlot.h, call, for any number of calling threads and any slots: when a
\* call has come to the end of its list it has run every slot that stayed connected
\* since it began, and none that was gone by then, whatever connect(), disconnect and
\* clean() did to the list in between.
THEOREM RunsConnectedCorrect == MCSpec => []RunsConnected
<1>1. SignalInv => RunsConnected
  <2> SUFFICES ASSUME SignalInv, NEW c \in Callers
               PROVE  /\ c \in walking /\ slotImpl[c] = S!None
                         /\ position[c] > Len(list[c]) => due[c] \subseteq ran[c]
                      /\ ran[c] \cap past[c] = {}
    BY Zenon DEF RunsConnected, S!RunsConnected
  <2>1. ASSUME c \in walking, position[c] > Len(list[c]), NEW s \in due[c]
        PROVE  s \in ran[c]
    <3> DEFINE mine == list[c]
    <3>1. /\ due[c] \subseteq Elements(mine)
          /\ \A k \in 1 .. Len(mine) : k < position[c] /\ mine[k] \in due[c] => mine[k] \in ran[c]
      BY <2>1, Zenon DEF SignalInv, CallOK
    <3>2. position[c] \in Nat /\ Len(mine) \in Nat
      BY <2>1 DEF SignalInv, SignalTypeOK
    <3>3. PICK k \in 1 .. Len(mine) : s = mine[k]
      BY <3>1, Zenon DEF Elements
    <3>4. k < position[c]
      BY <2>1, <3>2
    <3> QED BY <3>1, <3>3, <3>4, Zenon
  <2>2. ran[c] \cap past[c] = {}
    BY Zenon DEF SignalInv, CallOK
  <2> QED BY <2>1, <2>2, Zenon
<1> QED BY SignalInit, SignalStep, <1>1, PTL DEF MCSpec

\* SignalSlot.h, clean, in the same generality: the current list names every slot that
\* lives exactly once, and one that does not only while its own clean() is to come.
THEOREM ListIsCleanCorrect == MCSpec => []ListIsClean
<1>1. SignalInv => ListIsClean
  <2> SUFFICES ASSUME SignalInv, alive PROVE
               /\ \A s \in Slots : ~S!Expired(s) /\ handle[s] # "new" =>
                      \E i \in DOMAIN slots : \A j \in DOMAIN slots : slots[j] = s <=> j = i
               /\ \A i \in DOMAIN slots : S!Expired(slots[i]) => slots[i] \in dying
    BY Zenon DEF ListIsClean, S!ListIsClean
  <2>1. DOMAIN slots = 1 .. Len(slots)
    BY DEF SignalInv, SignalTypeOK
  <2>2. ASSUME NEW s \in Slots, ~S!Expired(s), handle[s] # "new"
        PROVE  \E i \in DOMAIN slots : \A j \in DOMAIN slots : slots[j] = s <=> j = i
    <3>1. PICK k \in 1 .. Len(slots) : s = slots[k]
      BY <2>2, Zenon DEF SignalInv, ListsOK, Elements
    <3>2. \A j \in DOMAIN slots : slots[j] = s <=> j = k
      BY <2>1, <3>1, Zenon DEF SignalInv, ListsOK, Once
    <3> QED BY <2>1, <3>1, <3>2
  <2>3. \A i \in DOMAIN slots : S!Expired(slots[i]) => slots[i] \in dying
    BY <2>1, Zenon DEF SignalInv, ListsOK, Elements
  <2> QED BY <2>2, <2>3, Zenon
<1> QED BY SignalInit, SignalStep, <1>1, PTL DEF MCSpec

=============================================================================
