---------------------------- MODULE MCRegistries ----------------------------
(***************************************************************************)
(* What keeps a list of those to be told of an event, while they come and  *)
(* go: the two pollers, on three descriptors, 0 included (enough for an    *)
(* entry in the middle, one at the end and one that moves), and the        *)
(* Signal.  One in each behaviour; the others stay in an initial state.    *)
(***************************************************************************)
EXTENDS Poller

CONSTANTS kInitEventListSize, Callers, Slots, MaxCalls
ASSUME ListSizeAssumption == kInitEventListSize \in Nat
ASSUME SlotsAssumption == "none" \notin Slots

VARIABLES
    registry,                                                            \* the one in use
    epEvents, epIndex, epActive, channels, watched, fatal, listSize,     \* EPoller
    slots, alive, handle, dying, walking, list, sharing, position, slotImpl, calls, ran, due, past

MCFds == 0 .. 2

E == INSTANCE EPoller WITH events <- epEvents, index <- epIndex, activeChannels <- epActive
S == INSTANCE SignalSlot WITH at <- position

epVars == <<epEvents, epIndex, epActive, channels, watched, fatal, listSize>>
signalVars ==
    <<slots, alive, handle, dying, walking, list, sharing, position, slotImpl, calls, ran, due, past>>
allVars == <<registry, vars, epVars, signalVars>>

MCInit == Init /\ E!Init /\ S!Init /\ registry \in {"poll", "epoll", "signal"}

\* A Signal that is gone, with all slots, is the one state in which nothing is left to do.
SignalGone ==
    /\ registry = "signal"
    /\ ~alive /\ dying = {} /\ \A s \in Slots : handle[s] # "held"
    /\ UNCHANGED allVars

MCNext ==
    \/ registry = "poll" /\ Next /\ UNCHANGED <<registry, epVars, signalVars>>
    \/ registry = "epoll" /\ E!Next /\ UNCHANGED <<registry, vars, signalVars>>
    \/ registry = "signal" /\ S!Next /\ UNCHANGED <<registry, vars, epVars>>
    \/ SignalGone

MCSpec == MCInit /\ [][MCNext]_allVars

\* EPoller.cpp, updateChannel and removeChannel: see EPoller.
KernelWatchesInterest == E!KernelWatchesInterest

\* SignalSlot.h, call and clean: see SignalSlot.
RunsConnected == S!RunsConnected
ListIsClean == S!ListIsClean

=============================================================================
