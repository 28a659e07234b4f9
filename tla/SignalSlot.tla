----------------------------- MODULE SignalSlot -----------------------------
(***************************************************************************)
(* muduo/thread/SignalSlot.h: a Signal whose slot list is copied before a  *)
(* write when a call() is walking it.  A slot lives as long as its handle  *)
(* or the call that is running it; the thread that drops the last          *)
(* reference cleans the list.  (A slot tied to an object cannot be made:   *)
(* that overload of connect() does not compile.)                           *)
(***************************************************************************)
EXTENDS Naturals, Sequences

CONSTANTS Callers, Slots, MaxCalls

VARIABLES slots,        \* slots_: the list, in the order of the connects
          alive,        \* the Signal exists
          handle,       \* the Slot of each: "new", "held" or "gone"
          dying,        \* the slots whose ~SlotImpl has not yet called clean()
          walking,      \* the callers in call()
          list,         \* call(): the list it walks
          sharing,      \* those whose list is slots_ itself, which is then not unique
          at,           \* call(): the position
          slotImpl,     \* call(): the slot it runs
          calls,        \* the number of calls
          ran, due, past   \* history of the call: the slots run, those connected
                           \* all along, those gone before

vars == <<slots, alive, handle, dying, walking, list, sharing, at, slotImpl, calls, ran, due, past>>
callVars == <<walking, at, slotImpl, calls, ran, past>>

None == "none"

\* weak_ptr::expired
Expired(s) ==
    /\ handle[s] # "held"
    /\ s \in dying \/ \A c \in Callers : slotImpl[c] # s

Init ==
    /\ slots = <<>> /\ alive = TRUE
    /\ handle = [s \in Slots |-> "new"] /\ dying = {}
    /\ walking = {} /\ list = [c \in Callers |-> <<>>] /\ sharing = {}
    /\ at = [c \in Callers |-> 1] /\ slotImpl = [c \in Callers |-> None] /\ calls = 0
    /\ ran = [c \in Callers |-> {}] /\ due = ran /\ past = ran

\* Mutant: the list is written in place.
CopyOnWriteNot == {}

\* copyOnWrite: the calls that keep the old list, as the new one is a copy.
CopyOnWrite == sharing

WriteList(new) ==
    /\ slots' = new
    /\ list' = [c \in Callers |-> IF c \in sharing \ CopyOnWrite THEN new ELSE list[c]]
    /\ sharing' = sharing \ CopyOnWrite

\* connect() and add()
Connect(s) ==
    /\ alive
    /\ handle[s] = "new"
    /\ handle' = [handle EXCEPT ![s] = "held"]
    /\ WriteList(Append(slots, s))
    /\ UNCHANGED <<alive, dying, due, callVars>>

\* The Slot and its copies are dropped; ~SlotImpl starts unless a call runs it.
Disconnect(s) ==
    /\ handle[s] = "held"
    /\ handle' = [handle EXCEPT ![s] = "gone"]
    /\ due' = [c \in Callers |-> due[c] \ {s}]
    /\ dying' = IF alive /\ (\A c \in Callers : slotImpl[c] # s) THEN dying \cup {s} ELSE dying
    /\ UNCHANGED <<slots, list, sharing, alive, callVars>>

\* Mutant: the slot that dies is left in the list.
KeptPositionsAll == DOMAIN slots

\* clean(): the positions it does not erase ...
KeptPositions == {k \in DOMAIN slots : ~Expired(slots[k])}

\* ... and the list that is left, its slots in their order.
KeptInList ==
    LET Enumerations == UNION {[1 .. n -> KeptPositions] : n \in 0 .. Len(slots)}
        InOrder(h) == \A i, j \in DOMAIN h : i < j => h[i] < h[j]
    IN  {[n \in DOMAIN h |-> slots[h[n]]] :
            h \in {g \in Enumerations : InOrder(g) /\ \A k \in KeptPositions : \E n \in DOMAIN g : g[n] = k}}

\* ~SlotImpl: clean(), after which a call that ran the slot goes on.
Clean(s) ==
    /\ s \in dying
    /\ \E kept \in KeptInList : WriteList(kept)
    /\ dying' = dying \ {s}
    /\ at' = [c \in Callers |-> IF slotImpl[c] = s THEN at[c] + 1 ELSE at[c]]
    /\ slotImpl' = [c \in Callers |-> IF slotImpl[c] = s THEN None ELSE slotImpl[c]]
    /\ UNCHANGED <<alive, handle, walking, calls, ran, due, past>>

\* call(): the list is taken under the mutex.
Call(c) ==
    /\ alive
    /\ c \notin walking
    /\ calls < MaxCalls
    /\ calls' = calls + 1
    /\ walking' = walking \cup {c} /\ list' = [list EXCEPT ![c] = slots] /\ sharing' = sharing \cup {c}
    /\ due' = [due EXCEPT ![c] = {s \in Slots : handle[s] = "held"}]
    /\ past' = [past EXCEPT ![c] = {s \in Slots : handle[s] = "gone" /\ Expired(s)}]
    /\ UNCHANGED <<slots, alive, handle, dying, at, slotImpl, ran>>

\* call(): lock() and, when the slot is there, its callback.
RunSlot(c) ==
    /\ c \in walking
    /\ slotImpl[c] = None
    /\ at[c] <= Len(list[c])
    /\ LET s == list[c][at[c]]
       IN  IF Expired(s)
             THEN at' = [at EXCEPT ![c] = @ + 1] /\ UNCHANGED <<slotImpl, ran>>
             ELSE /\ slotImpl' = [slotImpl EXCEPT ![c] = s]
                  /\ ran' = [ran EXCEPT ![c] = @ \cup {s}]
                  /\ UNCHANGED at
    /\ UNCHANGED <<slots, alive, handle, dying, walking, list, sharing, calls, due, past>>

\* call(): the callback has returned and the reference goes, maybe as the last one.
SlotReturns(c) ==
    LET s == slotImpl[c]
        last == handle[s] # "held" /\ \A d \in Callers \ {c} : slotImpl[d] # s
    IN  /\ s # None
        /\ s \notin dying
        /\ dying' = IF last THEN dying \cup {s} ELSE dying
        /\ slotImpl' = IF last THEN slotImpl ELSE [slotImpl EXCEPT ![c] = None]
        /\ at' = IF last THEN at ELSE [at EXCEPT ![c] = @ + 1]
        /\ UNCHANGED <<slots, alive, handle, walking, list, sharing, calls, ran, due, past>>

\* call() returns, and frees its list if nobody else has it.
CallReturns(c) ==
    /\ c \in walking
    /\ slotImpl[c] = None
    /\ at[c] > Len(list[c])
    /\ walking' = walking \ {c} /\ list' = [list EXCEPT ![c] = <<>>] /\ sharing' = sharing \ {c}
    /\ at' = [at EXCEPT ![c] = 1]
    /\ ran' = [ran EXCEPT ![c] = {}]
    /\ due' = [due EXCEPT ![c] = {}]
    /\ past' = [past EXCEPT ![c] = {}]
    /\ UNCHANGED <<slots, alive, handle, dying, slotImpl, calls>>

\* ~Signal, while nobody calls it; a destructor in clean() still holds the list.
DestroySignal ==
    /\ alive
    /\ walking = {}
    /\ alive' = FALSE
    /\ UNCHANGED <<slots, list, sharing, handle, dying, due, callVars>>

Next ==
    \/ \E s \in Slots : Connect(s) \/ Disconnect(s) \/ Clean(s)
    \/ \E c \in Callers : Call(c) \/ RunSlot(c) \/ SlotReturns(c) \/ CallReturns(c)
    \/ DestroySignal

-----------------------------------------------------------------------------

\* call(): when it is through it has run every slot that was connected from its
\* start on, and none that was gone before, whoever connects and disconnects.
RunsConnected ==
    \A c \in Callers :
        /\ c \in walking /\ slotImpl[c] = None /\ at[c] > Len(list[c]) => due[c] \subseteq ran[c]
        /\ ran[c] \cap past[c] = {}

\* clean(): the list names every connected slot once, and a slot that is gone only
\* until its own destructor, or another's, has cleaned.
ListIsClean ==
    alive =>
        /\ \A s \in Slots : ~Expired(s) /\ handle[s] # "new" =>
               \E i \in DOMAIN slots : \A j \in DOMAIN slots : slots[j] = s <=> j = i
        /\ \A i \in DOMAIN slots : Expired(slots[i]) => slots[i] \in dying

=============================================================================
