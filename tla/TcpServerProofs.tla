-------------------------- MODULE TcpServerProofs --------------------------
(***************************************************************************)
(* TcpServer for any number of descriptors and of clients: every open      *)
(* descriptor has one connection, and no assertion fails.                  *)
(***************************************************************************)
EXTENDS TcpServer, SequenceTheorems, TLAPS

Functors == [op : {"listen", "connectDestroyed"}, id : Nat]

TypeOK ==
    /\ started \in BOOLEAN /\ listening \in BOOLEAN /\ died \in BOOLEAN
    /\ functors \in Seq(Functors)
    /\ backlog \in Nat /\ clients \in Nat /\ nextConnId \in Nat \ {0}
    /\ connectionMap \subseteq Ids /\ watched \subseteq Ids /\ held \subseteq Ids
    /\ state \in [Ids -> {"kConnecting", "kConnected", "kDisconnected"}]
    /\ sockfd \in [Ids -> Fds \cup {"none"}]
    /\ open \subseteq Fds

\* The inductive invariant: the property, on typed state; the numbers in use are
\* below the next one, which is one of Ids while a client waits.
IInv ==
    /\ TypeOK
    /\ FdsOwned
    /\ Alive \subseteq {id \in Ids : id < nextConnId}
    /\ nextConnId + backlog <= clients + 1
    /\ clients <= MaxConns

-----------------------------------------------------------------------------
(* The queue of functors.                                                  *)

\* queueInLoop adds at most one connection to those that are to be destroyed.
LEMMA DestroyedAppend ==
    ASSUME NEW fs \in Seq(Functors), NEW f \in Functors
    PROVE  /\ Append(fs, f) \in Seq(Functors)
           /\ f.op = "connectDestroyed" => Destroyed(Append(fs, f)) = Destroyed(fs) \cup {f.id}
           /\ f.op # "connectDestroyed" => Destroyed(Append(fs, f)) = Destroyed(fs)
<1> DEFINE gs == Append(fs, f)
<1>1. /\ gs \in Seq(Functors) /\ Len(gs) = Len(fs) + 1 /\ gs[Len(fs) + 1] = f
      /\ \A i \in 1 .. Len(fs) : gs[i] = fs[i]
      /\ DOMAIN gs = 1 .. Len(fs) + 1 /\ DOMAIN fs = 1 .. Len(fs) /\ Len(fs) \in Nat
  BY AppendProperties, LenProperties
<1> HIDE DEF gs
<1>2. \A x : x \in Destroyed(gs) <=> \/ x \in Destroyed(fs)
                                     \/ f.op = "connectDestroyed" /\ x = f.id
  BY <1>1 DEF Destroyed
<1> QED BY <1>1, <1>2, Zenon DEF gs

\* Running the first functor takes its connection out of them, if there is no other
\* functor for the same one.
LEMMA DestroyedTail ==
    ASSUME NEW fs \in Seq(Functors), fs # <<>>,
           \A i, j \in DOMAIN fs :
               fs[i].op = "connectDestroyed" /\ fs[i] = fs[j] => i = j
    PROVE  /\ Tail(fs) \in Seq(Functors) /\ Head(fs) \in Functors
           /\ Len(Tail(fs)) = Len(fs) - 1
           /\ \A i \in DOMAIN Tail(fs) : Tail(fs)[i] = fs[i + 1] /\ i + 1 \in DOMAIN fs
           /\ Head(fs).op = "connectDestroyed" =>
                 /\ Head(fs).id \in Destroyed(fs)
                 /\ Destroyed(Tail(fs)) = Destroyed(fs) \ {Head(fs).id}
           /\ Head(fs).op # "connectDestroyed" => Destroyed(Tail(fs)) = Destroyed(fs)
<1> DEFINE gs == Tail(fs)
<1>1. /\ gs \in Seq(Functors) /\ Len(gs) = Len(fs) - 1 /\ Head(fs) = fs[1]
      /\ \A i \in 1 .. Len(gs) : gs[i] = fs[i + 1]
      /\ DOMAIN gs = 1 .. Len(gs) /\ DOMAIN fs = 1 .. Len(fs) /\ Len(fs) \in Nat \ {0}
  BY HeadTailProperties, LenProperties, EmptySeq
<1> HIDE DEF gs
<1>2. /\ \A i \in DOMAIN gs : gs[i] = fs[i + 1] /\ i + 1 \in DOMAIN fs
      /\ \A i \in DOMAIN fs : i = 1 \/ (i - 1 \in DOMAIN gs /\ fs[i] = gs[i - 1])
      /\ 1 \in DOMAIN fs /\ \A i \in DOMAIN fs : fs[i] \in Functors
  BY <1>1
<1>3. \A x : x \in Destroyed(fs) <=> \/ x \in Destroyed(gs)
                                     \/ fs[1].op = "connectDestroyed" /\ x = fs[1].id
  BY <1>2 DEF Destroyed
<1>4. fs[1].op = "connectDestroyed" => fs[1].id \notin Destroyed(gs)
  <2> SUFFICES ASSUME fs[1].op = "connectDestroyed", fs[1].id \in Destroyed(gs) PROVE FALSE
    BY Zenon
  <2>1. PICK i \in DOMAIN gs : gs[i].op = "connectDestroyed" /\ gs[i].id = fs[1].id
    BY Zenon DEF Destroyed
  <2>2. fs[i + 1] = fs[1] /\ i + 1 \in DOMAIN fs
    BY <1>2, <2>1 DEF Functors
  <2>3. i + 1 = 1
    BY <1>2, <2>2, Zenon
  <2> QED BY <1>1, <2>1, <2>3
<1>5. /\ fs[1].op = "connectDestroyed" => /\ fs[1].id \in Destroyed(fs)
                                          /\ Destroyed(gs) = Destroyed(fs) \ {fs[1].id}
      /\ fs[1].op # "connectDestroyed" => Destroyed(gs) = Destroyed(fs)
  <2>1. CASE fs[1].op = "connectDestroyed"
    <3>1. \A x : x \in Destroyed(gs) <=> x \in Destroyed(fs) \ {fs[1].id}
      BY <1>3, <1>4, <2>1, Zenon
    <3>2. fs[1].id \in Destroyed(fs)
      BY <1>3, <2>1, Zenon
    <3> QED BY <2>1, <3>1, <3>2, Zenon
  <2>2. CASE fs[1].op # "connectDestroyed"
    <3>1. \A x : x \in Destroyed(gs) <=> x \in Destroyed(fs)
      BY <1>3, <2>2, Zenon
    <3> QED BY <2>2, <3>1, Zenon
  <2> QED BY <2>1, <2>2, Zenon
<1>6. Head(fs) = fs[1] /\ Head(fs) \in Functors
  BY <1>1, <1>2, Zenon
<1> HIDE DEF Destroyed, Functors
<1> QED BY <1>1, <1>2, <1>5, <1>6, Zenon DEF gs

-----------------------------------------------------------------------------
(* The steps.                                                              *)

LEMMA InitIInv == Init => IInv
<1> SUFFICES ASSUME Init PROVE IInv
  BY Zenon
<1>1. functors = <<>> /\ <<>> \in Seq(Functors) /\ DOMAIN functors = {} /\ Destroyed(functors) = {}
  BY DEF Init, Destroyed
<1>2. Alive = {} /\ nextConnId = 1 /\ backlog = 0 /\ clients = 0
  BY <1>1, Zenon DEF Init, Alive
<1>3. TypeOK
  <2>1. /\ state \in [Ids -> {"kConnecting", "kConnected", "kDisconnected"}]
        /\ sockfd \in [Ids -> Fds \cup {"none"}]
    BY Zenon DEF Init
  <2>2. /\ started \in BOOLEAN /\ listening \in BOOLEAN /\ died \in BOOLEAN
        /\ connectionMap \subseteq Ids /\ watched \subseteq Ids /\ held \subseteq Ids /\ open \subseteq Fds
    BY Zenon DEF Init
  <2> QED BY <1>1, <1>2, <2>1, <2>2 DEF TypeOK
<1>4. FdsOwned
  BY <1>1, <1>2, Zenon DEF Init, FdsOwned
<1> QED BY <1>2, <1>3, <1>4, MaxConnsAssumption DEF IInv

\* A functor is queued or run that destroys no connection: start() and listen().
LEMMA SameOwners ==
    ASSUME IInv, functors' \in Seq(Functors), listening' \in BOOLEAN, started' \in BOOLEAN,
           backlog' \in Nat, clients' \in Nat, died' \in BOOLEAN,
           nextConnId + backlog' <= clients' + 1, clients' <= MaxConns,
           Destroyed(functors)' = Destroyed(functors),
           \A i, j \in DOMAIN functors' :
               functors'[i].op = "connectDestroyed" /\ functors'[i] = functors'[j] => i = j,
           UNCHANGED <<nextConnId, connectionMap, state, watched, sockfd, open, held>>
    PROVE  IInv'
<1>1. Alive' = Alive
  BY Zenon DEF Alive
<1>2. TypeOK'
  BY Zenon DEF IInv, TypeOK
<1>3. FdsOwned'
  BY <1>1 DEF IInv, FdsOwned
<1> QED BY <1>1, <1>2, <1>3, Zenon DEF IInv

\* Queueing listen() keeps the other functors apart.
LEMMA StartStep == ASSUME IInv, NEW inLoop \in BOOLEAN, Start(inLoop) PROVE IInv'
<1> DEFINE f == Functor("listen", 0)
<1>1. functors \in Seq(Functors) /\ f \in Functors /\ f.op # "connectDestroyed"
  BY Zenon DEF IInv, TypeOK, Functors, Functor
<1>2. /\ functors' = functors \/ functors' = Append(functors, f)
      /\ started' \in BOOLEAN /\ listening' \in BOOLEAN
      /\ UNCHANGED <<backlog, clients, nextConnId, connectionMap, state, watched, sockfd, open, held, died>>
  BY Zenon DEF Start, ListenInLoop, IInv, TypeOK
<1> HIDE DEF f
<1>3. functors' \in Seq(Functors) /\ Destroyed(functors)' = Destroyed(functors)
  BY <1>1, <1>2, DestroyedAppend, Zenon
<1>4. \A i, j \in DOMAIN functors' :
         functors'[i].op = "connectDestroyed" /\ functors'[i] = functors'[j] => i = j
  <2>1. CASE functors' = functors
    BY <2>1, Zenon DEF IInv, FdsOwned
  <2>2. CASE functors' = Append(functors, f)
    <3>1. /\ DOMAIN functors = 1 .. Len(functors) /\ Len(functors) \in Nat
          /\ DOMAIN functors' = 1 .. Len(functors) + 1 /\ functors'[Len(functors) + 1] = f
          /\ \A i \in 1 .. Len(functors) : functors'[i] = functors[i]
      BY <1>1, <1>3, <2>2, AppendProperties, LenProperties
    <3>2. \A i \in DOMAIN functors' : i \in DOMAIN functors \/ functors'[i] = f
      BY <3>1
    <3>3. \A i, j \in DOMAIN functors :
             functors[i].op = "connectDestroyed" /\ functors[i] = functors[j] => i = j
      BY Zenon DEF IInv, FdsOwned
    <3> QED BY <1>1, <3>1, <3>2, <3>3, Zenon
  <2> QED BY <1>2, <2>1, <2>2, Zenon
<1>5. /\ backlog' \in Nat /\ clients' \in Nat /\ died' \in BOOLEAN
      /\ nextConnId + backlog' <= clients' + 1 /\ clients' <= MaxConns
  BY <1>2, Zenon DEF IInv, TypeOK
<1> QED BY <1>2, <1>3, <1>4, <1>5, SameOwners, Zenon

\* The backlog and the end of the process leave the connections alone.
LEMMA OutsideStep ==
    ASSUME IInv, ClientConnects \/ AcceptFails \/ AcceptDies
    PROVE  IInv'
<1>1. /\ UNCHANGED <<functors, started, listening, nextConnId, connectionMap, state, watched, sockfd, open, held>>
      /\ backlog' \in Nat /\ clients' \in Nat /\ died' \in BOOLEAN
      /\ nextConnId + backlog' <= clients' + 1 /\ clients' <= MaxConns
  <2> USE MaxConnsAssumption DEF IInv, TypeOK
  <2>1. CASE ClientConnects
    BY <2>1 DEF ClientConnects
  <2>2. CASE AcceptFails
    <3>1. backlog' \in Nat /\ backlog' <= backlog
      BY <2>2 DEF AcceptFails
    <3>2. /\ died' \in BOOLEAN
          /\ UNCHANGED <<functors, started, listening, clients, nextConnId, connectionMap, state, watched,
                         sockfd, open, held>>
      BY <2>2, Zenon DEF AcceptFails
    <3>3. clients' \in Nat /\ nextConnId + backlog' <= clients' + 1 /\ clients' <= MaxConns
      <4>1. /\ nextConnId \in Nat /\ backlog \in Nat /\ clients \in Nat
            /\ nextConnId + backlog <= clients + 1 /\ clients <= MaxConns
        BY Zenon
      <4> HIDE DEF IInv, TypeOK
      <4>2. clients' = clients
        BY <3>2, Zenon
      <4>3. \A m, n, k, l \in Nat : m + n <= k + 1 /\ l <= n => m + l <= k + 1
        OBVIOUS
      <4>4. nextConnId + backlog' <= clients + 1
        BY <3>1, <4>1, <4>3, Zenon
      <4> QED BY <4>1, <4>2, <4>4, Zenon
    <3> HIDE DEF IInv, TypeOK
    <3> QED BY <3>1, <3>2, <3>3, Zenon
  <2>3. CASE AcceptDies
    BY <2>3, Zenon DEF AcceptDies
  <2> QED BY <2>1, <2>2, <2>3, Zenon
<1>2. /\ functors' \in Seq(Functors) /\ listening' \in BOOLEAN /\ started' \in BOOLEAN
      /\ Destroyed(functors)' = Destroyed(functors)
      /\ \A i, j \in DOMAIN functors' :
            functors'[i].op = "connectDestroyed" /\ functors'[i] = functors'[j] => i = j
  BY <1>1, Zenon DEF IInv, TypeOK, FdsOwned
<1> QED BY <1>1, <1>2, SameOwners, Zenon

\* accept(2) returns a descriptor nobody has, for a connection with a number nobody has.
LEMMA AcceptStep == ASSUME IInv, HandleRead PROVE IInv'
<1> DEFINE n == nextConnId
<1>1. PICK fd \in Fds \ open : NewConnection(fd) /\ open' = open \cup {fd}
  BY Zenon DEF HandleRead
<1>2. /\ backlog > 0 /\ backlog' = backlog - 1
      /\ UNCHANGED <<started, listening, functors, clients, died>>
  BY Zenon DEF HandleRead
<1>3. n \in Ids /\ n \notin Alive
  BY <1>2, MaxConnsAssumption DEF IInv, TypeOK, Ids
<1>4. /\ nextConnId' = n + 1 /\ connectionMap' = connectionMap \cup {n} /\ watched' = watched \cup {n}
      /\ state' = [state EXCEPT ![n] = "kConnected"] /\ sockfd' = [sockfd EXCEPT ![n] = fd]
      /\ held' \in {held, held \cup {n}}
  BY <1>1, Zenon DEF NewConnection
<1>5. Destroyed(functors)' = Destroyed(functors)
  BY <1>2, Zenon
<1>6. Alive' = Alive \cup {n}
  BY <1>4, <1>5, Zenon DEF Alive
<1>7. TypeOK'
  BY <1>1, <1>2, <1>3, <1>4 DEF IInv, TypeOK
<1>8. sockfd'[n] = fd /\ \A id \in Alive : sockfd'[id] = sockfd[id] /\ sockfd[id] \in open
  BY <1>3, <1>4, Zenon DEF IInv, TypeOK, FdsOwned
<1>9. FdsOwned'
  <2>1. connectionMap' = watched' /\ watched' \cap Destroyed(functors)' = {}
    BY <1>3, <1>4, <1>5 DEF IInv, FdsOwned, Alive
  <2>2. open' = {sockfd'[id] : id \in Alive'}
    BY <1>1, <1>6, <1>8 DEF IInv, FdsOwned
  <2>3. \A id, jd \in Alive' : sockfd'[id] = sockfd'[jd] => id = jd
    BY <1>1, <1>6, <1>8 DEF IInv, FdsOwned
  <2>4. \A id \in Ids : state'[id] = "kConnected" <=> id \in watched' \cup Destroyed(functors)'
    BY <1>3, <1>4, <1>5, Zenon DEF IInv, TypeOK, FdsOwned
  <2> QED BY <1>2, <2>1, <2>2, <2>3, <2>4, Zenon DEF IInv, FdsOwned
<1>10. /\ Alive' \subseteq {id \in Ids : id < nextConnId'}
       /\ nextConnId' + backlog' <= clients' + 1 /\ clients' <= MaxConns
  BY <1>2, <1>3, <1>4, <1>6, MaxConnsAssumption DEF IInv, TypeOK, Ids
<1> QED BY <1>7, <1>9, <1>10, Zenon DEF IInv

\* A connection that closes leaves the map and is queued to be destroyed: its pointer
\* moves from the one to the other.
LEMMA CloseStep == ASSUME IInv, NEW id \in Ids, HandleClose(id) PROVE IInv'
<1> DEFINE f == Functor("connectDestroyed", id)
<1>1. /\ id \in watched /\ watched' = watched \ {id} /\ connectionMap' = connectionMap \ {id}
      /\ functors' = Append(functors, f) /\ died' \in BOOLEAN
      /\ UNCHANGED <<started, listening, backlog, clients, nextConnId, state, sockfd, open, held>>
  BY Zenon DEF HandleClose, Erase
<1>2. functors \in Seq(Functors) /\ f \in Functors /\ f.op = "connectDestroyed" /\ f.id = id
  BY DEF IInv, TypeOK, Functors, Functor, Ids
<1> HIDE DEF f
<1>3. functors' \in Seq(Functors) /\ Destroyed(functors)' = Destroyed(functors) \cup {id}
  BY <1>1, <1>2, DestroyedAppend, Zenon
<1>4. id \in connectionMap /\ id \notin Destroyed(functors)
  BY <1>1, Zenon DEF IInv, FdsOwned
<1>5. Alive' = Alive
  BY <1>1, <1>3, <1>4, Zenon DEF Alive
<1>6. \A i, j \in DOMAIN functors' :
         functors'[i].op = "connectDestroyed" /\ functors'[i] = functors'[j] => i = j
  <2>1. /\ DOMAIN functors = 1 .. Len(functors) /\ Len(functors) \in Nat
        /\ DOMAIN functors' = 1 .. Len(functors) + 1 /\ functors'[Len(functors) + 1] = f
        /\ \A i \in 1 .. Len(functors) : functors'[i] = functors[i]
    BY <1>1, <1>2, <1>3, AppendProperties, LenProperties
  <2>2. \A i \in DOMAIN functors : functors[i] # f
    BY <1>2, <1>4, Zenon DEF Destroyed
  <2>3. \A i \in DOMAIN functors' : i \in DOMAIN functors \/ i = Len(functors) + 1
    BY <2>1
  <2>4. \A i, j \in DOMAIN functors :
           functors[i].op = "connectDestroyed" /\ functors[i] = functors[j] => i = j
    BY Zenon DEF IInv, FdsOwned
  <2> QED BY <2>1, <2>2, <2>3, <2>4, Zenon
<1>7. TypeOK'
  BY <1>1, <1>3, Zenon DEF IInv, TypeOK
<1>8. FdsOwned'
  <2>1. connectionMap' = watched' /\ watched' \cap Destroyed(functors)' = {}
    BY <1>1, <1>3, Zenon DEF IInv, FdsOwned
  <2>2. \A d \in Ids : state'[d] = "kConnected" <=> d \in watched' \cup Destroyed(functors)'
    BY <1>1, <1>3, Zenon DEF IInv, FdsOwned
  <2> QED BY <1>1, <1>5, <1>6, <2>1, <2>2 DEF IInv, FdsOwned
<1> QED BY <1>1, <1>5, <1>7, <1>8, Zenon DEF IInv

\* connectDestroyed ends a connection and its pointer in the queue; the descriptor is
\* closed unless the application has another.
LEMMA FunctorStep == ASSUME IInv, RunFunctor PROVE IInv'
<1> DEFINE f == Head(functors)
<1>1. /\ functors \in Seq(Functors) /\ functors # <<>> /\ functors' = Tail(functors)
      /\ UNCHANGED <<started, backlog, clients, nextConnId, connectionMap, sockfd, held>>
  BY Zenon DEF RunFunctor, IInv, TypeOK
<1>2. \A i, j \in DOMAIN functors :
         functors[i].op = "connectDestroyed" /\ functors[i] = functors[j] => i = j
  BY Zenon DEF IInv, FdsOwned
<1>3. /\ functors' \in Seq(Functors) /\ f \in Functors
      /\ \A i \in DOMAIN functors' : functors'[i] = functors[i + 1] /\ i + 1 \in DOMAIN functors
      /\ f.op = "connectDestroyed" =>
            f.id \in Destroyed(functors) /\ Destroyed(functors)' = Destroyed(functors) \ {f.id}
      /\ f.op # "connectDestroyed" => Destroyed(functors)' = Destroyed(functors)
  BY <1>1, <1>2, DestroyedTail, Zenon
<1>4. \A i, j \in DOMAIN functors' :
         functors'[i].op = "connectDestroyed" /\ functors'[i] = functors'[j] => i = j
  <2>1. DOMAIN functors' \subseteq Nat
    BY <1>3, LenProperties
  <2> QED BY <1>2, <1>3, <2>1
<1>5. CASE f.op = "listen"
  <2>1. listening' \in BOOLEAN /\ UNCHANGED <<state, watched, open, died>>
    BY <1>5, Zenon DEF RunFunctor
  <2>2. /\ Destroyed(functors)' = Destroyed(functors) /\ started' \in BOOLEAN /\ died' \in BOOLEAN
        /\ backlog' \in Nat /\ clients' \in Nat
        /\ nextConnId + backlog' <= clients' + 1 /\ clients' <= MaxConns
    BY <1>1, <1>3, <1>5, <2>1, Zenon DEF IInv, TypeOK
  <2> QED BY <1>1, <1>3, <1>4, <2>1, <2>2, SameOwners, Zenon
<1>6. CASE f.op = "connectDestroyed"
  <2> DEFINE id == f.id
  <2>1. /\ died' \in BOOLEAN /\ UNCHANGED listening
        /\ state' = [state EXCEPT ![id] = "kDisconnected"] /\ watched' = watched \ {id}
        /\ open' = IF id \in connectionMap \cup held THEN open ELSE open \ {sockfd[id]}
    BY <1>6, Zenon DEF RunFunctor, Close
  <2>2. Destroyed(functors)' = Destroyed(functors) \ {id} /\ id \in Destroyed(functors)
    BY <1>3, <1>6, Zenon
  <2> HIDE DEF f
  <2>3. id \in Ids /\ id \in Alive /\ id \notin watched /\ id \notin connectionMap /\ watched' = watched
    BY <2>1, <2>2 DEF IInv, FdsOwned, Alive
  <2>4. Alive' = IF id \in held THEN Alive ELSE Alive \ {id}
    BY <1>1, <2>2, <2>3, Zenon DEF Alive
  <2>5. TypeOK'
    BY <1>1, <1>3, <2>1, <2>3, Zenon DEF IInv, TypeOK
  <2>6. FdsOwned'
    <3>1. connectionMap' = watched' /\ watched' \cap Destroyed(functors)' = {}
      BY <1>1, <2>2, <2>3, Zenon DEF IInv, FdsOwned
    <3>2. open' = {sockfd'[d] : d \in Alive'}
      BY <1>1, <2>1, <2>3, <2>4 DEF IInv, FdsOwned
    <3>3. \A d, e \in Alive' : sockfd'[d] = sockfd'[e] => d = e
      BY <1>1, <2>4, Zenon DEF IInv, FdsOwned
    <3>4. \A d \in Ids : state'[d] = "kConnected" <=> d \in watched' \cup Destroyed(functors)'
      BY <2>1, <2>2, <2>3 DEF IInv, TypeOK, FdsOwned
    <3> QED BY <1>4, <3>1, <3>2, <3>3, <3>4, Zenon DEF FdsOwned
  <2> QED BY <1>1, <2>4, <2>5, <2>6, Zenon DEF IInv
<1> QED BY <1>3, <1>5, <1>6, Zenon DEF Functors

\* The application's pointer was the last one, or not.
LEMMA DropStep == ASSUME IInv, NEW id \in Ids, DropRef(id) PROVE IInv'
<1>1. /\ id \in held /\ held' = held \ {id}
      /\ open' = IF id \in connectionMap \cup Destroyed(functors) THEN open ELSE open \ {sockfd[id]}
      /\ UNCHANGED <<started, listening, functors, backlog, clients, nextConnId, connectionMap, state, watched,
                     sockfd, died>>
  BY Zenon DEF DropRef, Close
<1>2. Destroyed(functors)' = Destroyed(functors)
  BY <1>1, Zenon
<1>3. Alive' = IF id \in connectionMap \cup Destroyed(functors) THEN Alive ELSE Alive \ {id}
  BY <1>1, <1>2, Zenon DEF Alive
<1>4. id \in Alive
  BY <1>1, Zenon DEF Alive
<1>5. TypeOK'
  BY <1>1, Zenon DEF IInv, TypeOK
<1>6. FdsOwned'
  <2>1. open' = {sockfd'[d] : d \in Alive'}
    BY <1>1, <1>3, <1>4 DEF IInv, FdsOwned
  <2>2. \A d, e \in Alive' : sockfd'[d] = sockfd'[e] => d = e
    BY <1>1, <1>3, Zenon DEF IInv, FdsOwned
  <2> QED BY <1>1, <1>2, <2>1, <2>2, Zenon DEF IInv, FdsOwned
<1> QED BY <1>1, <1>3, <1>5, <1>6, Zenon DEF IInv

-----------------------------------------------------------------------------

LEMMA IInvStep == IInv /\ [Next]_vars => IInv'
<1> SUFFICES ASSUME IInv, [Next]_vars PROVE IInv'
  BY Zenon
<1>1. ASSUME NEW inLoop \in BOOLEAN, Start(inLoop) PROVE IInv'
  BY <1>1, StartStep, Zenon
<1>2. CASE ClientConnects \/ AcceptFails \/ AcceptDies
  BY <1>2, OutsideStep, Zenon
<1>3. CASE HandleRead
  BY <1>3, AcceptStep, Zenon
<1>4. CASE RunFunctor
  BY <1>4, FunctorStep, Zenon
<1>5. ASSUME NEW id \in Ids, HandleClose(id) PROVE IInv'
  BY <1>5, CloseStep, Zenon
<1>6. ASSUME NEW id \in Ids, DropRef(id) PROVE IInv'
  BY <1>6, DropStep, Zenon
<1>7. CASE UNCHANGED vars
  BY <1>7 DEF vars, IInv, TypeOK, FdsOwned, Alive, Destroyed
<1> QED BY <1>1, <1>2, <1>3, <1>4, <1>5, <1>6, <1>7, Zenon DEF Next

\* TcpServer.cpp and Socket.cc, for any descriptors and any number of clients: the map
\* holds the connections that are up, no two pointers to different connections share a
\* descriptor, and a descriptor is open exactly as long as there is a pointer to its
\* connection.
THEOREM FdsCorrect == Spec => []FdsOwned
<1>1. IInv /\ [Next]_vars => IInv'
  BY IInvStep, Zenon
<1>2. IInv => FdsOwned
  BY Zenon DEF IInv
<1> QED BY InitIInv, <1>1, <1>2, PTL DEF Spec

\* handleClose, removeConnectionInLoop and connectDestroyed, for any number of
\* connections: none of their assertions fails, so that only accept(2) ends the
\* process.
THEOREM OnlyAcceptDies == Spec => [][died' = died \/ AcceptDies]_vars
<1>1. IInv /\ [Next]_vars => IInv'
  BY IInvStep, Zenon
<1>2. IInv /\ [Next]_vars => [died' = died \/ AcceptDies]_vars
  <2> SUFFICES ASSUME IInv, Next PROVE died' = died \/ AcceptDies
    BY Zenon
  <2>1. died = FALSE
    BY Zenon DEF Next, IInv, TypeOK
  <2>2. CASE \/ \E inLoop \in BOOLEAN : Start(inLoop)
            \/ ClientConnects \/ HandleRead \/ AcceptFails \/ AcceptDies
            \/ \E id \in Ids : DropRef(id)
    BY <2>2, Zenon DEF Start, ClientConnects, HandleRead, AcceptFails, DropRef
  <2>3. ASSUME NEW id \in Ids, HandleClose(id) PROVE died' = died
    <3>1. id \in watched /\ died' = (state[id] # "kConnected" \/ id \notin connectionMap)
      BY <2>3, Zenon DEF HandleClose
    <3>2. state[id] = "kConnected" /\ id \in connectionMap
      BY <3>1, Zenon DEF IInv, FdsOwned
    <3> QED BY <2>1, <3>1, <3>2, Zenon
  <2>4. CASE RunFunctor
    <3> DEFINE f == Head(functors)
    <3>1. \/ f.op = "listen" /\ died' = died
          \/ f.op # "listen" /\ died' = (state[f.id] # "kConnected")
      BY <2>4, Zenon DEF RunFunctor
    <3>2. ASSUME f.op # "listen" PROVE state[f.id] = "kConnected"
      <4>1. f \in Functors /\ (f.op = "connectDestroyed" => f.id \in Destroyed(functors))
        BY <2>4, DestroyedTail, Zenon DEF RunFunctor, IInv, TypeOK, FdsOwned
      <4>2. f.id \in Destroyed(functors)
        BY <3>2, <4>1, Zenon DEF Functors
      <4> HIDE DEF f
      <4> QED BY <4>2, Zenon DEF IInv, FdsOwned, Alive
    <3> QED BY <2>1, <3>1, <3>2, Zenon
  <2> QED BY <2>2, <2>3, <2>4, Zenon DEF Next
<1> QED BY InitIInv, <1>1, <1>2, PTL DEF Spec

=============================================================================
