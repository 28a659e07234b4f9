----------------------------- MODULE TcpServer -----------------------------
(***************************************************************************)
(* muduo/TcpServer.cpp, Acceptor.cpp and the socket calls of them: a       *)
(* server that accepts, one connection for each report of its listening    *)
(* socket, while the process has descriptors.  All of it runs in the base  *)
(* loop, as start() does not start the thread pool; another thread may     *)
(* call start() and keep a connection.  Of a connection there is its       *)
(* state; TcpConnection has the rest.                                      *)
(***************************************************************************)
EXTENDS Naturals, Sequences

CONSTANTS Fds,          \* the descriptors left for connections
          MaxConns      \* bound: the clients that connect

ASSUME MaxConnsAssumption == MaxConns \in Nat

VARIABLES started, listening,
          functors,     \* the loop's pendingFunctors
          backlog,      \* completed connections that wait for accept(2)
          clients,      \* history: the clients that have connected
          nextConnId,
          connectionMap,
          state,        \* of each connection, by its number
          watched,      \* the connections whose channel wants events
          sockfd,       \* its descriptor
          open,         \* the open descriptors
          held,         \* the connections to which the application has a pointer
          died          \* LOG_FATAL or an assertion has ended the process

vars == <<started, listening, functors, backlog, clients, nextConnId, connectionMap, state, watched, sockfd,
          open, held, died>>

Ids == 1 .. MaxConns
Functor(op, id) == [op |-> op, id |-> id]

\* The connections whose connectDestroyed is queued in fs.
Destroyed(fs) == {fs[i].id : i \in {j \in DOMAIN fs : fs[j].op = "connectDestroyed"}}

\* The connections to which there is a pointer.
Alive == connectionMap \cup held \cup Destroyed(functors)

Init ==
    /\ started = FALSE /\ listening = FALSE /\ functors = <<>>
    /\ backlog = 0 /\ clients = 0 /\ nextConnId = 1 /\ connectionMap = {}
    /\ state = [id \in Ids |-> "kConnecting"] /\ watched = {} /\ sockfd = [id \in Ids |-> "none"]
    /\ open = {} /\ held = {} /\ died = FALSE

\* Mutant: in another thread nothing is queued.
ListenInLoopNot(inLoop) == listening' = inLoop /\ UNCHANGED functors

\* start(): loop->runInLoop(listen)
ListenInLoop(inLoop) ==
    /\ listening' = inLoop
    /\ functors' = IF inLoop THEN functors ELSE Append(functors, Functor("listen", 0))

\* start(), in the loop's thread or in another one, any number of times.
Start(inLoop) ==
    /\ started' = TRUE
    /\ IF listening THEN UNCHANGED <<listening, functors>> ELSE ListenInLoop(inLoop)
    /\ Len(functors') <= MaxConns       \* bound
    /\ UNCHANGED <<backlog, clients, nextConnId, connectionMap, state, watched, sockfd, open, held, died>>

\* A client connects.
ClientConnects ==
    /\ listening
    /\ clients < MaxConns
    /\ clients' = clients + 1
    /\ backlog' = backlog + 1
    /\ UNCHANGED <<started, listening, functors, nextConnId, connectionMap, state, watched, sockfd, open,
                   held, died>>

\* newConnection: the loop is the base loop, so that connectEstablished runs at once;
\* the callback of the application may keep the pointer.
NewConnection(fd) ==
    /\ nextConnId' = nextConnId + 1
    /\ connectionMap' = connectionMap \cup {nextConnId}
    /\ state' = [state EXCEPT ![nextConnId] = "kConnected"]
    /\ watched' = watched \cup {nextConnId}
    /\ sockfd' = [sockfd EXCEPT ![nextConnId] = fd]
    /\ held' \in {held, held \cup {nextConnId}}

\* handleRead: accept(2) returns a descriptor ...
HandleRead ==
    /\ listening /\ backlog > 0
    /\ backlog' = backlog - 1
    /\ \E fd \in Fds \ open : NewConnection(fd) /\ open' = open \cup {fd}
    /\ UNCHANGED <<started, listening, functors, clients, died>>

\* ... or an expected error, after which the client is still there (EMFILE, EINTR) or
\* not (ECONNABORTED) ...
AcceptFails ==
    /\ listening /\ backlog > 0
    /\ backlog' \in {backlog - 1, backlog}
    /\ UNCHANGED <<started, listening, functors, clients, nextConnId, connectionMap, state, watched, sockfd,
                   open, held, died>>

\* ... or one that is not.
AcceptDies ==
    /\ listening /\ backlog > 0
    /\ died' = TRUE
    /\ UNCHANGED <<started, listening, functors, backlog, clients, nextConnId, connectionMap, state, watched,
                   sockfd, open, held>>

\* Mutant: the map keeps the connection.
EraseNot(id) == connectionMap

\* removeConnectionInLoop: connectionMap.erase()
Erase(id) == connectionMap \ {id}

\* The connection closes: its state stays, and its channel is disabled; then
\* removeConnection, in the base loop, and what it queues.
HandleClose(id) ==
    /\ id \in watched
    /\ watched' = watched \ {id}
    /\ died' = (state[id] # "kConnected" \/ id \notin connectionMap)
    /\ connectionMap' = Erase(id)
    /\ functors' = Append(functors, Functor("connectDestroyed", id))
    /\ UNCHANGED <<started, listening, backlog, clients, nextConnId, state, sockfd, open, held>>

\* ~Socket, with the last pointer to the connection.
Close(id, pointers) == open' = IF id \in pointers THEN open ELSE open \ {sockfd[id]}

\* doPendingFunctors: the next one.
RunFunctor ==
    /\ functors # <<>>
    /\ functors' = Tail(functors)
    /\ LET f == Head(functors)
       IN  IF f.op = "listen"
             THEN listening' = TRUE /\ UNCHANGED <<state, watched, open, died>>
             ELSE /\ died' = (state[f.id] # "kConnected")
                  /\ state' = [state EXCEPT ![f.id] = "kDisconnected"]
                  /\ watched' = watched \ {f.id}
                  /\ Close(f.id, connectionMap \cup held)
                  /\ UNCHANGED listening
    /\ UNCHANGED <<started, backlog, clients, nextConnId, connectionMap, sockfd, held>>

\* The application drops its pointer.
DropRef(id) ==
    /\ id \in held
    /\ held' = held \ {id}
    /\ Close(id, connectionMap \cup Destroyed(functors))
    /\ UNCHANGED <<started, listening, functors, backlog, clients, nextConnId, connectionMap, state, watched,
                   sockfd, died>>

Next ==
    /\ ~died
    /\ \/ \E inLoop \in BOOLEAN : Start(inLoop)
       \/ ClientConnects \/ HandleRead \/ AcceptFails \/ AcceptDies \/ RunFunctor
       \/ \E id \in Ids : HandleClose(id) \/ DropRef(id)

Spec == Init /\ [][Next]_vars

-----------------------------------------------------------------------------

\* removeConnectionInLoop, ~Socket: the map holds the connections that are up, with a
\* descriptor each that nobody else has; one that went down is destroyed once; and a
\* descriptor is closed when, and not before, the last pointer to its connection goes.
FdsOwned ==
    /\ connectionMap = watched
    /\ open = {sockfd[id] : id \in Alive}
    /\ \A id, jd \in Alive : sockfd[id] = sockfd[jd] => id = jd
    /\ \A id \in Ids : state[id] = "kConnected" <=> id \in watched \cup Destroyed(functors)
    /\ watched \cap Destroyed(functors) = {}
    /\ \A i, j \in DOMAIN functors :
           functors[i].op = "connectDestroyed" /\ functors[i] = functors[j] => i = j

\* start(), handleRead: a server that is started listens, and as long as there is a
\* descriptor the clients are accepted, one by one, also when there had been none.
BacklogServed ==
    /\ started ~> listening \/ died
    /\ backlog > 0 ~> backlog = 0 \/ open = Fds \/ died

=============================================================================
