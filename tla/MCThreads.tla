----------------------------- MODULE MCThreads -----------------------------
(***************************************************************************)
(* The programs with threads that are not loggers, one in each behaviour:  *)
(* a ThreadPool, a TcpServer.  The other stays in its initial state.       *)
(***************************************************************************)
EXTENDS TcpServer

CONSTANTS PoolSize, MaxTasks

VARIABLES
    program,
    poolOwner, threads, running, queue, waiting, worker, tasks, taken, missed, aborted

poolVars == <<poolOwner, threads, running, queue, waiting, worker, tasks, taken, missed, aborted>>
allVars == <<program, poolVars, vars>>

P == INSTANCE ThreadPool WITH owner <- poolOwner

MCInit ==
    /\ P!Init /\ Init
    /\ program \in {"pool", "server"}

Pool(A) == program = "pool" /\ ~aborted /\ A /\ UNCHANGED <<program, vars>>
Server(A) == program = "server" /\ ~died /\ A /\ UNCHANGED <<program, poolVars>>

MCNext == Pool(P!Next) \/ Server(Next)

\* The threads run: every worker, and the owner once it has begun to start or to
\* stop.  The server's loop runs its functors, and accept(2), called again and again
\* while clients wait and there are descriptors, succeeds.
MCSpec ==
    /\ MCInit /\ [][MCNext]_allVars
    /\ \A w \in 1 .. PoolSize : WF_allVars(Pool(P!WorkerStep(w)))
    /\ WF_allVars(Pool(P!OwnerStep))
    /\ WF_allVars(Server(RunFunctor)) /\ SF_allVars(Server(HandleRead))

\* ThreadPool.cc, run and take: see ThreadPool.
TasksRun == P!TasksRun

\* ThreadPool.cc, stop: see ThreadPool.
StopReturns == P!StopReturns

=============================================================================
