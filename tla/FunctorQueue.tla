---------------------------- MODULE FunctorQueue ----------------------------
(***************************************************************************)
(* What an EventLoop promises to the callers of queueInLoop: the functors  *)
(* it accepts form one FIFO queue; the loop thread takes them out one by   *)
(* one, in order, each exactly once.                                       *)
(***************************************************************************)
EXTENDS Sequences

CONSTANT Functors

VARIABLE queue

Init == queue = <<>>

\* Some thread hands over f.
Submit == \E f \in Functors : queue' = Append(queue, f)

\* The loop thread starts executing the oldest functor.
Execute == queue # <<>> /\ queue' = Tail(queue)

Next == Submit \/ Execute

Spec == Init /\ [][Next]_queue
=============================================================================
