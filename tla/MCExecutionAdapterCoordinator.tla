-------------------- MODULE MCExecutionAdapterCoordinator --------------------
(* ExecutionAdapterCoordinator on small sets. *)
EXTENDS ExecutionAdapterCoordinator, TLC
CONSTANTS t1, t2, c1, g1, g2, g3

(* Processes are interchangeable: nothing orders or prefers one. *)
Symmetry == Permutations(Generation) \cup Permutations(Thread)

(* An attach to an earlier epoch fails without a trace: revisions only grow
   while a thread can still be at the terminal, so it is as good as none. *)
View ==
  <<authority, job, world, owned, deleted, unrecovered,
    [t \in Thread |-> attaching[t] = states[t].revision]>>
=============================================================================
