--------------------- MODULE MCExecutionAdapterAuthority ---------------------
(***************************************************************************)
(* Instances of ExecutionAdapterAuthority for TLC.  Threads, claims,       *)
(* generations and pids are only ever compared, so each set is symmetric.  *)
(***************************************************************************)
EXTENDS ExecutionAdapterAuthority, TLC

Symmetry ==
  Permutations(Thread) \cup Permutations(ClaimId)
    \cup Permutations(Generation) \cup Permutations(Pid)
=============================================================================
