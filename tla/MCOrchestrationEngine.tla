------------------------- MODULE MCOrchestrationEngine -------------------------
(* OrchestrationEngine on small sets. *)
EXTENDS OrchestrationEngine, TLC
CONSTANTS t1, c1, c2

(* project.create, and thread.turn.start with its message and its request. *)
TurnsAndProjects ==
  {<<"project.created">>, <<"thread.message-sent", "thread.turn-start-requested">>}

(* Of the projectors that events of these types concern, those that differ in
   their events, in what a project event and a repair do to their cursors, or
   in their phase. *)
SomeProjectors ==
  <<"projects", "threadMessages", "threadTurns", "threads", "threadShellSummaries">>

(* Commands are interchangeable. *)
Symmetry == Permutations(Command)
=============================================================================
