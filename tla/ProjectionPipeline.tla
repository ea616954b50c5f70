--------------------------- MODULE ProjectionPipeline ---------------------------
(***************************************************************************)
(* The event log and the tables derived from it.                           *)
(*                                                                         *)
(* Every projector keeps a cursor, the sequence of the last event it is    *)
(* done with, and writes tables.  An event is projected by the hot         *)
(* projectors in the transaction that appends it, and by the deferred      *)
(* projector of the thread summaries after that transaction.  A bootstrap  *)
(* replays, projector by projector, the events behind each cursor.         *)
(*                                                                         *)
(* The content of a table is the set of events it reflects.  Left out: the *)
(* rows themselves, attachments on disk, and the purge of deleted threads. *)
(***************************************************************************)
EXTENDS Integers, Sequences, FiniteSetsExt

CONSTANTS
  Aggregate,  \* projects and threads
  Command,    \* command ids
  projectors, \* the projectors, in the order a bootstrap runs them
  ReadLimit   \* the most events one replay reads: 1000 in the code

ASSUME ReadLimitAssumption == ReadLimit \in Nat \ {0}

VARIABLES
  log,     \* the event log: an event's sequence is its place in it
  cursor,  \* lastAppliedSequence of each projector; 0 when it has no row
  rows     \* rows[p]: the events the tables of p reflect

pipeline == <<log, cursor, rows>>

Projector == {projectors[i] : i \in 1..Len(projectors)}
Summaries == "threadShellSummaries"
HotProjector == Projector \ {Summaries}

(* The phase cursor "hot" stands for all hot projectors together. *)
Cursor == Projector \cup {"hot"}

ASSUME ProjectorsAssumption ==
  /\ projectors \in Seq(STRING) /\ "hot" \notin Projector
  /\ {"projects", Summaries} \subseteq Projector

PROJECT_EVENT_TYPES == {"project.created", "project.meta-updated", "project.deleted"}

(* A user's message: the assistant's go to other projectors. *)
EventType ==
  PROJECT_EVENT_TYPES \cup
  {"thread.created", "thread.message-sent", "thread.turn-start-requested",
   "thread.session-set", "thread.turn-diff-completed",
   "thread.proposed-plan-upserted", "thread.activity-appended",
   "thread.approval-response-requested"}

(* makeProjectorDefinitions, the ten projectors of the product. *)
ShouldApply(p) ==
  CASE p = "projects" -> PROJECT_EVENT_TYPES
    [] p = "threadMessages" -> {"thread.message-sent"}
    [] p = "threadProposedPlans" -> {"thread.proposed-plan-upserted"}
    [] p = "threadActivities" -> {"thread.activity-appended"}
    [] p = "threadSessions" -> {"thread.session-set"}
    [] p = "threadTurns" ->
         {"thread.turn-start-requested", "thread.session-set", "thread.turn-diff-completed"}
    [] p = "checkpoints" -> {}
    [] p = "pendingApprovals" ->
         {"thread.approval-response-requested", "thread.activity-appended"}
    [] p = "threads" -> {"thread.created", "thread.turn-start-requested"}
    [] p = Summaries ->
         {"thread.message-sent", "thread.proposed-plan-upserted",
          "thread.approval-response-requested", "thread.session-set",
          "thread.turn-diff-completed", "thread.activity-appended"}

Sequence == 1..Len(log)

Applies(p, s) == log[s].type \in ShouldApply(p)

PROJECT_METADATA_SNAPSHOT_PROJECTORS ==
  {"hot", "projects", "threads", "threadMessages", "threadProposedPlans",
   "threadActivities", "threadSessions", "checkpoints"}

-----------------------------------------------------------------------------
(* One event *)

(* The cursors that the transaction appending an event of this type sets.  A
   project event sets those of projectors it does not concern. *)
MovedBy(type) ==
  IF type \in PROJECT_EVENT_TYPES
    THEN PROJECT_METADATA_SNAPSHOT_PROJECTORS
    ELSE {"hot"} \cup {p \in HotProjector : type \in ShouldApply(p)}

(* A cursor is written by an upsert that never takes it back; only the reset and
   the restore of a repair do. *)
Upserted(stored, sequence) == Max({stored, sequence})

(* The transaction of a command: its events are appended, and projected by the
   hot projectors, all or none. *)
CommitEvents(events) ==
  LET added == Len(log) + 1 .. Len(log) + Len(events)
      Latest(p) == {s \in added : p \in MovedBy(events[s - Len(log)].type)}
  IN /\ log' = log \o events
     /\ cursor' = [p \in Cursor |-> IF Latest(p) = {} THEN cursor[p]
                                   ELSE Upserted(cursor[p], Max(Latest(p)))]
     /\ rows' = [p \in Projector |->
                   IF p \in HotProjector
                     THEN rows[p] \cup
                          {s \in added : events[s - Len(log)].type \in ShouldApply(p)}
                     ELSE rows[p]]

LATEST_TURN_EVENT_TYPES == {"thread.session-set", "thread.turn-diff-completed"}

(* A refresh recomputes the summary of the event's thread from the other tables
   and so takes in events that were missed, but not the latest turn: that comes
   with the event, and only a session event always replaces it. *)
RefreshedBy(s) ==
  {r \in Sequence :
     /\ Applies(Summaries, r) /\ log[r].aggregate = log[s].aggregate
     /\ \/ r = s
        \/ log[r].type \notin LATEST_TURN_EVENT_TYPES
        \/ r < s /\ log[s].type = "thread.session-set"}

(* The deferred projector is done with s whether or not s concerns it, and
   whether or not it has seen the events before s. *)
ProjectDeferredEvent(s) ==
  /\ cursor' = [cursor EXCEPT ![Summaries] = Upserted(@, s)]
  /\ rows' = IF Applies(Summaries, s)
               THEN [rows EXCEPT ![Summaries] = @ \cup RefreshedBy(s)]
               ELSE rows
  /\ UNCHANGED log

-----------------------------------------------------------------------------
(* Bootstrap, from the cursors c and the tables r.  Each replayed event is a
   transaction of its own: a bootstrap that fails keeps what it had done. *)

ReadFromSequence(sequence) ==
  sequence + 1 .. Min({Len(log), sequence + ReadLimit})

(* A hot projector that has not seen an event of its own for a while was
   covered by the hot cursor: its own cursor need not be replayed. *)
FastForwarded(c) ==
  [p \in Cursor |->
     IF p \in HotProjector /\ c[p] # 0 /\ c[p] < c["hot"] THEN c["hot"] ELSE c[p]]

(* What p writes when it applies the events of S. *)
Written(p, S) ==
  LET applied == {s \in S : Applies(p, s)}
  IN IF p = Summaries THEN UNION {RefreshedBy(s) : s \in applied} ELSE applied

(* p has replayed all it read: it is done with the last event even when it
   skipped it. *)
BootstrapProjector(p, c, r) ==
  LET read == ReadFromSequence(c[p])
  IN [cursor |-> IF read = {} THEN c[p] ELSE Max(read), rows |-> r[p] \cup Written(p, read)]

(* p stopped in front of the event f. *)
StoppedProjector(p, f, c, r) ==
  LET read == {s \in ReadFromSequence(c[p]) : s < f}
      applied == {s \in read : Applies(p, s)}
  IN [cursor |-> IF applied = {} THEN c[p] ELSE Max(applied), rows |-> r[p] \cup Written(p, read)]

(* The state in which the first n projectors are through, and the next one
   stopped in front of f. *)
Progress(n, f, c, r) ==
  LET Of(p) ==
        LET i == CHOOSE i \in 1..Len(projectors) : projectors[i] = p
        IN IF i <= n THEN BootstrapProjector(p, c, r)
           ELSE IF i = n + 1 THEN StoppedProjector(p, f, c, r)
           ELSE [cursor |-> c[p], rows |-> r[p]]
  IN [cursor |-> [p \in Cursor |-> IF p = "hot" THEN c[p] ELSE Of(p).cursor],
      rows |-> [p \in Projector |-> Of(p).rows]]

(* A hot cursor that was reset restarts from the hot projector furthest behind. *)
InitializeHotCursor(c) ==
  LET stored == {c[p] : p \in HotProjector} \ {0}
  IN IF stored = {} THEN c ELSE [c EXCEPT !["hot"] = Upserted(@, Min(stored))]

Bootstrapped(c, r) ==
  LET end == Progress(Len(projectors), 0, FastForwarded(c), r)
  IN [end EXCEPT !.cursor = InitializeHotCursor(@)]

(* Where a bootstrap that fails may have left the store. *)
BrokenOff(c, r) ==
  {[cursor |-> c, rows |-> r]} \cup
  {Progress(n, f, FastForwarded(c), r) : n \in 0..Len(projectors), f \in Sequence}

Becomes(store) == /\ cursor' = store.cursor
                  /\ rows' = store.rows
                  /\ UNCHANGED log

Bootstrap == Becomes(Bootstrapped(cursor, rows))
BootstrapFails == \E store \in BrokenOff(cursor, rows) : Becomes(store)

(* What the repair of local state deletes before it bootstraps. *)
ResetDerivedProjectionState ==
  Becomes([cursor |-> [p \in Cursor |->
                         IF p \in PROJECT_METADATA_SNAPSHOT_PROJECTORS THEN 0 ELSE cursor[p]],
           rows |-> [rows EXCEPT !["projects"] = {}]])

-----------------------------------------------------------------------------
(* The command read model, loaded from the tables *)

ComputeSnapshotSequence == Min({cursor["hot"], cursor[Summaries]})

SnapshotTables ==
  {"projects", "threads", "threadProposedPlans", "threadSessions", "threadTurns"}

GetCommandReadModel ==
  [snapshotSequence |-> ComputeSnapshotSequence,
   reflects |-> {s \in Sequence : \A p \in SnapshotTables : Applies(p, s) => s \in rows[p]}]

PipelineInit ==
  /\ log = << >>
  /\ cursor = [p \in Cursor |-> 0]
  /\ rows = [p \in Projector |-> {}]
=============================================================================
