--------------------------- MODULE OrchestrationEngine ---------------------------
(***************************************************************************)
(* The command path: dispatch, the one worker, receipts, the command read  *)
(* model, the stream of domain events, and the maintenance that shares     *)
(* their lock.                                                             *)
(*                                                                         *)
(* A caller queues an envelope and waits with a timeout.  The worker takes *)
(* the envelopes in turn and, under the maintenance lock, commits the      *)
(* events of a command together with its receipt; everything it does after *)
(* the commit can still be cut short by the command's timeout, by a        *)
(* failure or by a crash, and is then made good from the log.              *)
(*                                                                         *)
(* Left out: what a command asks for (the decider accepts or rejects it    *)
(* freely), the admission by ExecutionAdapterAuthority that precedes a     *)
(* dispatch, and the order in which waiters get the lock.                  *)
(***************************************************************************)
EXTENDS ProjectionPipeline

CONSTANTS
  Decision,     \* the event types a decider may answer a command with
  MaxEvents,    \* bound: events in the log
  MaxDispatch,  \* bound: dispatches
  MaxCrash,     \* bound: crashes of the server
  MaxRepair     \* bound: repairs of the local state

ASSUME DecisionAssumption ==
  \A d \in Decision : d \in Seq(EventType) /\ Len(d) > 0

(* A table that the model is loaded from has its projector listed, unless no
   event concerns it. *)
ASSUME ListedAssumption ==
  \A d \in Decision : \A i \in 1..Len(d), p \in SnapshotTables :
    d[i] \in ShouldApply(p) => p \in Projector

VARIABLES
  receipts,          \* receipts[c]: how c was settled
  envelope,          \* the dispatches so far, each with its execution state and answer
  commandQueue,      \* envelopes not taken by the worker
  worker,            \* what the worker is doing
  commandReadModel,  \* the sequence it stands at and the events it reflects
  heard,             \* what streamDomainEvents has published since the start
  dirty,             \* a deferred projection failed and is not made up for
  catchUpInFlight,   \* a catch-up waits for the lock
  repair,            \* the backup of a repair under way
  up,                \* the engine runs
  crashes, repairs,  \* counters for the bounds
  base,              \* auxiliary: the length of the log at the start
  skipped,           \* auxiliary: events whose deferred projection was cut off
  degraded           \* auxiliary: the recoveries that themselves failed

engine == <<commandQueue, worker, commandReadModel, heard, dirty, catchUpInFlight, repair>>
auxiliary == <<base, skipped, degraded>>
bounds == <<crashes, repairs>>
vars == <<pipeline, receipts, envelope, engine, up, auxiliary, bounds>>

NoReceipt == [status |-> "none", sequence |-> 0]
Unanswered == [kind |-> "none", sequence |-> 0]
NoRepair == [under |-> FALSE]

Idle ==
  [step |-> "idle", envelope |-> 0, start |-> 0, first |-> 0, last |-> 0, next |-> 0,
   error |-> "none"]

EmptyModel == [snapshotSequence |-> 0, reflects |-> {}]

current == envelope[worker.envelope].command

(* The worker holds the lock from the moment it begins to the answer; a
   repair holds it between its steps.  A catch-up and a refresh are one step
   here: nobody else writes what they read. *)
Holding == worker.step \notin {"idle", "waiting"}
MaintenanceLockFree == up /\ ~Holding /\ ~repair.under

Failure(kind) == [kind |-> kind, sequence |-> 0]

Answer(e, a) ==
  envelope' = [envelope EXCEPT ![e].answer = IF @ = Unanswered THEN a ELSE @]

At(step) == worker' = [worker EXCEPT !.step = step]

Fail(error) ==
  worker' = [Idle EXCEPT !.step = "failed", !.envelope = worker.envelope,
                         !.start = worker.start, !.error = error]

-----------------------------------------------------------------------------
(* Callers *)

Dispatch(c) ==
  /\ up
  /\ Len(envelope) < MaxDispatch
  /\ envelope' = Append(envelope, [command |-> c, state |-> "queued", answer |-> Unanswered])
  /\ commandQueue' = Append(commandQueue, Len(envelope'))
  /\ UNCHANGED <<pipeline, receipts, worker, commandReadModel, heard, dirty,
                 catchUpInFlight, repair, up, auxiliary, bounds>>

(* The caller's timer.  A command the worker has begun is waited for. *)
DispatchTimeout(e) ==
  /\ up
  /\ envelope[e].state = "queued"
  /\ envelope' = [envelope EXCEPT ![e].state = "abandoned", ![e].answer = Failure("timeout")]
  /\ UNCHANGED <<pipeline, receipts, engine, up, auxiliary, bounds>>

-----------------------------------------------------------------------------
(* The worker *)

(* Where a reconciliation will start is read before the lock is taken.  So is
   the budget left; none left is a timeout as soon as the run begins. *)
TakeEnvelope ==
  /\ up /\ worker.step = "idle" /\ commandQueue # << >>
  /\ worker' = [Idle EXCEPT !.step = "waiting", !.envelope = Head(commandQueue),
                            !.start = commandReadModel.snapshotSequence]
  /\ commandQueue' = Tail(commandQueue)
  /\ UNCHANGED <<pipeline, receipts, envelope, commandReadModel, heard, dirty,
                 catchUpInFlight, repair, up, auxiliary, bounds>>

SkipAbandoned ==
  /\ MaintenanceLockFree /\ worker.step = "waiting"
  /\ envelope[worker.envelope].state = "abandoned"
  /\ worker' = Idle
  /\ UNCHANGED <<pipeline, receipts, envelope, commandQueue, commandReadModel, heard,
                 dirty, catchUpInFlight, repair, up, auxiliary, bounds>>

Begin ==
  /\ MaintenanceLockFree /\ worker.step = "waiting"
  /\ envelope[worker.envelope].state # "abandoned"
  /\ envelope' = [envelope EXCEPT ![worker.envelope].state = "in-flight"]
  /\ At("running")
  /\ UNCHANGED <<pipeline, receipts, commandQueue, commandReadModel, heard, dirty,
                 catchUpInFlight, repair, up, auxiliary, bounds>>

ReceiptAnswer_AnyReceipt(c) ==                                         \* mutant
  [kind |-> "accepted", sequence |-> receipts[c].sequence]

ReceiptAnswer_AcceptedOnly(c) ==                                       \* mutant
  IF receipts[c].status = "accepted"
    THEN [kind |-> "accepted", sequence |-> receipts[c].sequence]
    ELSE Unanswered

ReceiptAnswer(c) ==
  IF receipts[c].status = "accepted"
    THEN [kind |-> "accepted", sequence |-> receipts[c].sequence]
    ELSE Failure("previously-rejected")

Unsettled_NotAsked == TRUE                                             \* mutant

Unsettled == receipts[current] = NoReceipt

ReplayReceipt ==
  /\ worker.step = "running"
  /\ ~Unsettled
  /\ Answer(worker.envelope, ReceiptAnswer(current))
  /\ worker' = Idle
  /\ UNCHANGED <<pipeline, receipts, commandQueue, commandReadModel, heard, dirty,
                 catchUpInFlight, repair, up, auxiliary, bounds>>

(* The decision and the transaction: nothing can come between that the
   transaction's rollback would not undo. *)
Commit(decision, aggregate) ==
  /\ worker.step = "running"
  /\ Unsettled
  /\ Len(log) + Len(decision) <= MaxEvents
  /\ CommitEvents([i \in 1..Len(decision) |->
                     [type |-> decision[i], aggregate |-> aggregate, command |-> current]])
  /\ receipts' = [receipts EXCEPT
                    ![current] = [status |-> "accepted", sequence |-> Len(log')]]
  /\ worker' = [worker EXCEPT !.step = "committed", !.first = Len(log) + 1,
                              !.next = Len(log) + 1, !.last = Len(log')]
  /\ UNCHANGED <<envelope, commandQueue, commandReadModel, heard, dirty,
                 catchUpInFlight, repair, up, auxiliary, bounds>>

Reject ==
  /\ worker.step = "running"
  /\ Unsettled
  /\ Fail("invariant")
  /\ UNCHANGED <<pipeline, receipts, envelope, commandQueue, commandReadModel, heard,
                 dirty, catchUpInFlight, repair, up, auxiliary, bounds>>

(* The receipt or the decider's model cannot be read, the transaction fails
   and is rolled back, or something unexpected is thrown before it. *)
RunFails ==
  /\ worker.step = "running"
  /\ \E error \in {"internal", "defect"} : Fail(error)
  /\ UNCHANGED <<pipeline, receipts, envelope, commandQueue, commandReadModel, heard,
                 dirty, catchUpInFlight, repair, up, auxiliary, bounds>>

SetCommandReadModel ==
  /\ worker.step = "committed"
  /\ commandReadModel' =
       [snapshotSequence |-> worker.last,
        reflects |-> commandReadModel.reflects \cup worker.first..worker.last]
  /\ At("deferring")
  /\ UNCHANGED <<pipeline, receipts, envelope, commandQueue, heard, dirty,
                 catchUpInFlight, repair, up, auxiliary, bounds>>

(* To the next event of the command, or on to the next task with the first. *)
NextEvent(task) ==
  worker' = IF worker.next < worker.last
              THEN [worker EXCEPT !.next = @ + 1]
              ELSE [worker EXCEPT !.step = task, !.next = worker.first]

MayProject_AlthoughDirty == TRUE                                       \* mutant

(* Once an event has failed the rest is left to the catch-up. *)
MayProject == ~dirty

ProjectCommittedEvent ==
  /\ worker.step = "deferring"
  /\ NextEvent("publishing")
  /\ \/ /\ MayProject
        /\ ProjectDeferredEvent(worker.next)
        /\ UNCHANGED <<dirty, catchUpInFlight>>
     \/ /\ dirty' = TRUE   \* it was dirty, or the projection fails now
        /\ catchUpInFlight' = TRUE
        /\ UNCHANGED pipeline
  /\ UNCHANGED <<receipts, envelope, commandQueue, commandReadModel, heard, repair, up,
                 auxiliary, bounds>>

Publish ==
  /\ worker.step = "publishing"
  /\ heard' = heard \cup {worker.next}
  /\ NextEvent("answering")
  /\ UNCHANGED <<pipeline, receipts, envelope, commandQueue, commandReadModel, dirty,
                 catchUpInFlight, repair, up, auxiliary, bounds>>

Succeed ==
  /\ worker.step = "answering"
  /\ Answer(worker.envelope, [kind |-> "accepted", sequence |-> worker.last])
  /\ worker' = Idle
  /\ UNCHANGED <<pipeline, receipts, commandQueue, commandReadModel, heard, dirty,
                 catchUpInFlight, repair, up, auxiliary, bounds>>

(* The budget runs out, wherever the run has got to. *)
RunTimeout ==
  /\ worker.step \in {"running", "committed", "deferring", "publishing", "answering"}
  /\ Fail("timeout")
  /\ skipped' = IF worker.step \in {"committed", "deferring"} /\ ~dirty
                  THEN skipped \cup worker.next..worker.last
                  ELSE skipped
  /\ UNCHANGED <<pipeline, receipts, envelope, commandQueue, commandReadModel, heard,
                 dirty, catchUpInFlight, repair, up, base, degraded, bounds>>

(* After any failure the log is read again from where the run started; what it
   holds is put into the model and published, again if need be. *)
PersistedSinceStart == ReadFromSequence(worker.start)

Reconciled_NoModel(persisted) ==                                       \* mutant
  heard' = heard \cup persisted /\ UNCHANGED commandReadModel

Reconciled_NoPublish(persisted) ==                                     \* mutant
  /\ commandReadModel' = [snapshotSequence |-> Max(persisted),
                          reflects |-> commandReadModel.reflects \cup persisted]
  /\ UNCHANGED heard

Reconciled(persisted) ==
  /\ commandReadModel' = [snapshotSequence |-> Max(persisted),
                          reflects |-> commandReadModel.reflects \cup persisted]
  /\ heard' = heard \cup persisted

Reconcile ==
  /\ worker.step = "failed"
  /\ IF PersistedSinceStart = {}
       THEN UNCHANGED <<commandReadModel, heard>>
       ELSE Reconciled(PersistedSinceStart)
  /\ At("resolving")
  /\ UNCHANGED <<pipeline, receipts, envelope, commandQueue, dirty, catchUpInFlight,
                 repair, up, auxiliary, bounds>>

ReconcileFails ==
  /\ worker.step = "failed"
  /\ At("resolving")
  /\ degraded' = IF PersistedSinceStart = {} THEN degraded ELSE degraded \cup {"unreconciled"}
  /\ UNCHANGED <<pipeline, receipts, envelope, commandQueue, commandReadModel, heard,
                 dirty, catchUpInFlight, repair, up, base, skipped, bounds>>

(* A run that was cut off is settled by its receipt, if it can be read. *)
ResolveStoredOutcome ==
  /\ worker.step = "resolving" /\ worker.error \in {"timeout", "defect"}
  /\ \/ /\ ~Unsettled
        /\ Answer(worker.envelope, ReceiptAnswer(current))
     \/ Answer(worker.envelope,
               Failure(IF worker.error = "timeout" THEN "timeout" ELSE "internal"))
  /\ worker' = Idle
  /\ UNCHANGED <<pipeline, receipts, commandQueue, commandReadModel, heard, dirty,
                 catchUpInFlight, repair, up, auxiliary, bounds>>

(* A rejection is answered even when its receipt cannot be written. *)
ResolveFailure ==
  /\ worker.step = "resolving" /\ worker.error \in {"invariant", "internal"}
  /\ Answer(worker.envelope,
            Failure(IF worker.error = "invariant" THEN "rejected" ELSE "internal"))
  /\ \/ UNCHANGED receipts
     \/ /\ worker.error = "invariant"
        /\ receipts' = [receipts EXCEPT
             ![current] = [status |-> "rejected",
                           sequence |-> commandReadModel.snapshotSequence]]
  /\ worker' = Idle
  /\ UNCHANGED <<pipeline, commandQueue, commandReadModel, heard, dirty,
                 catchUpInFlight, repair, up, auxiliary, bounds>>

-----------------------------------------------------------------------------
(* Maintenance *)

CatchUp ==
  /\ MaintenanceLockFree /\ catchUpInFlight
  /\ \/ Bootstrap /\ dirty' = FALSE
     \/ BootstrapFails /\ UNCHANGED dirty
  /\ catchUpInFlight' = FALSE
  /\ UNCHANGED <<receipts, envelope, commandQueue, worker, commandReadModel, heard,
                 repair, up, auxiliary, bounds>>

(* The thread deletion reactor asks for it after a purge. *)
RefreshCommandReadModel ==
  /\ MaintenanceLockFree
  /\ commandReadModel' = GetCommandReadModel
  /\ UNCHANGED <<pipeline, receipts, envelope, commandQueue, worker, heard, dirty,
                 catchUpInFlight, repair, up, auxiliary, bounds>>

(* The tables are backed up in memory of this process, then reset. *)
BeginRepair ==
  /\ MaintenanceLockFree /\ repairs < MaxRepair
  /\ ResetDerivedProjectionState
  /\ repair' = [under |-> TRUE, cursor |-> cursor, projects |-> rows["projects"]]
  /\ repairs' = repairs + 1
  /\ UNCHANGED <<receipts, envelope, commandQueue, worker, commandReadModel, heard,
                 dirty, catchUpInFlight, up, auxiliary, crashes>>

(* The rebuilt model may fail to load: the old one then stays. *)
RepairSucceeds ==
  /\ repair.under
  /\ Bootstrap
  /\ \/ commandReadModel' = GetCommandReadModel'
     \/ UNCHANGED commandReadModel
  /\ repair' = NoRepair
  /\ UNCHANGED <<receipts, envelope, commandQueue, worker, heard, dirty,
                 catchUpInFlight, up, auxiliary, bounds>>

Restored_CursorsOnly(store) == [store EXCEPT !.cursor = repair.cursor]   \* mutant

Restored(store) ==
  [cursor |-> repair.cursor,
   rows |-> [store.rows EXCEPT !["projects"] = repair.projects]]

RepairFails ==
  /\ repair.under
  /\ \E store \in BrokenOff(cursor, rows) :
       \/ Becomes(Restored(store)) /\ UNCHANGED degraded
       \/ /\ Becomes(store)   \* not put back, or the caller of the repair is gone
          /\ degraded' = degraded \cup {"unrestored"}
  /\ repair' = NoRepair
  /\ UNCHANGED <<receipts, envelope, commandQueue, worker, commandReadModel, heard,
                 dirty, catchUpInFlight, up, base, skipped, bounds>>

-----------------------------------------------------------------------------
(* The process *)

Crash ==
  /\ up /\ crashes < MaxCrash
  /\ up' = FALSE
  /\ crashes' = crashes + 1
  /\ commandQueue' = << >> /\ worker' = Idle /\ commandReadModel' = EmptyModel
  /\ heard' = {} /\ dirty' = FALSE /\ catchUpInFlight' = FALSE /\ repair' = NoRepair
  /\ envelope' = [e \in DOMAIN envelope |->
                    IF envelope[e].answer = Unanswered
                      THEN [envelope[e] EXCEPT !.state = "gone"] ELSE envelope[e]]
  /\ UNCHANGED <<pipeline, receipts, auxiliary, repairs>>

Start ==
  /\ ~up
  /\ Bootstrap
  /\ commandReadModel' = GetCommandReadModel'
  /\ base' = Len(log)
  /\ up' = TRUE
  /\ UNCHANGED <<receipts, envelope, commandQueue, worker, heard, dirty,
                 catchUpInFlight, repair, skipped, degraded, bounds>>

(* The bootstrap fails, or the model cannot be loaded after it, and no engine
   is built: the server comes up on a later attempt. *)
StartFails ==
  /\ ~up
  /\ Bootstrap \/ BootstrapFails
  /\ UNCHANGED <<receipts, envelope, engine, up, auxiliary, bounds>>

EngineInit ==
  /\ PipelineInit
  /\ receipts = [c \in Command |-> NoReceipt]
  /\ envelope = << >>
  /\ commandQueue = << >> /\ worker = Idle /\ commandReadModel = EmptyModel
  /\ heard = {} /\ dirty = FALSE /\ catchUpInFlight = FALSE /\ repair = NoRepair
  /\ up = TRUE /\ base = 0 /\ skipped = {} /\ degraded = {}
  /\ crashes = 0 /\ repairs = 0

Worker ==
  \/ TakeEnvelope \/ SkipAbandoned \/ Begin
  \/ ReplayReceipt \/ Reject \/ RunFails
  \/ \E decision \in Decision, aggregate \in Aggregate : Commit(decision, aggregate)
  \/ SetCommandReadModel \/ ProjectCommittedEvent \/ Publish \/ Succeed
  \/ RunTimeout \/ Reconcile \/ ReconcileFails
  \/ ResolveStoredOutcome \/ ResolveFailure

Repair == RepairSucceeds \/ RepairFails

EngineNext ==
  \/ \E c \in Command : Dispatch(c)
  \/ \E e \in DOMAIN envelope : DispatchTimeout(e)
  \/ Worker
  \/ CatchUp \/ RefreshCommandReadModel \/ BeginRepair \/ Repair
  \/ Crash \/ Start \/ StartFails

(* A run is bounded by its timeout, a repair by its replay, and the process
   executes what is ready. *)
EngineSpec ==
  /\ EngineInit /\ [][EngineNext]_vars
  /\ WF_vars(Worker) /\ WF_vars(Repair)

-----------------------------------------------------------------------------
(* Properties *)

(* What the log holds of c. *)
EventsOf(c) == {s \in Sequence : log[s].command = c}

(* A command is in the log once, whole and in one piece, exactly when its
   receipt says accepted, and the receipt names its last event: however often
   it was dispatched, timed out or crashed (commandProcessor.ts). *)
ReceiptMatchesLog ==
  \A c \in Command :
    LET own == EventsOf(c)
    IN IF receipts[c].status = "accepted"
         THEN /\ own # {}
              /\ receipts[c].sequence = Max(own)
              /\ own = Min(own)..Max(own)
              /\ [i \in 1..Cardinality(own) |-> log[Min(own) + i - 1].type] \in Decision
         ELSE own = {}

(* A settled command stays settled: no retry, no reconciliation and no late
   rejection rewrites a receipt. *)
ReceiptsAreFinal ==
  [][\A c \in Command : receipts[c] # NoReceipt => receipts'[c] = receipts[c]]_vars

(* What a caller was told is so: accepted means durable under that sequence,
   rejected means not in the log and never by this dispatch; and a command
   whose every dispatch was given up while it waited never takes effect. *)
AnswersAreTrue ==
  \A e \in DOMAIN envelope :
    LET c == envelope[e].command
        answer == envelope[e].answer
    IN /\ answer.kind = "accepted" =>
            receipts[c] = [status |-> "accepted", sequence |-> answer.sequence]
       /\ answer.kind = "previously-rejected" => receipts[c].status = "rejected"
       /\ (\A o \in DOMAIN envelope :
             envelope[o].command = c => envelope[o].state \in {"queued", "abandoned"})
            => EventsOf(c) = {}

(* A command is decided on a model that reflects every committed event,
   whatever happened to the runs before it, unless a recovery itself failed:
   the worker keeps the model up to date without reloading it. *)
DecidesOnCurrentModel ==
  worker.step = "running" /\ degraded = {} => Sequence \subseteq commandReadModel.reflects

(* A subscriber hears of an event only after all earlier ones of this process:
   reconciling may repeat events but leaves no gap. *)
HeardInOrder ==
  "unreconciled" \notin degraded =>
    \A s \in heard : base + 1 .. s \subseteq heard

(* No projector's cursor passes an event that its tables do not reflect, so
   that a replay from the cursor loses nothing: but for summaries of a command
   that timed out between its commit and its deferred projection. *)
SkippedOnlyByTimeout ==
  "unrestored" \notin degraded =>
    \A p \in Projector : \A s \in 1..cursor[p] :
      Applies(p, s) => s \in rows[p] \/ (p = Summaries /\ s \in skipped)

(* Every dispatch is answered, unless the process dies. *)
EveryCommandAnswered ==
  \A e \in 1..MaxDispatch :
    e \in DOMAIN envelope
      ~> /\ e \in DOMAIN envelope
         /\ envelope[e].answer # Unanswered \/ envelope[e].state = "gone"

(* A repair rebuilds what it deleted: after it the projects table reflects
   every project event of the log. *)
ProjectsRebuilt ==
  [][RepairSucceeds => \A s \in Sequence : Applies("projects", s) => s \in rows'["projects"]]_vars
=============================================================================
