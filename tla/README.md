# Agent Group: a verification of execution ownership, of the command path, of the turn queue and of automations

Agent Group is a local-first workspace: a *project* holds *threads*, a thread is
worked on in *turns* by an agent. An agent reaches a thread in one of two ways,
through a **structured** provider session (the server talks to the agent by a
protocol) or through a **managed terminal** (the agent's own TUI runs in a PTY
and reports to the server through hooks). Only one of the two may execute a
thread at a time. What decides which, keeps the decision on disk, and carries a
thread from one to the other past crashes, failed kills and late callbacks, is
the most intricate state of the server, and it is what the first three
specifications are about. Two are about what everything in the server goes
through: **commands**, decided one after the other by the orchestration engine
into **events** of a log, from which all tables are derived. One is about how a
turn gets from such an event to the provider, past a turn that is still running,
and one about **automations**, which start turns on a schedule and judge them
by what comes of them.

All paths below are under `src/apps/server/src/` unless they start with `src/`.

## 1. Inventory

| component | state | operations | what makes it correct |
|---|---|---|---|
| **Execution adapter authority** `orchestration/Layers/ExecutionAdapterAuthority.ts` and `executionAdapterAuthority*.ts` | per thread: adapter, revision, status, generation, pid; claims; the snapshot file | claims (acquire, reserve, claim, release, expire), terminal switch/restart/stop/start, status updates, handover back, structured stop, deletion, forgetting, load | claims belong to the current epoch; a revision has one owner and one generation; nothing told to a caller is lost by a restart; a deletion is final |
| **Execution adapter coordinator** `orchestration/Layers/ExecutionAdapterCoordinator.ts` and `executionAdapterTerminal*.ts` | the one transition lock | start, restart, stop, return to chat, structured stop, deletion, exit reconciliation | at most one process per thread, none when structured; no kill under a claim; every process accounted for on disk; the lock is always given back |
| **Terminal agent service** `terminalAgent/` | runtime records, a lock per thread, the clients attached | launch, exit monitor, hook events, attach, teardown | a failed launch is undone completely |
| **Terminal agent recovery** `terminalAgent/terminalAgent*Recovery*.ts` | the states listed at startup | recover each thread, within 30 s each and two minutes together | the old process is gone before anything new is started |
| **Terminal host** `terminalHost/` | sessions, pending creates and kills, tombstones | spawn, adopt, kill, exit | a kill resolves only when the process group is gone |
| **Thread deletion reactor** `orchestration/Layers/ThreadDeletionReactor.ts` | none of its own | tear down, stop, finalize | a deleted thread ends without processes and without a record |
| **Provider turn admission and queue** `orchestration/Layers/providerTurn*.ts` | queue, drain and pending-dispatch sets, handled keys | admit, queue, drain, interrupt, edit | no turn lost, none sent twice, the queue moves on |
| **Orchestration engine** `orchestration/Layers/OrchestrationEngine.ts`, `orchestration-engine/` | command queue, receipts, command read model | dispatch with a two-phase timeout, commit, reconcile, repair | a command has one outcome; events are published in order |
| **Decider, projector** `orchestration/decider.ts`, `projector.ts` | none | command to events, events to read model | command invariants |
| **Event store, receipts** `persistence/Layers/` | log, receipts | append, read from a sequence | append only, sequence without gaps for readers |
| **Projection pipeline, snapshot query** | tables and a cursor per projector, in SQL | project in the transaction, project after it, bootstrap, reset, load the model | no cursor passes an event its tables do not reflect |
| **Provider runtime ingestion** | buffers per turn | provider event to command | a turn that ended is not reopened |
| **Provider service, adapters, session reaper** `provider/Layers/` | sessions, bindings | start, send, stop, reap | no session reaped in use |
| **Startup turn reconciliation** `orchestration/startupTurnReconciliation.ts` | none | settle turns of the previous process | no turn stays running for ever |
| **Checkpoint reactor and store** | git refs | capture, restore | a checkpoint is of the turn it names |
| **Automation** `automation/` | definitions, runs and a lease, in SQL; queued threads, queued stop checks | schedule, dispatch, reconcile, check whether to stop, recover; run now, cancel, update, delete | an occurrence runs once, a thread carries one run, an outcome is final and true, no run and no check is forgotten |
| Agent group context, git, pull requests, workspace, shell terminals, studio outputs | files, caches | | |
| Auth, remote access, WebSocket RPC, tailnet; desktop, web, marketing; shared packages | | | |

### How they interact

* A client's command goes through the engine, whose admission and the provider
  reactor take **structured claims** of the authority: a *reservation* when a
  turn start is admitted, a *lease* when the reactor claims it. The reactor
  releases its claim when the turn has been **sent**, not when it has ended.
* A launch, stop or switch goes to the terminal agent service, which takes the
  lock of the thread, then to the coordinator, which takes the **one** transition
  lock of all threads around the physical part.
* A hook of a terminal takes a **terminal claim** under the revision and generation
  it was launched under, and patches the status without the transition lock.
* A client that attaches to a terminal, and fails or gets no snapshot, marks the
  epoch as failed, with neither a claim nor the transition lock.
* The terminal host calls the exit listener from its own callback. It reads the
  authority, then patches it, at any later time.
* Startup: deletion reactor, then recovery of every listed thread, then clients'
  commands (`effectServer.ts:152-164`).
* A turn that is accepted becomes an intent event. The worker of the provider
  reactor either sends it or queues it; the end of a running turn, a stop, a
  deletion or a blocked goal, heard by other fibers, promotes what is queued by
  a command whose event comes back to the same worker.
* The automation scheduler and a user dispatch turns by commands of the engine and
  hear what became of them from `streamDomainEvents` (the reactor) and from the
  tables (each pass of the scheduler, and recovery at a start). Which turn is
  whose they learn from the message in the row of a turn, which it got from the
  one pending row of its thread when it began.
* The engine's worker, the catch-up of deferred projections, a refresh of the model
  and a repair exclude each other by one maintenance lock. The reactors (provider
  commands, deletion, checkpoints, ingestion, automation) and the clients listen
  to `streamDomainEvents`.

### What is hard here

Interleavings of jobs, claims, hooks and exit callbacks; decisions made on a
state read earlier; a crash between any two of spawn, record, kill and commit;
writes that fail after they took effect; kills that fail; claims that are never
released; recovery running beside the deletion reactor. On the command path: a
timeout, a failure or a crash at every point after the transaction, each made
good in a way of its own, and retries of a command whose outcome the caller
did not learn. In the turn queue: three fibers that promote the same queue and
meet at every await, and a look at the provider that is old when it is acted
on. In automations: four kinds of fibers that read rows, wait, and write what
followed from them, while the user works in the same thread. `PROJECT.json` lists
each of these hazards at its line, with the properties that cover it.

## 2. Modules

| module | models |
|---|---|
| `ExecutionAdapterAuthority` | the authority, under any caller |
| `ExecutionAdapterAuthorityProofs` | theorems about it, for every value of the constants |
| `ExecutionAdapterCoordinator` | coordinator, terminal agent service, recovery, and what they touch of host, deletion and turns; it EXTENDS the authority |
| `ExecutionAdapterCoordinatorProofs` | its refinement of the authority and the theorems about processes, for every value of the constants |
| `ProjectionPipeline` | the event log, the projectors with their cursors and tables, the bootstrap |
| `OrchestrationEngine` | dispatch, worker, receipts, command read model, event stream, maintenance, crash and start; it EXTENDS the pipeline |
| `OrchestrationEngineProofs` | theorems about receipts and answers, for every value of the constants |
| `EngineRecoveryProofs` | theorems about what is made good from the log: model, stream, tables and repairs; the lemmas on replays of the pipeline they rest on |
| `TurnDelivery` | the abstract specification: what is owed to a turn that was accepted |
| `TurnDeliveryProofs` | theorems about that promise, for every set of turns |
| `ProviderTurnQueue` | the provider command reactor on one thread; it implements `TurnDelivery` |
| `ProviderTurnQueueProofs` | theorems about claims, marks and the gate of a thread, for any turns and failures |
| `AutomationRuns` | one automation: scheduler, reactor, user, stop checks, turns, crash and recovery |
| `AutomationRunsProofs` | theorems about runs and their outcomes, for any settings and budgets |
| `AutomationLoopProofs` | theorems about stops, worktrees, the limit of iterations and the occurrences |
| `MC...` | symmetry, model values and scenarios for TLC |

### ExecutionAdapterAuthority

`states` and `claims` are the `Ref` of the code (`current.states`,
`current.claims`), `disk` is the snapshot file as the next start would read it,
`available` and `marker` are the safety mode entered when it cannot be read.

* Every operation of the code runs under one transaction lock and is
  uninterruptible, so **one operation is one action**. Nothing is assumed about
  callers: any operation comes at any time, with any revision and generation.
* **Write-ahead.** `mutateState` persists first and then sets the `Ref`. `Commit` is
  the write that succeeds; `StoreFails` the one that is reported as failed, before
  or after the rename took effect. The difference shows at the next `Restart`,
  and a later write of any thread overwrites it, because the file holds all
  threads.
* **Claims.** A record counts holders and says whether it is leased. An unleased
  one expires after five minutes (`ClaimExpires`), which is noticed by the next
  operation that prunes (`Pruned`); a release does not prune. `revision` and
  `generation` of a claim are those of the handle it was returned with.
* `pid` stands for pid, owner identity and process group identity, which are
  set and cleared together; `turn` for a non-null active turn id.
* An operation is written as its condition (`CanBeginTerminalSwitch` and so on), the
  state it computes and the action, so that the coordinator uses the same
  conditions with the values its callers captured earlier.

### ExecutionAdapterCoordinator

`job[t]` is what the holder of t's operation lock is doing: the operation (`op`),
the step it is at (`at`), and what it captured earlier (revision, generation,
whether a session was found). `process` is the operating system's view of every
process, `host` the terminal host's session, `watch` the exit listener, `exits` the
callbacks that have not finished, `attaching` the revision a client attached to and may still
fail under, `session` the structured provider session,
`owned` the runtime record, `deleted` the event store, `unrecovered` the states
listed at startup.

| job | steps (action names) | code |
|---|---|---|
| start | Enter, Lookup, BeginSwitch, Suspend (if a session was found), Prepare, Spawn, Adopt, Listen, Probe, Complete, Check, Finish; when a step fails Kill, Leave, Resume, MakeReady, then Settle; Abort when the launch returned but its runtime could not be marked | `switchToTerminal`, `spawnTerminalRuntime`, `terminalAgentRuntimeLaunch` |
| restart | Verify, Enter, BeginTransition, Kill, Renew, Spawn, and on as in a start; when a step fails Kill, Blocked, Settle | `restartTerminalRuntime` |
| chat | Verify, Enter, BeginTransition, Kill, Leave, MakeReady, Finish | `switchToStructured` |
| stop | Enter, then by adapter: Verify, Quiesce, BeginTransition, Kill, MarkStopped, Finish; or BeginFence, Drain, StopSession, Release | `stopCurrentAdapter`, `stopTerminalRuntime`, `stopStructuredRuntime` |
| delete | Verify, Quiesce, Enter, BeginDeletion, Drain, Kill, Entomb, Finish; later FinalizeDeletion | `teardownThread`, `finalizeThreadDeletion` |
| recovery | Mark, Verify, then one of the jobs above; RecoveryFailed and RecoveryMissed when it fails | `terminalAgentRecovery*` |

Between any two steps: a turn is reserved, taken, sent, ended and its claim
released; a hook leases and patches; a client attaches, and at any later time its attachment fails
(BeginAttach, AttachFails); a process exits, its leader alone
("headless") or all of its group; the exit callback reads or patches; a write
or a kill fails; the thread is deleted; the server crashes, which takes the
jobs, claims, sessions and records, and leaves the terminals running.

* A hook writes "running" or "ready" under its claim (`HookPatch`); the other statuses of a terminal in
  use, "attention" and "context-blocked", admit and accept the same, so "ready" stands for them. A
  change of the model (`terminalAgentModelObservation.ts:71`) patches none of the fields modelled here.
* The failed attachment writes "error" with no claim and no lock
  (`terminalAgentSubscription.ts:205-214` and `228-237`). The authority accepts that from "stopping"
  too, and in "error" it admits hooks again.

### ProjectionPipeline

`log` is `orchestration_events`; an event is its type, its aggregate and its command.
`cursor[p]` is `last_applied_sequence` of p in `projection_state`, 0 standing for
no row (sequences start at 1), and `rows[p]` the set of events the tables of p
reflect.

* Cursors are written by an upsert that never takes them back (`Upserted`).
* A hot projector writes in the transaction of the command (`CommitEvents`): a
  thread event moves the cursors of the projectors it concerns and the phase
  cursor `hot`; a project event moves those of eight projectors, concerned or not.
* The deferred projector of the thread summaries writes after it
  (`ProjectDeferredEvent`), moving its cursor for every event.
* `Bootstrap` fast-forwards, replays each projector from its cursor, at most
  `ReadLimit` events, and sets `hot` again. Each replayed event is a transaction:
  `BrokenOff` is the set of stores in which it may have stopped.

### OrchestrationEngine

| actions | code |
|---|---|
| Dispatch, DispatchTimeout | `commandDispatch.ts` |
| TakeEnvelope, SkipAbandoned, Begin, ReplayReceipt, Commit, Reject, RunFails, SetCommandReadModel, Publish, Succeed | `runCommand` in `commandProcessor.ts` |
| ProjectCommittedEvent, CatchUp | `deferredProjectionRecovery.ts` |
| RunTimeout, then Reconcile or ReconcileFails, then ResolveStoredOutcome or ResolveFailure | the error handlers of `commandProcessor.ts` |
| RefreshCommandReadModel | `deciderReadModel.ts` |
| BeginRepair, RepairSucceeds, RepairFails | `repairStateController.ts` |
| Crash, Start, StartFails | `OrchestrationEngine.ts` |

* `worker.step` says how far a run has got. Between any two steps a caller dispatches
  or times out, and the run itself may time out, fail or die with the process.
  The steps of the transaction are one action, since a rollback undoes them all.
* The lock is held from `Begin` to the answer, and during a repair. Catch-up and
  refresh are one step each: nobody writes what they read while they hold
  the lock. Which waiter gets the lock next is left open.
* The decider accepts with any of the `Decision` event lists, or rejects.
* `base`, `skipped` and `degraded` are auxiliary: nothing but properties reads them.
  `degraded` records a recovery that itself failed (a reconciliation that cannot
  read the log, a backup that cannot be put back): some properties are stated up
  to that, and the hazards of `PROJECT.json` say what it costs.

### TurnDelivery and ProviderTurnQueue

`queue`, `draining` and `pending` are the three collections of
`providerTurnQueue.ts`, for one thread; `inbox` holds the intent events the worker has
not taken; `worker` is the handler it is in and `drain[a]` the promotion fiber a is in;
`reserved` and `holders` are the claims of the authority, `gate` whom it lets work;
`live`, `ended` and `projected` are the turn the provider runs, the terminal events
not yet heard, and the projected session, which may be behind (`news`).

| actions | code |
|---|---|
| Submit, Expire | admission of a command and its reservation |
| TakeStart, Look, DecideToQueue, DecideToStart, Send, Sent, Report, WorkerDrains, WorkerDrained, Release | `processTurnStartRequested` |
| TakeQueued, QueuedLook | `processTurnQueued` |
| Reserve, Commit, Reject, Promoted, NotPromoted, CommitOrphan | `makeProviderTurnQueueDrain`, for worker, stream and retry fiber |
| HearEnd, HearDeletion | the stream fiber |
| TakeInterrupt, Interrupt; TakeStop, BeginStop, AwaitDrained, Halt, EndStop | `providerInteractionHandlers.ts` |
| TakeGoal, GoalLook, GoalDrains, GoalDrained, GoalCheck, GoalSend, GoalFailed, RetryGoal | `providerGoalContinuation.ts` |
| Timeout | the two minutes of `providerReactorEventSafety.ts` |
| TurnEnds, Ingest, AskStop, AskGoal, SwitchAway, SwitchBack, Delete, Teardown, Redeliver | provider, ingestion, users, terminal, engine |

* What is between two awaits of a fiber is one action, since the server is one
  JavaScript thread; at each await the others go on.
* A control of the provider, an interrupt or a stop, may fail or time out ("control" in `FaultKinds`).
  A stop is projected as done all the same (`providerInteractionHandlers.ts:386-396`), so the turn may
  still be running after it (`Halt`), as may one whose interrupt failed (`Interrupt`).
* A turn is identified with its message. A promotion runs under a new command id,
  hence a new claim (`Token`).
* `TurnDelivery` knows a turn as new, waiting, sent, refused or dropped. The refinement
  mapping (`Outcome`) reads that off from where the turn is; a turn that is nowhere
  is mapped to "lost", which no step of the abstract specification reaches. `delivered`
  counts how often the provider was given a turn.

### AutomationRuns

`definition` and `run` are the rows; `turn`, `created` and `worktree` what the rest of the server knows of
turns, threads and worktrees; `requested`, `carries` and `latest` the projection of turns: the
message in the one pending row of a thread, the message in the row of a turn, and the latest turn of
a thread; `task[f]` is what fiber f (scheduler, reactor, user) is in the middle of, with the row it
read; `queued` the reactor's `queuedThreadIds`; `check[r]` the stop check of a run, and `updatedAt` and
`asked[r]` the time of the definition, now and when that check was queued.

| actions | code |
|---|---|
| BeginPass, Each, EndReconcile | `reconcileActiveRuns` |
| Look, Mark, Result, Stop, Disable, Interrupt | `reconcileThread`, time limits, cancellations and their ends: each write is a step of its own |
| Due, AskThread, Insert, Advance, Count | `runDueOnce`, `runDueDefinition`, `createPendingRun` |
| Start, CheckWorktree, CreateWorktree, CheckCreate, CreateThread, CheckSend, Send, CleanUp, DispatchFails | `dispatchRun` |
| RunNow, Restart, Cancel, Delete, DeleteNext, Archive, Update, Save, Read, WriteRead | what a user asks for |
| TakeCheck, Evaluate, StopLoop, Record, EndCheck | `makeAutomationCompletionQueue`, `evaluateCompletionPolicy` |
| Take, Dequeue | `AutomationRunReactor` |
| Crash, Restarted, RecoverNext, EndRecovery, LeaseExpires | start order of `effectServer.ts`, `recoverPendingRuns`, the lease |
| Fails | a failing access to the database, which ends what the fiber was doing |
| Send, UserSends, GoalBegins | a request for a turn (`turnCommands.ts:95-149`), by a run or by the user, and a turn the provider begins by itself for a goal |
| StartTurn, Requeue, Promote | the request becomes a turn (`threadTurnProjection.ts:89-155`), or is queued behind one that runs, and is requested again later |
| AskUser, Answer, EndTurn, Tick | provider, user, clock |

* **Settings and surroundings are a Scenario**, chosen in `Init` and never changed: one run
  of TLC explores several small automations, each with its own budget of ticks,
  crashes, faults, questions, turns of the user and requests.
* A heartbeat automation continues one thread, 0; a standalone run r has thread r.
* Statements that guard themselves in SQL (`WHERE status IN ...`) are `Marked`; the one that
  does not, `markRunResult`, is `Result`.
* **Which turn is whose.** A request replaces the pending row of its thread
  (`threadTurnProjection.ts:37-45`, `ProjectionTurns.ts:263-269`); the next turn that begins there takes
  the message of that row, whosever it is, and the row goes (`Requested`, `Begins`). A run in a shared
  thread is judged by a turn whose row has its message (`Judged`, after `resolveRunTurn`). While no turn
  runs nothing is queued (`turnCommands.ts:112-124`), so the requests of a run and of the user may
  cross: then the
  turn of one bears the message of the other, and no turn that of the replaced one. The auxiliary
  variable `crossed` says that this happened.
* The latest turn of a thread is the one with the youngest `requested_at`, which is the time of a user's
  clock or of the start of the pass a run was found due in: of two turns either may be (`Latest`).
* The user works in queue mode: steering into a running turn is left out, and a queued turn is
  promoted only when the thread is free.
* The three reads of a reconciliation (run, shell, turn) are one step, `Look`: what follows
  from them is written in later steps anyway.
* `updated_at` is all by which a stop check knows the definition again. It is a token (`Time`): writes of one
  pass of the scheduler (`automationScheduler.ts:148-151`) or of one request to run now share one
  (`NowOf`), so that a later write may bring an older time back; those of different origin are assumed to
  fall into different milliseconds. A token that nobody holds any more is used again.
* The removal of a worktree may fail, which is only logged (`CleanUp` and its branch of `DispatchFails`): the
  worktree is then "left".
* The lease matters for the process that died: until it expires the new scheduler finds
  nothing due. Two live servers on one database are not modelled.
* `history` is auxiliary: restarts of a loop, runs inserted after a stop, whether an old row
  was saved over a newer one, whether an access failed.

## 3. Properties and runs

| run | instance | shows |
|---|---|---|
| `authority_one_thread` | 1 thread, 2 claims, 2 generations, 1 pid, revisions up to 3, up to 2 holders; 32 thousand states | the five properties of the authority that the others rest on or that a caller relies on |
| `coordinator_safety` | 1 thread, 1 claim, 2 processes, clients that fail to attach, revisions up to 3; 644 thousand states | the safety of the composed system |
| `coordinator_refinement` | 1 thread, 1 claim, 1 process, clients that fail to attach, revisions up to 3; 399 thousand states | `ImplementsAuthority`: the composed system implements the authority's specification |
| `coordinator_liveness` | 1 thread, 1 claim, 1 process, clients that fail to attach, revisions up to 3; 403 thousand states | every operation returns |
| `coordinator_lock` | 2 threads, 1 process, revisions up to 2; 221 thousand states | the same, when two threads compete for the lock |
| `coordinator_one_adapter` | 1 thread, 1 claim, 2 processes | the first finding of section 6 |
| `engine_commands` | 2 commands, 3 dispatches, 3 events, 1 crash; 1.7 million states | the safety of the command path |
| `engine_recovery` | 1 command, 2 dispatches, 2 events, 1 crash, 1 repair; 154 thousand states | cursors and tables through repairs; every dispatch is answered |
| `engine_repair` | 3 events, replays of two | the second finding |
| `turn_queue_goal` | 2 turns (one of them to steer), a goal, 1 fault of any kind; 313 thousand states | promotion by three fibers, with old looks at the provider |
| `turn_queue_stop` | 2 turns, 2 stops, a deletion, 1 fault; 222 thousand states | claims, barriers, and the implementation of `TurnDelivery` |
| `automation` | 11 scenarios, 2 runs each; 483 thousand states | safety and liveness of one automation |

**Of the authority** (`authority_*`):

* `TypeOK`: also that holder counts stay within 0 and their bound.
* `ClaimsMatchEpoch`: whatever is in flight on a terminal thread was handed out
  under the very revision and generation it has now. A completing launch and a
  status update do not look at claims; the property rests on the order of the
  operations that do.
* `DurableNotBehind`: what the next start reads is what memory has, or what one
  operation that reported a failed write would have made of it.
* `GenerationNeverReplaced`: a revision names one process; that is what makes the
  fences of late callers work.
* `TombstoneIsFinal`: a completed deletion is left only by being forgotten, with
  nothing in flight.

Four more are proved and need no run of their own: `LeasedIffHeld` (a claim with a holder is
leased, so it does not expire), `StartingIsUnborn` (an epoch that is starting has no generation and
no claim), `ReadyIsEarned` (a thread becomes ready for the structured runtime only after a restoring
or stopping of the same revision, restarts included) and `OwnersHaveOwnRevision` (a revision names
one owner).

**Of the composition** (`coordinator_*`):

* `OneOwner`: a thread that is structured, in memory or on disk, has no live
  terminal process, whatever failed and however often the server crashed.
* `AtMostOneProcess`: a restart never runs beside the process it replaces.
* `AccountedFor`: for every live process the next start finds its identity on
  disk, or a terminal state without one, which it refuses to believe has exited.
* `KillsAlone`: a process is killed only when no claim is left, although hooks
  lease and patch without the transition lock. There is one exception, and it is real: a client that
  fails to attach during a stop takes the epoch from "stopping" to "error", which admits hooks again, so
  a claim can be taken between the drain and the kill. Where no client attached to the epoch, or
  it is not open, or the thread is being deleted, nothing is killed under a claim; and a process is
  spawned only where the host holds none.
* `ExitedIsTrue`: no late exit callback marks an epoch exited whose process lives.
* `ImplementsAuthority`: the authority's `Spec`, with the identity as refinement
  mapping: the composition uses the authority only through its operations and
  with its checks.
* `EveryJobEnds`: every operation gives back its lock, done or failed, even
  though a claim may never be released and a process may never exit.

**Of the command path** (`engine_*`):

* `ReceiptMatchesLog`: a command is in the log once, whole and in one piece, exactly
  when its receipt says accepted, and the receipt names its last event.
* `ReceiptsAreFinal`: what settled a command is never rewritten.
* `AnswersAreTrue`: accepted is durable under the sequence told; previously rejected
  is recorded so (nothing is said of a rejection told for the first time, whose receipt is written
  best-effort); a command given up while queued never takes effect.
* `DecidesOnCurrentModel`: when a command is decided, the model reflects every
  committed event, whatever happened to the runs before it, and across refresh
  and restart.
* `HeardInOrder`: the stream leaves no gap; it may repeat (section 6).
* `SkippedOnlyByTimeout`: no cursor passes an event that its tables do not reflect, but
  for the summaries of a command that timed out between its transaction and its
  deferred projection. That exception is real: the code neither marks the
  projection dirty nor schedules a catch-up then, and the next event takes the
  cursor past the missed one.
* `EveryCommandAnswered`: unless the process dies, every dispatch gets an answer,
  although the worker waits for the maintenance lock without a timeout.

**Of the turn queue** (`turn_queue_*`):

* `ImplementsDelivery`: every step of the reactor is a step of `TurnDelivery` or a stutter.
  An accepted turn is sent once, or refused so that it can be seen, or taken back by a
  stop or a deletion, and is never lost between inbox, queue, promotion and handler.
* `ClaimCovers`, `ClaimOwned`: a claim is held as long as its turn waits, and no longer.
  Released early, a stop or a switch passes the turn; kept, it blocks both for good.
* `ClosedMeansEmpty`: when a stop halts the provider, or the terminal owns the thread,
  nothing waits, is on its way or can still be started.
* `PendingIsTrue`: the mark of a pending dispatch never outlives promotion and event.
* `GoalYields`: a goal goes on only when no turn of a user waits or is being promoted,
  also after the awaits between the check and the send. It speaks of the time before a stop
  or a deletion; its run has neither, so there the restriction costs nothing.
* `OneTurnRuns`: nothing is sent while the provider runs a turn, although every look at it
  is old by then.
* `WaitsBehindLive`: without a fault, a turn that waits behind a running one gets away.
  Nothing is promised for a turn that was queued after the running one had ended
  (section 6).

**Of automations** (`automation`):

* `OneActivePerThread`: a thread carries one active run, although scheduler and user look,
  decide and insert on their own.
* `OccurrenceRunsOnce`: a planned time is given to the provider once, across crashes, failing
  writes and retries. One case is excused, and real: the save of an old row takes the
  schedule back, and the misfire policy "run-latest" plans the missed run anew for the time
  it is found.
* `BoundedLoop`: the schedule gives no more turns than `maxIterations` for each start of the
  loop, although look-up, insertion, advance and count are writes of their own.
* `StatusFollowsOwnTurn`: in a thread shared with the user a run succeeds by a turn that is
  completed and whose row has its message, and waits for the user only when such a turn has begun. That
  turn is its own, unless requests crossed. A standalone run is judged by the latest turn of its
  thread, also by one of the user, so nothing is stated of it.
* `AtMostOneAfterStop`: a stopped automation starts at most the run already decided on.
* `WorktreeHasOwner`: a worktree belongs to a thread, or a fiber still has to take it away, or
  the server died in between, or its removal failed.
* `TerminalIsFinal`: no outcome is ever replaced.
* `OldPolicyNeverStops`: a stop check never stops a loop whose policy has changed since it was asked,
  unless a later write gave the row back the time of then. The exception is real (section 6).
* `EveryRunSettles`: a run ends when the turn it is judged by is over, or when its own is and no requests
  crossed, although the reactor drops events and the server may die; and so does a run that nobody is
  going to dispatch, unless an access to the database failed.
* `EveryCheckEnds`: a stop check that is due is made or falls away.

For every property of every run `PROJECT.json` names a mutant of the code's
model that violates it, for instance a drain that counts held claims only, a
restart that skips the verification of a state without a pid, a kill whose
failure is not looked at, or a write of memory before disk.

### Bounds, and why they are enough

* `MaxRevision` bounds changes of ownership. An epoch interferes with a later one only
  through what was captured in it (claims, callbacks, job fields, states listed
  at startup, the file), and three revisions hold an epoch, its successor and a failed
  handover or a return. `coordinator_safety` was also checked once with four (3.2 million
  states). In the coordinator a job starts
  only where it can still raise the revision twice (`Free`), so no job is cut
  short by the bound.
* Two processes in `coordinator_safety`: one left over from before a crash or a failed kill and
  the one that replaces it; that more of them change nothing is proved (section 4). `Generation` and `Pid`
  are the same set there (`OneNamePerProcess`): identities contain the start time
  of the leader and are assumed never to be reused.
* One claim id with one holder is enough for the coordinator, because it asks
  only whether a thread has a claim; counting is checked in the authority, with
  two of each.
* Two threads share the snapshot file and the transition lock and nothing else.
  `coordinator_lock` has two threads for the lock; the snapshot of several threads is
  covered by the proofs, which hold for any number of them.
* Symmetry is used in safety runs only. `Watched` are the threads clients attach to: the one thread,
  and none in `coordinator_lock` and `coordinator_one_adapter`, whose question is another. The VIEW
  of the coordinator runs forgets to which earlier epoch a client attached: its failure is then
  refused by the revision it was begun under, and a revision never comes back while somebody could
  still fail under it.
* Three events in `engine_commands` hold a command of two events and one before or
  after it; three dispatches hold a retry and another command. `ReadLimit` is
  at least `MaxEvents` there, which stands for a log of fewer than 1000 events;
  longer logs are the second finding. Each of `SomeProjectors` stands for those
  of the ten that react to the same kinds of event in the same phase and that
  project events and repairs treat alike.

* Two turns in the queue runs: one that runs or is promoted and one that is queued, put
  back or sent meanwhile; the goal is a third. Two tokens are the claim of the first
  command of a turn and that of its promotion. One fault at a time, of every kind the code
  handles. The two runs divide the features because their product is large: the safety
  invariants `ClaimCovers`, `ClosedMeansEmpty` and `ClaimOwned` were also
  checked once with stops, deletion, goal and all faults together (11.5 million states).
* Two runs of an automation are what can meet: the one that is active and the one that
  is due. Each scenario has the two or three ticks its question needs, and one of each
  disturbance, and the user one turn. The VIEW of the run leaves out which turn is the latest where
  nobody waits for the user or is going to (`NobodyAsks`): in a shared thread that is all it decides;
  and when the row was written, where there are no stop checks.
  That a row does get its old time back takes the larger scenario `OldTime`, which was checked once by
  itself (1.3 million states): there `OldPolicyNeverStops` holds, and without its exception it is
  violated.
* `BoundedLoop` is checked in one scenario with a limit of one; in general it is proved. What holds
  for all settings and any number of runs is proved (section 4).

### Fairness

`FairSpec` has weak fairness of each thread's job steps: the fiber of a job runs
on, and each wait of it has a timeout (ten seconds for claims, the host's kill
grace, the recovery budgets), modelled as a step that is always enabled. It has
strong fairness of entering the transition lock (`Enter`, `Abort`): the semaphore
hands permits over in the order of the requests. Nothing is assumed of claims,
hooks, turns, processes, exits, writes or crashes. The stop and the start of a provider inside the lock
(`executionAdapterProviderSuspension.ts:23-33`) are assumed to return, with an answer or an error: they
have no timeout of their own there. A job at a bound is never
waiting, since `Free` keeps room for it.

`EngineSpec` has weak fairness of the worker and of a repair: a run is bounded by its
45 seconds and a repair by its replay, and then they give the lock back.
Catch-ups and refreshes are single steps and hold nothing up. Callers,
timeouts, crashes and starts are not assumed to happen.

`turn_queue_goal` uses `ProviderTurnQueue!FairSpec`, which has weak fairness of the worker, of the
promotions of each fiber,
of the stream fiber and of the goal's retries (fibers of one process that go on), and of
three things outside: the provider ends the turn it runs, the ingestion projects what the
provider did, a terminal gives the thread back. Users, faults and the expiry of
reservations are not assumed.

`AutomationRuns!FairSpec` has weak fairness of the scheduler (its loop sleeps and goes on), of the
reactor, of the operation a user has begun, of the stop-check workers, and of the start of a
server that died. Turns may run for ever, users need not answer and the clock may stand.

Deadlock is checked in every run but the two of the turn queue, where a thread that has
nothing left to do stops.

## 4. Proofs

### The authority

`ExecutionAdapterAuthorityProofs` proves, for all sets of threads, claims,
generations and pids, for all bounds, and with no assumption except
`NullAssumption` and `BoundAssumption`:

| theorem | says |
|---|---|
| `Invariance` | the inductive invariant `Inv` always holds |
| `TypeCorrect`, `ClaimsAreCurrent`, `HeldClaimsStay`, `StartsAreClean`, `SnapshotIsCurrent` | `TypeOK`, `ClaimsMatchEpoch`, `LeasedIffHeld`, `StartingIsUnborn`, `DurableNotBehind` |
| `HandoverInTwoSteps`, `RevisionTellsOwner`, `OneGenerationPerEpoch`, `DeletionIsFinal` | `ReadyIsEarned`, `OwnersHaveOwnRevision`, `GenerationNeverReplaced`, `TombstoneIsFinal` |

These invariants are **inductive together and none of them alone**
(`InvMeans` says that `Inv` is their conjunction, arranged by thread and claim):

* `ClaimsMatchEpoch` survives the completion of a launch, which gives the epoch
  its generation without looking at claims, because a starting epoch has no
  claims (`StartingIsUnborn`);
* claims under a terminal stay matched when one is joined or reserved, because
  a terminal claim is never unleased (`LeasedIffHeld`), so it is not a
  structured reservation left over;
* `DurableNotBehind` survives a failed write because disk is at most one operation
  ahead of memory, and every operation leads from a state to one of its
  successors (`Succeeds`), also for a thread of which another thread's write
  rewrites the file;
* the action properties then follow for operations from the condition of each,
  and for `Restart` from `DurableNotBehind`.

The proof has one lemma for each kind of step: claim steps (`ClaimStepKeeps`),
terminal steps (`TerminalStepKeeps`), structured steps (`StructuredStepKeeps`) and
restarts (`RestartKeeps`), which all use two lemmas on what a change of claims and
a commit keep (`ClaimChange`, `CommitKeeps`). Each shows `Inv'` and `Forward`,
the step condition the action properties come from.

### The coordinator

`ExecutionAdapterCoordinatorProofs` proves, for all sets of threads, claims and processes, all
bounds, and with every write, spawn and kill allowed to fail and a crash allowed at every step,
from `NullAssumption`, `BoundAssumption` and `OneNamePerProcess` (the model names a process
and its generation alike):

| theorem | says |
|---|---|
| `CoordinatorInvariant`, `CoordinatorTypeCorrect` | the inductive invariant `CoordinatorInv` always holds, and with it the types |
| `CoordinatorImplementsAuthority` | `ImplementsAuthority`: every step is a step of the authority, or leaves it alone |
| `NoProcessOutlivesItsEpoch` | `OneOwner` |
| `RestartsRunAlone` | `AtMostOneProcess` |
| `NoProcessIsLost` | `AccountedFor` |
| `KillsUnlessReopened` | `KillsAlone` |
| `ExitsAreTrue` | `ExitedIsTrue` |

By the refinement, everything proved of the authority under any caller holds under this one.
`CoordinatorInv` joins the invariant of the authority and eight statements about each thread:

* `Shape`: which operation can be at which step, and where a failure leads it;
* `HasRoom`: the revision leaves room for those the job still raises (`Room`, counted
  by step). The refinement needs it: the authority's bound must not stop a job half way;
* `Recovery`: what a recovery has still to do about a thread agrees with the job that does it, and
  until it begins to act the host holds nothing;
* `Deletion`: a tombstone stands only for a thread that was deleted, and no launch
  is under way there;
* `Quiet`: a terminal state without a generation, or stopping, has no claims; whoever is about to
  kill has closed the thread and waited for its claims, and it is closed still, or was opened again by
  a client that failed to attach; and a launch finds the revision
  it began with, so nobody took the thread from it between its steps;
* `Known`: memory and disk both *know* every process that is alive (they hold its identity, or a
  terminal state without one that does not claim to be stopped), what recovery has read knows the
  processes that the host does not hold, those are alive only while the thread is unverified,
  and there is at most one;
* `Hosted`: where the host is known to be empty (before a spawn, after a kill) and whose process it
  may hold between a spawn and the end of a launch; a watched process is one the host has;
* `Told`: watches and pending exit callbacks carry revisions of the past, so that a late exit
  fails the check of its revision once the thread has moved on.

`OneOwner`, `AtMostOneProcess` and `AccountedFor` follow from `Known`, and `Known` is not
inductive without the rest: that a process is known on disk when memory forgets it is due to the
order in which a teardown writes, waits, kills and writes again, and each job relies several
steps later on what it has read. The statements hold of disk and memory because a
write may fail before or after it reached the disk.

The proof goes in three layers. One lemma for each action says what the step does to its job, its
thread and the rest (`VerifyMoves` ... `FinishMoves`); from these, once for all steps, which
operation of the authority it calls (`MovesTouch`, `StepsOfAuthority`), that the threads it does
not touch keep all that is said of them (`OthersSteady`), and whether its write is *soft* (it
patches status or identity: the state stays like itself, `PatchesAreLike`) or *hard* (it starts,
stops or ends an epoch, `SoftOrHard`). Then one lemma for each statement, over soft and hard writes
instead of forty actions (`RoomKept`, `RecoveryKept`, `DeletionKept`, `QuietKept`, `KnownKept`,
`HostedKept`, `ToldKept`). A crash, which moves every thread at once, is a case of its own (`CrashKeeps`).

### The command path

`OrchestrationEngineProofs` proves, for all sets of commands and aggregates, all
decisions, all projectors and read limits and all bounds, from `DecisionAssumption`
(a decision is a sequence of event types, not empty):

| theorem | says |
|---|---|
| `SettlingIsInvariant` | the inductive invariant `Settling` always holds |
| `CallersAreToldTheTruth` | `AnswersAreTrue` |
| `SettledForGood` | `ReceiptsAreFinal` |
| `OnceAndWhole` | `ReceiptMatchesLog` |

The first two properties are not inductive, because a receipt is written in two places: with the
commit, guarded by the lookup of the same run, and after a rejection, several
steps later and unguarded. `Settling` carries what was looked up over those steps:

* `RejectionIsFirst`: a run that rejects its command has found no receipt, and none
  can have come since, as the lock excludes other runs (`ReceiptsAreFinal`
  follows, and that an answer already given keeps fitting);
* `CommitIsRecorded`: from the commit to the answer, the receipt is the one the run
  answers with;
* `NoneIsNoReceipt` and `AnswersFit`: an answer read from a receipt stays true,
  because a receipt that says something is never rewritten;
* `Begun` and `LogIsBegun`: a run belongs to an envelope that its caller can no
  longer give up, and so does every event of the log, also after a crash;
* `Shaped`: the records have their fields. Which numbers they hold does not matter for
  these properties, so the shape is stated over some set of values and the
  proof does no arithmetic on sequences.

`OnceAndWhole` adds `Recorded`: the receipt of an accepted command stands at the end of
a stretch of the log that holds its decision and is all there is of it. `ReceiptMatchesLog`
says so with minima, maxima and a cardinality; `RecordedMeans` shows that it is the same.

The proof has one lemma for each kind of step: steps that touch nothing of this
(`Quiet`), that move the worker (`WorkerMoves`, `FailKeeps`, `AtKeeps`,
`NextEventKeeps`), that end a run with an answer (`AnswerKeeps`), and one for each
of `Dispatch`, `DispatchTimeout`, `TakeEnvelope`, `Begin`, `Commit` and `Crash`.

### Recovery from the log

`EngineRecoveryProofs` proves, from the same assumption and three more
(`ReadLimitAssumption`; `ProjectorsAssumption`: the projectors are a list of names among which
are those of the projects and of the summaries; `ListedAssumption`: a table the model is
loaded from has its projector in that list, if an event can concern it):

| theorem | says |
|---|---|
| `RecoveryInvariance` | the inductive invariant `Recovering` always holds |
| `DecidesOnWhatIsCommitted` | `DecidesOnCurrentModel` |
| `NoSubscriberHasAGap` | `HeardInOrder` |
| `NoCursorRunsAhead` | `SkippedOnlyByTimeout` |
| `RepairRebuildsProjects` | `ProjectsRebuilt` |

All five have the hypothesis `OneReplay`: the log stays within what one replay reads. It is
the fact that these properties need, and not a bound for the sake of the proof: without it
`engine_repair` finds the last one violated (section 6), and `RepairRebuildsProjects` shows
that the limit is the only way to violate it.

`Recovering` says by the step of the worker how far each thing that follows the log has got,
so that it holds in the middle of a run as well:

* `Placed`: a run works on the last events of the log and started in front of them, so
  whatever it leaves undone is behind `worker.start`, where a reconciliation reads on;
* `HeardSoFar` and `ModelSoFar`: stream and model have got at least to `Published` and
  `Modelled`. A run that fails falls back to its start, which is weaker, and `Reconcile`
  makes up for the difference: here one replay must reach the end of the log;
* `HotTables`: every hot table reflects all of the log, but for the projects while a repair
  rebuilds them, or after a crash in the middle of one. Those reflect the log up to their
  own cursor, *and the hot cursor is reset*: otherwise the next bootstrap would fast-forward
  the cursor past what has not been replayed. That nobody writes the hot cursor between the
  reset and the end of the replay (`FromTheStart`) is what the lock is for;
* `SummaryTable` and `SummedSoFar`: the summaries reflect what their cursor passed, or gave it
  up with a timeout; and they have got as far as the run while they are not `dirty`. Without the
  second part the first is not inductive: projecting an event takes the cursor past all
  events before it, seen or not;
* `Exclusive`, `Within`, `Listed`: nobody runs when the engine is down or under repair, numbers
  are places in the log, and tables have projectors.

The steps that replay (`CatchUp`, `Start`, `StartFails`, `RepairSucceeds`, `RepairFails`) all rest
on two lemmas about a bootstrap from any cursors and tables: one
that gets through reflects everything behind the cursors it began with (`BootstrapCompletes`),
and one that stops anywhere reflects what its cursors have passed (`BrokenOffFurthers`).

### The turn queue

`ProviderTurnQueueProofs` proves, for any set of turns, any of which may steer, any faults and any
number of stops, deletions and continuations, from `TurnAssumption`, `BoundAssumption`,
`FaultAssumption` and `ClaimAssumption` (turns, goal, claims and `Null` are different things):

| theorem | says |
|---|---|
| `QueueInvariant`, `QueueTypeCorrect` | the inductive invariant `QueueInv` always holds, and with it the types |
| `ClaimsAccounted` | each claim is held as often as it is used |
| `WaitingTurnsAreCovered`, `NoClaimIsLeaked` | `ClaimCovers`, `ClaimOwned` |
| `ClosedThreadIsEmpty` | `ClosedMeansEmpty` |
| `MarksAreTrue`, `GoalsYieldToTurns` | `PendingIsTrue`, `GoalYields` |
| `OneTurnAtATime` | `OneTurnRuns` |
| `TurnsAreTracked` | `DeliveryInv`: each turn is in one place, and in none once it is settled (under `NothingSlips`) |
| `QueueImplementsDelivery` | `ImplementsDelivery` (under `NothingSlips`) |

* `ClaimInv` is an account: the holders of a claim are as many as its places in the queue, in
  promotions and in the handler under way (`Uses`). `ClaimCovers` says that nothing is used
  that is not held and `ClaimOwned` that nothing is held that is not used, and neither is inductive:
  a release takes one away, and only the number says whether another use is left. Entering, leaving,
  putting back in front and clearing the queue are lemmas on the set of places of a claim.
* `WaitInv`: only a promotion that the worker itself waits for can be its own.
* `GateInv`: while a stop waits or works, the gate is closed to everybody but a
  deletion, and when it halts the provider, or the terminal has the thread, no claim is left.
  With the account this gives `ClosedMeansEmpty`.
* `LiveInv`: between the worker's look that found no turn and its send, nobody starts one, because
  only the worker sends. This is why the old look is good enough.
* `MarkInv`: until a stop or a deletion clears them, the marks are those of a single promotion. After
  such a clearing a promotion under way goes on without its mark and a second one may begin,
  in the code as in the model; `GoalYields` therefore speaks of the time before
  (`budget.stops = 0 /\ ~Deleted`), for that is how far the claim is true.

`TurnDeliveryProofs` proves of the abstract specification, for any set of turns, that no turn
is delivered twice (`DeliveredAtMostOnce`) and that outcomes stay (`OutcomesStay`).
`QueueImplementsDelivery` hands both on to the queue. It rests on three more parts:

* `DeliveryInv` follows the turns as sets: those in the queue, in the inbox, in promotions not yet
  committed and in the handler. `Once`: no turn is twice in one of them. `Apart`: no turn is in two
  (a committed promotion is not counted: its turn is back in the inbox, the fiber just does not know).
  `Owed`: what is in them was accepted and is not settled, and an accepted turn in
  none of them is settled, or the thread deleted.
* Every step is one of five (`Doing`): it accepts, gives, refuses or drops turns, or moves them from
  one place to another (`Moving`). `TrackedStep` shows it action by action, `DoingIsDelivery`
  that each of the five is a step of `TurnDelivery` or a stutter.
* A handler that decided to start and finds the gate closed drops its turn without a word. That is
  no loss, for the thread is deleted then (`StartsOrDeleted`): the terminal cannot have it, because
  the handler holds a claim (`ClaimInv`, `GateInv`), and a stop cannot be under way, because the
  worker would be in it (`OneStop`).

The hypothesis `NothingSlips` leaves out three of the six kinds of failure, because with each of
them the promise is broken, in the code as in the model: a handler that is given up after two
minutes may leave a turn behind or send it again, a failed write of the "starting" session is logged
and loses the turn, and an event that is published twice is queued twice. Failed sends, rejected
promotions, failed interrupts and stops of the provider, switches and deletions are all in. Nothing else in this
section needs the hypothesis.

### Automations

`AutomationRunsProofs` proves, for any number of runs, any scenario and any budget, from
`RunsAssumption` and `ScenarioAssumption`:

| theorem | says |
|---|---|
| `Invariant` | the inductive invariant `IInv` always holds |
| `TypeCorrect`, `OneRunPerThread`, `StatusIsOwn` | `AutomationTypeOK`, `OneActivePerThread`, `StatusFollowsOwnTurn` |
| `TerminalStays`, `OldPolicy` | `TerminalIsFinal`, `OldPolicyNeverStops` |
| `OneAfterStop`, `NoWorktreeForgotten` (`AutomationLoopProofs`) | `AtMostOneAfterStop`, `WorktreeHasOwner` |
| `LoopIsBounded`, `OncePerOccurrence` (`AutomationLoopProofs`) | `BoundedLoop`; `OccurrenceRunsOnce`, unless the misfire policy is "run-latest" |

What makes it hard is that a fiber writes what it concluded several steps before. `Sound(f, k)`
says of the task k of fiber f what still holds of its run when it comes to write: that a
"succeed" it carries is about a completed turn whose row has the message of the run, that a run it
is to skip has no
thread, that a dispatch is of a run whose turn does not exist yet. `Keeps(f)` is what a step of f
leaves alone for everyone else: a run keeps its thread, a completed turn stays so, a row keeps
its message, only the dispatcher of a run gives it a turn. `OthersSound` is the heart: the tasks of the others
stay sound over every step that keeps. `Apart` adds that no two fibers dispatch the same run,
`StartedHasThread` that a time limit concerns runs with a thread only, and `ChecksAreCurrent`
that a stop check whose time is that of the row, and did not come back, is of the policy of the row.
`CarriedBegan` and `OwnUnlessCrossed` are about the projection of turns: only a turn that began has a
message, and until requests cross a turn has its own or none, and what is requested is in the pending
row; `RequestRows` and `BeginsRows` show it for the two kinds of step that touch these rows. One
lemma per action shows that
it keeps and that its own new task is sound.

The other four rest on `IInv` and each on an invariant of its own:

* `LateInv`: while the scheduler is between its look and its insertion, nothing was started
  since the stop, because the look found the automation running (`DecidesWhenDue`); so the
  insertion that comes late is the first.
* `OwnerInv`: a loose worktree has a fiber at one of the three steps of `Owning`, or a crash
  was spent; one whose removal failed is not loose any more. `SeesTo` says that a fiber touches the
  worktree of its own run only, and leaves its
  post only when that is not loose.
* `BillInv`: the runs billed to the schedule, which have a turn or were counted and are about to
  get one, number at most `maxIterations * restarts + iterationCount`, and at most
  `maxIterations * (1 + restarts)`; one less while the scheduler has found the limit not reached and
  has not counted yet (`Chosen`). The first bound makes the second survive the look-up, the second
  makes the first survive a restart that sets the count to 0. `ManualInv` keeps the user's
  dispatches off the bill.
* `OnceInv`: a scheduled run is for the time it was planned for, and no two for the same
  (`SameOccurrence`, the unique index). With "run-latest" planned time and occurrence differ,
  and the argument would be about the schedule advancing; that case stays with TLC.

### Only model-checked

Of automations, `OccurrenceRunsOnce` under "run-latest" (planned: section 7); and the two
violations, which only need
a trace. For good, liveness under fairness (`EveryJobEnds`,
`EveryCommandAnswered`, `WaitsBehindLive`, `EveryRunSettles`, `EveryCheckEnds`), which is out of the
prover's reach, as are
`ENABLED`, induction over data, and RECURSIVE operators (there are none).

## 5. Not modelled, and why

* In the authority: the change stream, the decoding of the file, and its size limit.
* In the coordinator: terminal input and resize, and of an attachment all but the error its failure
  writes into the authority; pausing of hooks, prompts, continuity and runtime directories; which
  provider and settings allow a terminal (a free choice); reuse of process
  ids; an unavailable authority (modelled in the authority itself); structured
  leases of other callers (reaper, interactions), which are like the lease of a turn.
* On the command path: what the decider checks; the admission by the authority
  before a dispatch; event types that concern projectors in the same way as one
  that is modelled; `projectEvent`, which only tests call; attachments; the purge of
  deleted threads, which removes rows on purpose; the interruption of the scope
  of a catch-up between its mark and its fiber.
* In the turn queue: edit and resend, the steering of a live Codex turn, other threads (the
  worker's handlers of different threads run one after the other), and what a restart
  makes of queued turns, which live in memory.
* In automations: creating and listing definitions, archiving a run, the fallback of an
  automatic worktree mode, deletion and rollback of threads, turns steered into a running one,
  several servers on one database.
* Most of the repository by lines: the web and desktop applications, generated schemas and the
  protocols of the agents make up nearly all of its 400 thousand lines. They hold state of
  their own, but little of what can go wrong between steps of different actors; the
  map therefore covers a small share of the lines.
* Components marked `not_modelled` in `PROJECT.json`: pure I/O, parsing, user
  interfaces, or planned (section 7).

## 6. Findings

### A turn beside a terminal

`switchToTerminal` looks up live provider sessions **before** it seizes the authority
(`ExecutionAdapterCoordinator.ts:143-167`), and the reactor releases its claim when
a turn has been sent (`providerTurnAdmission.ts:258-262`). A turn admitted after
the lookup and sent before the switch leaves no claim behind: the switch
succeeds, and the turn runs on beside the terminal (or, when an idle session
had been found, is silently stopped with it). The plan of this feature promises
that one adapter at a time executes a thread
(`src/docs/plans/embedded-agent-terminal-redo.md:15-16`) and that the turn start
reservation closes the race after the check (line 61). The run
`coordinator_one_adapter` shows the trace: BeginStart, Enter, Lookup, ReserveTurn,
TakeTurn, OpenSession, SendTurn, ReleaseLease, BeginSwitch, Prepare, Spawn.

### A repair rebuilds the first thousand events only

`repairState` deletes the projects and all hot cursors, then bootstraps once, and a
bootstrap reads at most 1000 events per projector (`OrchestrationEventStore.ts:308`,
`pipelineRuntime.ts:153`). Projects created later in the log are gone after a
successful repair; and the next project event, or the fast-forward of the next
start, moves the cursor past them. The run `engine_repair` shows it with a limit of
two and a log of three.

### Observations without a run

Behaviour met while modelling that no line of the repository promises otherwise, or whose
cost is small. The models contain it, and the properties above are stated around it:

* After a failed run the worker publishes all that the log holds behind the sequence the
  model had (`commandProcessor.ts:94-107`), so the stream may repeat events of earlier commands.
* Any start of a turn clears the mark of a pending dispatch (`providerTurnAdmission.ts:100`), also
  one that was in the inbox before the promoted turn: a second turn may be promoted too early,
  finds the first one running and is queued again behind later turns.
* A turn that is queued on an old look (`providerTurnAdmission.ts:140`), when the terminal event has
  already been handled, waits for some other event of its thread.
* A queued event that is published twice is queued, and run, twice (`providerTurnAdmission.ts:265`).
* A failed write of the "starting" session (`providerTurnAdmission.ts:159-173`, before the
  `catchCause` around the dispatch) ends the handler: the claim is released, and the turn is
  neither sent nor shown as failed; only the log tells.
* A promotion interrupted by the two minutes puts its turn back although the engine may still
  commit it: the turn is then sent twice.
* When the advance of a schedule fails after the insertion, the pending run is dispatched by nobody
  and blocks the thread of a heartbeat until the next start recovers it.
* An update saves the whole row it read (`automationDefinitionOperations.ts:228`): a stop, a deletion
  or an advance that came in between is undone.
* `markRunResult` has no guard: it may overwrite the result of a run that was cancelled or
  evaluated meanwhile (its status stays).
* A client that fails to attach while its terminal is being stopped opens the epoch to hooks again
  (`terminalAgentSubscription.ts:205-214`, `ExecutionAdapterCoordinator.ts:406-421`): the kill may
  then come under a claim.
  And when it fails after the stop was recorded, the stopped thread (no pid) becomes failed without a
  pid, of which the next recovery does not believe that its process is gone.
* A run of a heartbeat that is dispatched while a turn of the user is starting takes that turn's place in
  the pending row: it succeeds by the user's turn. The other way round, a message of the user while the
  run's turn is starting takes the row from the run, which then finds no turn of its own, and
  stays running until its time limit, a cancellation or the next start.
* A heartbeat run whose request is lost in a crash keeps its pending row, so recovery does not find it
  hopeless (`automationRunReconciliation.ts:42-65`): it stays running until its time limit or a
  cancellation; or until a request of the user replaces the row, after which the next start ends it.
* A scheduler pass that advanced the schedule before a stop check was asked, and counts the run after the
  policy was saved anew, writes the time of the advance back: the check, which had read the row
  before the save, still finds "its" row
  (`definitionQueries.ts:333-346`) and stops the loop under the new policy.
* A worktree whose removal fails stays, unknown to any thread. And a thread whose creation is
  reported as failed although it happened loses its worktree, because the cleanup does not ask
  (`automationRunDispatch.ts:316-327`).
* A run that is cancelled between the last check of the dispatch and its turn start leaves the turn
  running.

## 7. Plan

Done: the authority, the coordinator with its refinement, the projection pipeline and the
orchestration engine, the turn queue with the delivery it implements, and automations, with
proofs of their safety properties (but for `OccurrenceRunsOnce`) and of both refinements. What would come next:

1. **The admission that precedes a dispatch**, which composes the engine with the
   authority.
2. **The turn queue over a restart**, with startup reconciliation and resumed turns; edit
   and resend.
3. **`TerminalHost`**: pending creates and kills, tombstones, grace period,
   generations; refined by the process part of the coordinator.
4. **Proofs**: `OccurrenceRunsOnce` under "run-latest", by the schedule being ahead of every run
   that was dispatched; that a turn is given twice only after a time limit or a duplicate,
   for every kind of failure.
5. The **checkpoint reactor**, and what a turn's end means to it.
