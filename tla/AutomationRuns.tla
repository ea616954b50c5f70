---------------------------- MODULE AutomationRuns ----------------------------
(***************************************************************************)
(* One automation and its runs: apps/server/src/automation.  The scheduler *)
(* reconciles the active runs and starts what is due; the reactor          *)
(* reconciles the thread of an event; a user runs, cancels, changes or     *)
(* deletes.  Each is a fiber that pauses between any two accesses to the   *)
(* database, and everything they read may be old when they write.          *)
(*                                                                         *)
(* Settings and bounds are a Scenario, chosen once: a run of TLC explores  *)
(* several small automations at once.                                      *)
(***************************************************************************)
EXTENDS Integers, FiniteSets

CONSTANTS
  MaxRun,     \* run ids there are
  Scenario    \* the automations and environments to choose from

Settings ==
  [mode : {"heartbeat", "standalone"}, once : BOOLEAN, ai : BOOLEAN, stopOnError : BOOLEAN,
   misfirePolicy : {"skip", "coalesce", "run-latest"}, worktree : BOOLEAN,
   maxIterations : Nat, maxRuntime : Nat]                 \* 0: no limit

Requests == {"run", "cancel", "delete", "enable", "disable", "policy", "read"}

(* How many ticks of the clock, crashes, failing operations, questions of a turn
   and turns of the user, and which of the requests, each made once. *)
Budget == [ticks : Nat, crashes : Nat, faults : Nat, asks : Nat, turns : 0..1,
           requests : SUBSET Requests]

ASSUME RunsAssumption == MaxRun \in Nat
ASSUME ScenarioAssumption == Scenario \subseteq [settings : Settings, budget : Budget]

Run == 1..MaxRun
UserTurn == MaxRun + 1     \* a turn the user starts in a thread of a run
Turn == Run \cup {UserTurn}
Fiber == {"scheduler", "reactor", "user"}

VARIABLES
  settings,    \* what the user configured; nothing here changes it
  definition,  \* the row of automation_definitions
  run,         \* the rows of automation_runs
  turn,        \* the state of each turn in its thread; "asking" while it waits for the user
  requested,   \* the message in the one pending row of each thread, or 0
  carries,     \* the message in the row of each turn, or 0
  latest,      \* latestTurn of each thread
  guest,       \* the thread the user works in
  crossed,     \* a request was replaced, or taken by another turn, before its own began
  created,     \* runs whose thread was created
  worktree,    \* none, loose, left, or attached to the thread of the run
  task,        \* what each fiber is in the middle of
  queued,      \* queuedThreadIds of the reactor
  check,       \* the stop check of a run: none, queued, evaluating, stop or record
  updatedAt,   \* when the definition was written last
  asked,       \* the updatedAt under which each stop check was queued
  lease,       \* the scheduler lease belongs to a process that died
  clock,       \* 0 stands for no time, too
  up,
  budget,      \* what is left of it
  history      \* restarts, runs inserted after a stop, a save of an old row

store == <<definition, run>>
rows == <<requested, carries, latest, guest, crossed>>
world == <<turn, rows, created, worktree>>
checks == <<check, asked, updatedAt>>
outside == <<settings, lease, clock, up, budget>>
vars == <<settings, definition, run, turn, requested, carries, latest, guest, crossed, created,
          worktree, task, queued, check, updatedAt, asked, lease, clock, up, budget, history>>

-----------------------------------------------------------------------------
(* Rows *)

Active == {"pending", "running", "waiting-for-approval"}
Terminal == {"succeeded", "failed", "cancelled", "interrupted"}

NoRun == [status |-> "none", trigger |-> "manual", scheduledFor |-> 0, planned |-> 0,
          threaded |-> FALSE, startedAt |-> 0, evaluated |-> FALSE, version |-> 0, turn |-> 0]

Heartbeat == settings.mode = "heartbeat"
Thread == 0..MaxRun
ThreadOf(r) == IF Heartbeat THEN 0 ELSE r
IsActive(r) == run[r].status \in Active
InThread(t) == {r \in Run : IsActive(r) /\ run[r].threaded /\ ThreadOf(r) = t}
ActiveRuns == {r \in Run : IsActive(r)}
First(S) == CHOOSE r \in S : \A s \in S : r <= s
Unused == {r \in Run : run[r].status = "none"}

ThreadExists(t) == Heartbeat \/ t \in created

Stopped(d) == d.archived \/ ~d.enabled
Exhausted(d) == settings.maxIterations # 0 /\ d.iterationCount >= settings.maxIterations

(* The view automation_pending_completion_evaluations. *)
Pending(r) ==
  /\ run[r].status = "succeeded" /\ ~run[r].evaluated
  /\ ~Stopped(definition) /\ Heartbeat /\ settings.ai
  /\ run[r].version = definition.version

(* Times, of which only matters whether two are the same.  Bound: one that
   nobody holds any more is used again. *)
Time == 1..(MaxRun + 4)
Held == {updatedAt} \cup {asked[r].time : r \in Run} \cup {task[f].now : f \in {"scheduler", "user"}}
Now == CHOOSE time \in Time : time \notin Held

(* The writes of one pass of the scheduler, or of one request to run now, bear
   one time. *)
NowOf(f) == IF task[f].now # 0 THEN task[f].now ELSE Now

NotAsked == [time |-> 0, again |-> FALSE]
Unchanged(r) == asked[r].time = updatedAt

(* A write of the row sets updated_at, by which a stop check knows; again: the
   row got the time of a check back. *)
Stamp(now) ==
  /\ ~Time \subseteq Held
  /\ updatedAt' = now
  /\ asked' = [r \in Run |-> IF asked[r].time = now /\ updatedAt # now
                             THEN [asked[r] EXCEPT !.again = TRUE] ELSE asked[r]]

Write(d, now) ==
  /\ definition' = d
  /\ Stamp(now)
  /\ history' = [history EXCEPT !.late = IF Stopped(d) THEN @ ELSE 0]

Disabled(d) == [d EXCEPT !.enabled = FALSE, !.nextRunAt = 0]

(* computeNextAutomationRunAt and computeNextAutomationRunAtAfter: one runs at
   time 1, the other at every time. *)
NextFrom(now) == IF settings.once THEN (IF now < 1 THEN 1 ELSE 0) ELSE now + 1
NextAfter(from, now) == IF settings.once THEN 0 ELSE (IF from + 1 > now THEN from ELSE now) + 1

-----------------------------------------------------------------------------
(* Fibers *)

NoRow == [enabled |-> FALSE, archived |-> FALSE, nextRunAt |-> 0, iterationCount |-> 0,
          version |-> 0]

(* row is the definition as it was read, slot and next what follows from it,
   turn the turn a run was found to have, now the time of a write made before. *)
Idle == [at |-> "idle", back |-> "idle", run |-> 0, plan |-> "none", left |-> {},
         row |-> NoRow, slot |-> 0, next |-> 0, turn |-> 0, now |-> 0]

At(f, step) == up /\ task[f].at = step
Becomes(f, t) == task' = [task EXCEPT ![f] = t]
Go(f, step) == task' = [task EXCEPT ![f].at = step]
Return(f) ==
  task' = [task EXCEPT ![f] = [Idle EXCEPT !.at = task[f].back, !.back = task[f].back,
                                           !.left = task[f].left]]

Recovering == task["scheduler"].back = "recover"

(* streamDomainEvents, as the reactor hears it once it has recovered; a thread
   that is in the queue, or being reconciled, is not queued again. *)
Publish(t) == queued' = IF up /\ ~Recovering THEN queued \cup {t} ELSE queued

-----------------------------------------------------------------------------
(* reconcileThread: from the state of the turn to the state of the run *)

(* resolveRunTurn: in a thread it shares, a turn whose row has the message of the
   run, whichever turn that is; in a thread made for it, the latest.  0 stands for
   the pending row, and for none. *)
Rows(r) == {u \in Turn : carries[u] = r} \cup (IF requested[0] = r THEN {0} ELSE {})
Judged_Latest(r) == {latest[ThreadOf(r)]}                               \* mutant
Judged(r) ==
  IF ~Heartbeat THEN {latest[ThreadOf(r)]}
  ELSE IF run[r].turn # 0 THEN {run[r].turn}
  ELSE IF Rows(r) # {} THEN Rows(r) ELSE {0}

Found(r) == IF Heartbeat THEN run[r].turn # 0 \/ Rows(r) # {} ELSE latest[ThreadOf(r)] # 0

(* hasPendingApprovals or hasPendingUserInput, of whatever turn of the thread. *)
Home(u) == IF u # UserTurn THEN ThreadOf(u) ELSE guest
Asking(t) == \E u \in Turn : Home(u) = t /\ turn[u] = "asking"

OwnsInput(u) == Heartbeat => u # 0 /\ latest[0] = u

Ended == {"completed", "error", "interrupted"}

Plan(r, u) ==
  IF Asking(ThreadOf(r)) /\ OwnsInput(u)
    THEN IF run[r].status = "waiting-for-approval" THEN "nothing" ELSE "wait"
  ELSE IF u = 0 \/ turn[u] \notin Ended
    THEN IF run[r].status = "waiting-for-approval" /\ OwnsInput(u) THEN "resume" ELSE "nothing"
  ELSE CASE turn[u] = "completed" -> "succeed"
         [] turn[u] = "error" -> "fail"
         [] OTHER -> "interrupt"

(* The three reads are one step: what they lead to is written later anyway. *)
Look(f) ==
  /\ At(f, "look")
  /\ LET t == ThreadOf(task[f].run)
     IN IF InThread(t) = {} \/ ~ThreadExists(t)
        THEN Return(f)
        ELSE LET r == First(InThread(t))
             IN \E u \in Judged(r) :
                  IF Plan(r, u) = "nothing" THEN Return(f)
                  ELSE Becomes(f, [task[f] EXCEPT !.at = "mark", !.run = r, !.plan = Plan(r, u),
                                                  !.turn = u])
  /\ UNCHANGED <<store, world, checks, queued, outside, history>>

(* The guarded updates of runMutationQueries.ts: the status a row gets. *)
Unless_Never(s, new) == new                                             \* mutant
Unless(s, new) == IF s \in Terminal THEN s ELSE new
Marked(plan, s) ==
  CASE plan = "wait" -> IF s \in {"pending", "running"} THEN "waiting-for-approval" ELSE s
    [] plan \in {"resume", "start"} ->
         IF s \in {"pending", "waiting-for-approval"} THEN "running" ELSE s
    [] plan = "succeed" -> Unless(s, "succeeded")
    [] plan \in {"fail", "overrun", "give-up"} -> Unless(s, "failed")
    [] plan \in {"interrupt", "recover"} -> Unless(s, "interrupted")
    [] plan = "cancel" -> IF s \in Active THEN "cancelled" ELSE s
    [] plan = "skip" -> IF s = "pending" THEN "skipped" ELSE s

(* Mark and read back.  A row that was marked by someone else ends the matter
   for those that check; the others go on with the status they found. *)
Mark(f) ==
  /\ At(f, "mark")
  /\ LET r == task[f].run
         plan == task[f].plan
         s == Marked(plan, run[r].status)
         own == CASE plan \in {"overrun", "give-up"} -> s = "failed"
                  [] plan = "recover" -> s = "interrupted"
                  [] plan = "cancel" -> s = "cancelled"
                  [] OTHER -> TRUE
         found == /\ plan \in {"wait", "succeed", "interrupt"}
                  /\ s # run[r].status /\ task[f].turn # 0
     IN /\ run' = [run EXCEPT ![r].status = s, ![r].turn = IF found THEN task[f].turn ELSE @]
        /\ CASE ~own -> Return(f)
             [] plan = "succeed" -> Becomes(f, [task[f] EXCEPT !.at = "stop", !.plan = s])
             [] OTHER -> Go(f, "result")
  /\ UNCHANGED <<definition, world, checks, queued, outside, history>>

(* markRunResult is not guarded: it replaces the result of whatever the row has
   become, the record of a stop check included. *)
Result(f) ==
  /\ At(f, "result")
  /\ LET r == task[f].run
     IN /\ run' = [run EXCEPT ![r].evaluated = FALSE]
        /\ CASE task[f].plan \in {"fail", "interrupt", "overrun", "give-up"} ->
                  Becomes(f, [task[f] EXCEPT !.at = "stop", !.plan = run[r].status])
             [] task[f].plan = "cancel" -> Go(f, "interrupt")
             [] task[f].plan = "skip" -> Go(f, "advance")
             [] OTHER -> Return(f)
  /\ UNCHANGED <<definition, world, checks, queued, outside, history>>

Ask(found) == asked' = [r \in Run |-> IF r \in found THEN [time |-> updatedAt, again |-> FALSE]
                                       ELSE asked[r]]

(* maybeStopLoop: task[f].plan is the status the run was found in. *)
Stop(f) ==
  /\ At(f, "stop")
  /\ LET r == task[f].run
         status == task[f].plan
         evaluate == /\ ~Stopped(definition) /\ ~Exhausted(definition)
                     /\ status = "succeeded" /\ Heartbeat /\ settings.ai
                     /\ run[r].version = definition.version
     IN /\ IF evaluate /\ check[r] = "none"
           THEN check' = [check EXCEPT ![r] = "queued"] /\ Ask({r})
           ELSE UNCHANGED <<check, asked>>
        /\ IF /\ ~Stopped(definition)
              /\ (status = "failed" /\ settings.stopOnError) \/ Exhausted(definition)
           THEN Go(f, "disable")
           ELSE Return(f)
  /\ UNCHANGED <<store, world, updatedAt, queued, outside, history>>

Disable(f) ==
  /\ At(f, "disable")
  /\ Write(Disabled(definition), Now)
  /\ Return(f)
  /\ UNCHANGED <<run, world, check, queued, outside>>

(* interruptRunBestEffort.  What it does to the turn is in EndTurn; the reactor
   hears of the request. *)
Interrupt(f) ==
  /\ At(f, "interrupt")
  /\ IF run[task[f].run].threaded THEN Publish(ThreadOf(task[f].run)) ELSE UNCHANGED queued
  /\ IF task[f].plan = "overrun" THEN Go(f, "mark") ELSE Return(f)
  /\ UNCHANGED <<store, world, checks, outside, history>>

-----------------------------------------------------------------------------
(* A pass of the scheduler: reconcileActiveRuns, then runDueOnce *)

ToReconcile_Nothing == {}                                               \* mutant
ToReconcile == ActiveRuns

BeginPass ==
  /\ At("scheduler", "idle")
  /\ Becomes("scheduler", [Idle EXCEPT !.at = "each", !.back = "each", !.left = ToReconcile])
  /\ UNCHANGED <<store, world, checks, queued, outside, history>>

Overrun(r) ==
  /\ settings.maxRuntime # 0 /\ run[r].startedAt # 0
  /\ clock - run[r].startedAt >= settings.maxRuntime

(* The rows were listed before: a run may be over by its turn in the list. *)
Each ==
  /\ At("scheduler", "each") /\ task["scheduler"].left # {}
  /\ LET r == First(task["scheduler"].left)
         rest == [task["scheduler"] EXCEPT !.left = @ \ {r}, !.run = r]
     IN Becomes("scheduler",
          CASE Overrun(r) -> [rest EXCEPT !.at = "interrupt", !.plan = "overrun"]
            [] ~Overrun(r) /\ run[r].threaded -> [rest EXCEPT !.at = "look"]
            [] OTHER -> [rest EXCEPT !.run = 0])
  /\ UNCHANGED <<store, world, checks, queued, outside, history>>

(* enqueuePendingCompletionEvaluations *)
EnqueuePending_Nothing == UNCHANGED <<check, asked>>                    \* mutant
EnqueuePending ==
  LET found == {r \in Run : Pending(r) /\ check[r] = "none"}
  IN /\ check' = [r \in Run |-> IF r \in found THEN "queued" ELSE check[r]]
     /\ Ask(found)

EndReconcile ==
  /\ At("scheduler", "each") /\ task["scheduler"].left = {}
  /\ EnqueuePending
  /\ Becomes("scheduler", [Idle EXCEPT !.at = "due"])
  /\ UNCHANGED <<store, world, updatedAt, queued, outside, history>>

IsDue_Stopped(d) ==                                                     \* mutant
  d.nextRunAt # 0 /\ d.nextRunAt <= clock
IsDue(d) ==
  ~Stopped(d) /\ d.nextRunAt # 0 /\ d.nextRunAt <= clock

LimitReached_OneMore(d) ==                                              \* mutant
  settings.maxIterations # 0 /\ d.iterationCount > settings.maxIterations
LimitReached(d) == Exhausted(d)

(* tryAcquireSchedulerLease and listDueDefinitions, then what runDueDefinition
   makes of the row it was given. *)
Due ==
  /\ At("scheduler", "due")
  /\ LET missed == definition.nextRunAt < clock
         slot == IF missed /\ settings.misfirePolicy = "run-latest" THEN clock
                 ELSE definition.nextRunAt
         found == [Idle EXCEPT !.row = definition, !.slot = slot,
                               !.next = NextAfter(slot, clock)]
     IN Becomes("scheduler",
          CASE lease \/ ~IsDue(definition) \/ Unused = {}
               \/ (Heartbeat /\ \E r \in Run : Pending(r)) -> Idle
            [] OTHER ->
               IF LimitReached(definition) THEN [Idle EXCEPT !.at = "disable"]
               ELSE IF missed /\ settings.misfirePolicy = "skip"
               THEN [found EXCEPT !.at = "insert", !.plan = "skip"]
               ELSE [found EXCEPT !.at = IF Heartbeat THEN "ask" ELSE "insert", !.plan = "start"])
  /\ UNCHANGED <<store, world, checks, queued, outside, history>>

(* heartbeatThreadRunState *)
AskThread ==
  /\ At("scheduler", "ask")
  /\ IF \E r \in Run : Pending(r)
     THEN Return("scheduler")
     ELSE Becomes("scheduler", [task["scheduler"] EXCEPT !.at = "insert",
                                !.plan = IF InThread(0) # {} THEN "skip" ELSE "start"])
  /\ UNCHANGED <<store, world, checks, queued, outside, history>>

SameOccurrence_No(f) == {}                                              \* mutant
SameOccurrence(f) ==
  {r \in Run : run[r].status # "none" /\ run[r].trigger = "scheduled"
               /\ run[r].scheduledFor = task[f].slot}

MayInsert_Always(t) == TRUE                                             \* mutant
MayInsert(t) == InThread(t) = {}

HasThread_Always(f) == TRUE                                             \* mutant
HasThread(f) == task[f].plan = "start"

(* createPendingRun: INSERT OR IGNORE, then the row that is there.  A run that
   is to be skipped gets no thread. *)
Insert(f) ==
  /\ At(f, "insert") /\ Unused # {}
  /\ LET r == First(Unused)
         scheduled == f = "scheduler"
         threaded == HasThread(f)
         inserted == /\ scheduled => SameOccurrence(f) = {}
                     /\ threaded => MayInsert(ThreadOf(r))
     IN /\ run' = IF ~inserted THEN run
                  ELSE [run EXCEPT ![r] =
                          [NoRun EXCEPT !.status = "pending", !.threaded = threaded,
                             !.trigger = IF scheduled THEN "scheduled" ELSE "manual",
                             !.scheduledFor = IF scheduled THEN task[f].slot ELSE clock,
                             !.planned = task[f].row.nextRunAt,
                             !.version = task[f].row.version]]
        /\ history' = IF inserted /\ scheduled /\ task[f].plan = "start" /\ Stopped(definition)
                      THEN [history EXCEPT !.late = @ + 1] ELSE history
        /\ Becomes(f, CASE inserted ->
                             [task[f] EXCEPT !.run = r,
                                !.at = IF task[f].plan = "skip" THEN "mark"
                                         ELSE IF scheduled THEN "advance" ELSE "count"]
                        [] ~inserted /\ scheduled -> [task[f] EXCEPT !.at = "advance", !.run = 0]
                        [] OTHER -> Idle)
  /\ UNCHANGED <<definition, world, checks, queued, outside>>

AfterAdvance(f, now) ==
  IF task[f].plan = "start" /\ task[f].run # 0
  THEN Becomes(f, [task[f] EXCEPT !.at = "count", !.now = now]) ELSE Return(f)

(* advanceScheduledDefinition, before the run is dispatched. *)
Advance ==
  /\ At("scheduler", "advance")
  /\ Write(IF settings.once THEN Disabled(definition)
           ELSE [definition EXCEPT !.nextRunAt = task["scheduler"].next], Now)
  /\ AfterAdvance("scheduler", Now)
  /\ UNCHANGED <<run, world, check, queued, outside>>

Count(f) ==
  /\ At(f, "count")
  /\ Write([definition EXCEPT !.iterationCount = @ + 1], NowOf(f))
  /\ Becomes(f, [Idle EXCEPT !.at = "start", !.run = task[f].run])
  /\ UNCHANGED <<run, world, check, queued, outside>>

-----------------------------------------------------------------------------
(* dispatchRun, by the scheduler or by the user who asked for the run *)

GiveUp(f) == Becomes(f, [task[f] EXCEPT !.at = "mark", !.plan = "give-up"])

Start(f) ==
  /\ At(f, "start")
  /\ LET r == task[f].run
         s == Marked("start", run[r].status)
     IN /\ run' = [run EXCEPT ![r].status = s,
                              ![r].startedAt = IF s # run[r].status THEN clock ELSE @]
        /\ IF s # "running" THEN GiveUp(f)
           ELSE Go(f, IF Heartbeat THEN "check-send"
                      ELSE IF settings.worktree THEN "check-worktree" ELSE "check-create")
  /\ UNCHANGED <<definition, world, checks, queued, outside, history>>

(* A worktree that has no thread yet is taken away first. *)
CleanUpFirst(f) == IF worktree[task[f].run] = "loose" THEN Go(f, "clean-up") ELSE GiveUp(f)

(* requireRunStillDispatching before each step that leaves a trace. *)
Checked(f, step, next) ==
  /\ At(f, step)
  /\ IF run[task[f].run].status = "running" THEN Go(f, next) ELSE CleanUpFirst(f)
  /\ UNCHANGED <<store, world, checks, queued, outside, history>>

CheckWorktree(f) == Checked(f, "check-worktree", "worktree")
CheckCreate(f) == Checked(f, "check-create", "create")
CheckSend(f) == Checked(f, "check-send", "send")

CreateWorktree(f) ==
  /\ At(f, "worktree")
  /\ worktree' = [worktree EXCEPT ![task[f].run] = "loose"]
  /\ Go(f, "check-create")
  /\ UNCHANGED <<store, turn, rows, created, checks, queued, outside, history>>

ThreadCreated(r) ==
  /\ created' = created \cup {r}
  /\ worktree' = [worktree EXCEPT ![r] = IF @ = "loose" THEN "attached" ELSE @]

CreateThread(f) ==
  /\ At(f, "create")
  /\ ThreadCreated(task[f].run)
  /\ Go(f, "check-send")
  /\ UNCHANGED <<store, turn, rows, checks, queued, outside, history>>

(* The session runs a turn: its activeTurnId is set. *)
Busy(t) == \E u \in Turn : Home(u) = t /\ turn[u] \in {"running", "asking"}

(* turn-start-requested replaces the pending row of the thread. *)
Requested(u, t, how) ==
  /\ turn' = [turn EXCEPT ![u] = how]
  /\ requested' = [requested EXCEPT ![t] = u]
  /\ crossed' = (crossed \/ requested[t] \notin {0, u})

(* thread.turn.start: behind a turn that runs, the request is queued instead. *)
Given(u, t) ==
  /\ IF Busy(t) THEN turn' = [turn EXCEPT ![u] = "queued"] /\ UNCHANGED <<requested, crossed>>
     ELSE Requested(u, t, "pending")
  /\ UNCHANGED <<carries, latest>>

Send(f) ==
  /\ At(f, "send")
  /\ Given(task[f].run, ThreadOf(task[f].run))
  /\ Return(f)
  /\ UNCHANGED <<store, guest, created, worktree, checks, queued, outside, history>>

CleanUp(f) ==
  /\ At(f, "clean-up")
  /\ worktree' = [worktree EXCEPT ![task[f].run] = "none"]
  /\ GiveUp(f)
  /\ UNCHANGED <<store, turn, rows, created, checks, queued, outside, history>>

Spend == /\ budget.faults > 0
         /\ budget' = [budget EXCEPT !.faults = @ - 1]

AfterFailedCreate_GiveUp(f) == GiveUp(f)                                \* mutant
AfterFailedCreate(f) == CleanUpFirst(f)

(* A step of the dispatch fails; a command may have been accepted although its
   dispatch fails. *)
DispatchFails(f) ==
  /\ Spend
  /\ \/ /\ At(f, "start") \/ At(f, "worktree")
        /\ GiveUp(f)
        /\ UNCHANGED world
     \/ /\ At(f, "create")
        /\ AfterFailedCreate(f)
        /\ ThreadCreated(task[f].run) \/ UNCHANGED <<created, worktree>>
        /\ UNCHANGED <<turn, rows>>
     \/ /\ At(f, "send")
        /\ GiveUp(f)
        /\ Given(task[f].run, ThreadOf(task[f].run)) \/ UNCHANGED <<turn, rows>>
        /\ UNCHANGED <<guest, created, worktree>>
     \/ /\ At(f, "clean-up")
        /\ GiveUp(f)
        /\ worktree' = [worktree EXCEPT ![task[f].run] = IF @ = "loose" THEN "left" ELSE @]
        /\ UNCHANGED <<turn, rows, created>>
  /\ UNCHANGED <<store, checks, queued, settings, lease, clock, up, history>>

(* Any other access fails: the fiber gives up what it was doing for this run.
   A run that was inserted and not dispatched stays as it is. *)
Fails(f) ==
  /\ Spend
  /\ up
  /\ task[f].at \in {"mark", "result", "stop", "disable", "ask", "insert", "advance", "count",
                     "restart", "save", "archive", "read"}
  /\ Return(f)
  /\ history' = [history EXCEPT !.failed = TRUE]
  /\ UNCHANGED <<store, world, checks, queued, settings, lease, clock, up>>

(* Bound: a fiber that finds no run id left gives up. *)
NoneLeft(f) ==
  /\ At(f, "insert") /\ Unused = {}
  /\ Return(f)
  /\ UNCHANGED <<store, world, checks, queued, outside, history>>

-----------------------------------------------------------------------------
(* What a user asks for *)

Request(kind) ==
  /\ At("user", "idle") /\ ~Recovering
  /\ kind \in budget.requests
  /\ budget' = [budget EXCEPT !.requests = @ \ {kind}]
  /\ UNCHANGED <<store, world, checks, queued, settings, lease, clock, up, history>>

(* runNow: the checks, then a loop that has run out starts again. *)
RunNow ==
  /\ Request("run")
  /\ Unused # {} /\ ~definition.archived
  /\ Heartbeat => InThread(0) = {} /\ ~\E r \in Run : Pending(r)
  /\ Becomes("user", [Idle EXCEPT !.at = IF Exhausted(definition) THEN "restart" ELSE "insert",
                        !.plan = "start", !.row = definition,
                        !.next = NextAfter(clock, clock)])

Restart ==
  /\ At("user", "restart")
  /\ LET next == task["user"].next
     IN /\ definition' = [definition EXCEPT !.enabled = next # 0, !.iterationCount = 0,
                                            !.nextRunAt = next]
        /\ Stamp(Now)
        /\ history' = [history EXCEPT !.restarts = @ + 1,
                         !.late = IF next # 0 /\ ~definition.archived THEN 0 ELSE @]
  /\ Becomes("user", [task["user"] EXCEPT !.at = "insert", !.now = Now])
  /\ UNCHANGED <<run, world, check, queued, outside>>

Cancel ==
  /\ Request("cancel")
  /\ \E r \in ActiveRuns :
       Becomes("user", [Idle EXCEPT !.at = "mark", !.plan = "cancel", !.run = r])

Delete ==
  /\ Request("delete")
  /\ ~definition.archived
  /\ Becomes("user", [Idle EXCEPT !.at = "delete", !.back = "delete", !.left = ActiveRuns])

DeleteNext ==
  /\ At("user", "delete")
  /\ LET left == task["user"].left
     IN Becomes("user", IF left = {} THEN [Idle EXCEPT !.at = "archive"]
          ELSE [task["user"] EXCEPT !.at = "mark", !.plan = "cancel", !.run = First(left),
                                    !.left = @ \ {First(left)}])
  /\ UNCHANGED <<store, world, checks, queued, outside, history>>

Archive ==
  /\ At("user", "archive")
  /\ Write([definition EXCEPT !.archived = TRUE, !.enabled = FALSE], Now)
  /\ Return("user")
  /\ UNCHANGED <<run, world, check, queued, outside>>

(* update reads the row, validates, and saves the whole of it but for the count
   of iterations, whatever was written to it meanwhile. *)
Update(kind) ==
  /\ Request(kind)
  /\ ~definition.archived
  /\ Becomes("user", [Idle EXCEPT !.at = "save", !.row = definition, !.plan = kind,
                        !.next = IF definition.nextRunAt = 0 THEN NextFrom(clock)
                                 ELSE definition.nextRunAt])

Save ==
  /\ At("user", "save")
  /\ LET row == task["user"].row
         kind == task["user"].plan
         saved == [row EXCEPT !.enabled = CASE kind = "enable" -> TRUE
                                            [] kind = "disable" -> FALSE
                                            [] OTHER -> @,
                              !.nextRunAt = task["user"].next,
                              !.iterationCount = definition.iterationCount,
                              !.version = IF kind = "policy" THEN @ + 1 ELSE @]
     IN /\ definition' = saved
        /\ Stamp(Now)
        /\ history' = [history EXCEPT
             !.late = IF Stopped(saved) THEN @ ELSE 0,
             !.stale = @ \/ definition # [row EXCEPT !.iterationCount = definition.iterationCount]]
  /\ Return("user")
  /\ UNCHANGED <<run, world, check, queued, outside>>

(* markRunRead reads the result and writes it back with another mark. *)
Read ==
  /\ Request("read")
  /\ \E r \in Run :
       /\ run[r].status \in Terminal
       /\ Becomes("user", [Idle EXCEPT !.at = "read", !.run = r,
                             !.plan = IF run[r].evaluated THEN "evaluated" ELSE "none"])

WriteRead ==
  /\ At("user", "read")
  /\ run' = [run EXCEPT ![task["user"].run].evaluated = task["user"].plan = "evaluated"]
  /\ Return("user")
  /\ UNCHANGED <<definition, world, checks, queued, outside, history>>

-----------------------------------------------------------------------------
(* Stop checks: the workers of makeAutomationCompletionQueue *)

UnderWay == {r \in Run : check[r] \in {"evaluating", "stop", "record", "done"}}
CheckAt(r, step) == up /\ check[r] = step
CheckGoes(r, step) == check' = [check EXCEPT ![r] = step]

TakeCheck(r) ==
  /\ CheckAt(r, "queued") /\ Cardinality(UnderWay) < 2
  /\ CheckGoes(r, "evaluating")
  /\ UNCHANGED <<store, world, task, queued, asked, updatedAt, outside, history>>

(* The model answers, or times out, or fails; then the row is read again, and
   has to be the one the check was queued for, with the same policy. *)
StillCurrent(r) == /\ Unchanged(r) /\ ~Stopped(definition)
                   /\ run[r].version = definition.version

Evaluate(r) ==
  /\ CheckAt(r, "evaluating")
  /\ \/ StillCurrent(r) /\ CheckGoes(r, "stop") /\ UNCHANGED asked
     \/ CheckGoes(r, "record") /\ asked' = [asked EXCEPT ![r] = NotAsked]
  /\ UNCHANGED <<store, world, task, queued, updatedAt, outside, history>>

(* disableDefinitionIfUnchanged, which compares updated_at again, and only that. *)
MayStop_Always(r) == TRUE                                               \* mutant
MayStop(r) == Unchanged(r) /\ ~Stopped(definition)

StopLoop(r) ==
  /\ CheckAt(r, "stop")
  /\ CheckGoes(r, "record")
  /\ asked' = [asked EXCEPT ![r] = NotAsked]
  /\ IF MayStop(r)
     THEN ~Time \subseteq Held /\ definition' = Disabled(definition) /\ updatedAt' = Now
     ELSE UNCHANGED <<definition, updatedAt>>
  /\ UNCHANGED <<run, world, task, queued, outside, history>>

(* recordCompletionEvaluation *)
Record(r) ==
  /\ CheckAt(r, "record")
  /\ CheckGoes(r, "done")
  /\ \/ run' = [run EXCEPT ![r].evaluated = TRUE] /\ UNCHANGED budget
     \/ Spend /\ UNCHANGED run
  /\ UNCHANGED <<definition, world, task, queued, asked, updatedAt, settings, lease, clock, up,
                 history>>

(* The run leaves queuedRunIds whatever came of it, and the worker looks for
   checks that found no place. *)
EndCheck(r) ==
  /\ CheckAt(r, "done")
  /\ LET found == {s \in Run : Pending(s) /\ (check[s] = "none" \/ s = r)}
     IN /\ check' = [s \in Run |-> IF s \in found THEN "queued"
                                   ELSE IF s = r THEN "none" ELSE check[s]]
        /\ Ask(found)
  /\ UNCHANGED <<store, world, task, queued, updatedAt, outside, history>>

-----------------------------------------------------------------------------
(* The reactor *)

Take(t) ==
  /\ At("reactor", "idle")
  /\ t \in queued
  /\ Becomes("reactor", [Idle EXCEPT !.at = "look", !.back = "done", !.run = t, !.left = {t}])
  /\ UNCHANGED <<store, world, checks, queued, outside, history>>

(* The thread leaves queuedThreadIds only now: events that came while it was
   being reconciled were dropped. *)
Dequeue ==
  /\ At("reactor", "done")
  /\ queued' = queued \ task["reactor"].left
  /\ Becomes("reactor", Idle)
  /\ UNCHANGED <<store, world, checks, outside, history>>

-----------------------------------------------------------------------------
(* Turns, in the hands of the provider and of the user *)

(* latestTurn has the row with the youngest requested_at, which need not be the
   one that began last: a message has the time of the user's clock, that of a
   run the start of the pass it was found due in. *)
Latest(u, t) == {u, latest[t]} \ {0}

(* A session-set with a turn that is new: its row takes the message of the
   pending row, whosever it is, and the pending row goes. *)
Begins(u, t) ==
  /\ ~Busy(t)
  /\ turn' = [turn EXCEPT ![u] = "running"]
  /\ carries' = [carries EXCEPT ![u] = requested[t]]
  /\ requested' = [requested EXCEPT ![t] = 0]
  /\ \E l \in Latest(u, t) : latest' = [latest EXCEPT ![t] = l]
  /\ Publish(t)

StartTurn(u) ==
  /\ up /\ turn[u] \in {"pending", "promoted"}
  /\ Begins(u, Home(u))
  /\ UNCHANGED <<store, guest, crossed, created, worktree, checks, task, outside, history>>

(* A request that comes to the provider when a turn runs is queued there, and
   what is queued is requested again when the thread is free. *)
Requeue(u) ==
  /\ up /\ turn[u] \in {"pending", "promoted"} /\ Busy(Home(u))
  /\ turn' = [turn EXCEPT ![u] = "queued"]
  /\ UNCHANGED <<store, rows, created, worktree, checks, task, queued, outside, history>>

Promote(u) ==
  /\ up /\ turn[u] = "queued" /\ ~Busy(Home(u))
  /\ Requested(u, Home(u), "promoted")
  /\ UNCHANGED <<store, carries, latest, guest, created, worktree, checks, task, queued, outside,
                 history>>

(* A turn of the user, in the thread a heartbeat continues or in that of a run. *)
UserMay(t) ==
  /\ up /\ budget.turns > 0 /\ ~Recovering
  /\ turn[UserTurn] = "none"
  /\ IF Heartbeat THEN t = 0 ELSE t \in created
  /\ budget' = [budget EXCEPT !.turns = @ - 1]
  /\ guest' = t

UserSends(t) ==
  /\ UserMay(t)
  /\ Given(UserTurn, t)
  /\ UNCHANGED <<store, created, worktree, checks, task, queued, settings, lease, clock, up, history>>

(* The provider goes on by itself, for a goal the user set. *)
GoalBegins(t) ==
  /\ UserMay(t)
  /\ Begins(UserTurn, t)
  /\ crossed' = (crossed \/ requested[t] # 0)
  /\ UNCHANGED <<store, created, worktree, checks, task, settings, lease, clock, up, history>>

(* The request itself is no event the reactor listens to, the answer is. *)
AskUser(u) ==
  /\ up /\ turn[u] = "running" /\ budget.asks > 0
  /\ budget' = [budget EXCEPT !.asks = @ - 1]
  /\ turn' = [turn EXCEPT ![u] = "asking"]
  /\ UNCHANGED <<store, rows, created, worktree, checks, task, queued, settings, lease, clock,
                 up, history>>

Answer(u) ==
  /\ up /\ turn[u] = "asking"
  /\ turn' = [turn EXCEPT ![u] = "running"]
  /\ Publish(Home(u))
  /\ UNCHANGED <<store, rows, created, worktree, checks, task, outside, history>>

EndTurn(u) ==
  /\ up /\ turn[u] \in {"running", "asking"}
  /\ \E state \in Ended : turn' = [turn EXCEPT ![u] = state]
  /\ Publish(Home(u))
  /\ UNCHANGED <<store, rows, created, worktree, checks, task, outside, history>>

-----------------------------------------------------------------------------
(* Time, crash and start *)

Tick ==
  /\ budget.ticks > 0
  /\ budget' = [budget EXCEPT !.ticks = @ - 1]
  /\ clock' = clock + 1
  /\ UNCHANGED <<settings, store, world, checks, task, queued, lease, up, history>>

LeaseExpires ==
  /\ lease /\ lease' = FALSE
  /\ UNCHANGED <<settings, store, world, checks, task, queued, clock, up, budget, history>>

Crash ==
  /\ up /\ budget.crashes > 0
  /\ budget' = [budget EXCEPT !.crashes = @ - 1]
  /\ up' = FALSE /\ lease' = TRUE
  /\ task' = [f \in Fiber |-> Idle]
  /\ queued' = {} /\ asked' = [r \in Run |-> NotAsked]
  /\ check' = [r \in Run |-> "none"]
  /\ UNCHANGED <<settings, store, world, updatedAt, clock, history>>

(* The turns that died with the server are interrupted, those that were only
   requested are lost, but for the pending row; then the reactor recovers the
   runs before it listens and before the scheduler starts. *)
Restarted ==
  /\ ~up /\ up' = TRUE
  /\ turn' = [u \in Turn |-> CASE turn[u] \in {"running", "asking"} -> "interrupted"
                               [] turn[u] \in {"pending", "promoted", "queued"} -> "lost"
                               [] OTHER -> turn[u]]
  /\ EnqueuePending
  /\ Becomes("scheduler", [Idle EXCEPT !.at = "recover", !.back = "recover", !.left = ActiveRuns])
  /\ UNCHANGED <<settings, store, rows, created, worktree, updatedAt, queued, clock, lease, budget,
                 history>>

Hopeless(r) == ~run[r].threaded \/ ~ThreadExists(ThreadOf(r)) \/ ~Found(r)

RecoverNext ==
  /\ At("scheduler", "recover") /\ task["scheduler"].left # {}
  /\ LET r == First(task["scheduler"].left)
         rest == [task["scheduler"] EXCEPT !.left = @ \ {r}, !.run = r]
     IN Becomes("scheduler", IF Hopeless(r) THEN [rest EXCEPT !.at = "mark", !.plan = "recover"]
                             ELSE [rest EXCEPT !.at = "look"])
  /\ UNCHANGED <<store, world, checks, queued, outside, history>>

EndRecovery ==
  /\ At("scheduler", "recover") /\ task["scheduler"].left = {}
  /\ EnqueuePending
  /\ Becomes("scheduler", Idle)
  /\ UNCHANGED <<store, world, updatedAt, queued, outside, history>>

-----------------------------------------------------------------------------
Init ==
  /\ \E s \in Scenario : settings = s.settings /\ budget = s.budget
  /\ definition = [NoRow EXCEPT !.enabled = TRUE, !.nextRunAt = 1]
  /\ run = [r \in Run |-> NoRun]
  /\ turn = [u \in Turn |-> "none"] /\ carries = [u \in Turn |-> 0]
  /\ latest = [t \in Thread |-> 0] /\ requested = [t \in Thread |-> 0]
  /\ guest = 0 /\ crossed = FALSE
  /\ created = {} /\ worktree = [r \in Run |-> "none"]
  /\ task = [f \in Fiber |-> Idle]
  /\ queued = {} /\ check = [r \in Run |-> "none"]
  /\ asked = [r \in Run |-> NotAsked] /\ updatedAt = 1
  /\ lease = FALSE /\ clock = 0 /\ up = TRUE
  /\ history = [restarts |-> 0, late |-> 0, stale |-> FALSE, failed |-> FALSE]

Settles(f) == Mark(f) \/ Result(f) \/ Stop(f) \/ Disable(f)

Dispatches(f) ==
  \/ Insert(f) \/ NoneLeft(f) \/ Count(f) \/ Start(f)
  \/ CheckWorktree(f) \/ CreateWorktree(f) \/ CheckCreate(f) \/ CreateThread(f)
  \/ CheckSend(f) \/ Send(f) \/ CleanUp(f)

Scheduler ==
  \/ Look("scheduler") \/ Settles("scheduler") \/ Interrupt("scheduler") \/ Dispatches("scheduler")
  \/ BeginPass \/ Each \/ EndReconcile \/ Due \/ AskThread \/ Advance
  \/ RecoverNext \/ EndRecovery

Reactor == Look("reactor") \/ Settles("reactor") \/ Dequeue \/ \E t \in Thread : Take(t)

GoesOn == Settles("user") \/ Interrupt("user") \/ Dispatches("user") \/ Restart \/ DeleteNext \/ Archive
            \/ Save \/ WriteRead

Asks == RunNow \/ Cancel \/ Delete \/ Read \/ \E k \in {"enable", "disable", "policy"} : Update(k)

Checks(r) == TakeCheck(r) \/ Evaluate(r) \/ StopLoop(r) \/ Record(r) \/ EndCheck(r)

Turns == \/ \E t \in Thread : UserSends(t) \/ GoalBegins(t)
         \/ \E u \in Turn : \/ StartTurn(u) \/ Requeue(u) \/ Promote(u)
                             \/ AskUser(u) \/ Answer(u) \/ EndTurn(u)

Next ==
  \/ Scheduler \/ Reactor \/ GoesOn \/ Asks \/ Turns
  \/ \E r \in Run : Checks(r)
  \/ \E f \in Fiber : DispatchFails(f) \/ Fails(f)
  \/ Tick \/ LeaseExpires \/ Crash \/ Restarted

Spec == Init /\ [][Next]_vars

(* The fibers of the process go on, and a server that died is started again.
   Neither a turn, nor a user, nor the clock is obliged to anything. *)
FairSpec ==
  /\ Spec
  /\ WF_vars(Scheduler) /\ WF_vars(Reactor) /\ WF_vars(GoesOn)
  /\ \A r \in Run : WF_vars(Checks(r))
  /\ WF_vars(Restarted)

-----------------------------------------------------------------------------
(* Properties *)

Steps == {"idle", "each", "look", "mark", "result", "stop", "disable", "interrupt", "due", "ask",
          "insert", "advance", "count", "start", "check-worktree", "worktree", "check-create",
          "create", "check-send", "send", "clean-up", "restart", "delete", "archive", "save",
          "read", "done", "recover"}
Plans == {"none", "nothing", "wait", "resume", "succeed", "fail", "interrupt", "overrun", "give-up",
          "recover", "cancel", "skip", "start", "enable", "disable", "policy", "evaluated"}
            \cup Terminal \cup Active \cup {"skipped"}
Row == [enabled : BOOLEAN, archived : BOOLEAN, nextRunAt : Nat, iterationCount : Nat, version : Nat]

(* Rows, tasks and turns have their form, a run that was never inserted has no
   turn, no thread and no worktree, and one that was skipped took no thread. *)
AutomationTypeOK ==
  /\ settings \in Settings /\ budget \in Budget
  /\ definition \in Row
  /\ run \in [Run -> [status : Active \cup Terminal \cup {"none", "skipped"},
                      trigger : {"scheduled", "manual"}, scheduledFor : Nat, planned : Nat,
                      threaded : BOOLEAN, startedAt : Nat, evaluated : BOOLEAN, version : Nat,
                      turn : {0} \cup Turn]]
  /\ turn \in [Turn -> {"none", "pending", "promoted", "queued", "running", "asking", "lost"}
                          \cup Ended]
  /\ latest \in [Thread -> {0} \cup Turn] /\ requested \in [Thread -> {0} \cup Turn]
  /\ carries \in [Turn -> {0} \cup Turn] /\ guest \in Thread /\ crossed \in BOOLEAN
  /\ worktree \in [Run -> {"none", "loose", "left", "attached"}]
  /\ task \in [Fiber -> [at : Steps, back : {"idle", "each", "delete", "done", "recover"},
                         run : Thread, plan : Plans, left : SUBSET Thread, row : Row,
                         slot : Nat, next : Nat, turn : {0} \cup Turn, now : {0} \cup Time]]
  /\ queued \subseteq Thread /\ created \subseteq Run
  /\ updatedAt \in Time /\ asked \in [Run -> [time : {0} \cup Time, again : BOOLEAN]]
  /\ check \in [Run -> {"none", "queued", "evaluating", "stop", "record", "done"}]
  /\ lease \in BOOLEAN /\ up \in BOOLEAN /\ clock \in Nat
  /\ history \in [restarts : Nat, late : Nat, stale : BOOLEAN, failed : BOOLEAN]
  /\ \A r \in Run : run[r].status = "none" =>
       turn[r] = "none" /\ r \notin created /\ worktree[r] = "none"
  /\ \A r \in Run : run[r].status = "skipped" => ~run[r].threaded

(* A thread carries one active run at a time, although the scheduler and the
   user look, decide and insert independently. *)
OneActivePerThread ==
  \A r, s \in Run :
    r # s /\ IsActive(r) /\ IsActive(s) /\ run[r].threaded /\ run[s].threaded
      => ThreadOf(r) # ThreadOf(s)

(* One planned time reaches the provider once, whatever crashes, fails or is
   retried; also when the save of an old row takes the schedule back to it,
   unless the run was late and planned anew for the time it was found. *)
OccurrenceRunsOnce ==
  \/ history.stale /\ settings.misfirePolicy = "run-latest"
  \/ \A r, s \in Run :
       r # s /\ {turn[r], turn[s]} \cap {"none"} = {}
             /\ run[r].trigger = "scheduled" /\ run[s].trigger = "scheduled"
         => run[r].planned # run[s].planned

(* The schedule gives the provider no more turns than maxIterations, for each
   time the loop was started: the limit is looked up, the run inserted, the
   schedule advanced and the run counted in writes of their own. *)
BoundedLoop ==
  settings.maxIterations # 0 =>
    Cardinality({r \in Run : run[r].trigger = "scheduled" /\ turn[r] # "none"})
      <= settings.maxIterations * (1 + history.restarts)

(* In a thread it shares with the user a run succeeds, or waits for the user, by
   its own turn, although it is only the message in the row of a turn that tells
   which turn is whose; by another, if a request was replaced or taken before
   its turn began. *)
StatusFollowsOwnTurn ==
  Heartbeat => \A r \in Run :
    /\ run[r].status = "succeeded" =>
         \E u \in Turn : turn[u] = "completed" /\ carries[u] = r /\ (u = r \/ crossed)
    /\ run[r].status = "waiting-for-approval" =>
         \E u \in Turn : carries[u] = r /\ (u = r \/ crossed)

(* Once stopped, by a stop check, an error, the limit or the user, an automation
   starts at most the one run the scheduler had already decided on. *)
AtMostOneAfterStop == history.late <= 1

(* A worktree that was made for a run belongs to its thread or is taken away,
   unless the server died in between or the removal failed. *)
WorktreeHasOwner ==
  \A r \in Run : worktree[r] = "loose" =>
    \/ \E s \in Scenario : s.settings = settings /\ s.budget.crashes > budget.crashes
    \/ \E f \in Fiber : task[f].run = r /\ task[f].at \in {"check-create", "create", "clean-up"}

(* What a run came to is never replaced: the reactor, the scheduler, a recovery
   and a cancelling user may all be at it with what each of them read. *)
TerminalIsFinal ==
  [][\A r \in Run : run[r].status \in Terminal \cup {"skipped"}
                      => run'[r].status = run[r].status]_vars

(* A stop check asked under one policy never stops the loop under another,
   unless a later write gave the row back the time the check was asked under. *)
OldPolicyNeverStops ==
  [][\A r \in Run : StopLoop(r) /\ definition' # definition
                      => run[r].version = definition.version \/ asked[r].again]_vars

(* The turn a run is judged by is over, or its own is and no request was lost;
   and it is not taken for the one that waits for the user. *)
Over(r) ==
  /\ IsActive(r) /\ run[r].threaded /\ ThreadExists(ThreadOf(r))
  /\ ~(Asking(ThreadOf(r)) /\ \E u \in Judged(r) : OwnsInput(u))
  /\ \/ \A u \in Judged(r) : u # 0 /\ turn[u] \in Ended
     \/ Heartbeat /\ turn[r] \in Ended /\ ~crossed
Abandoned(r) == /\ IsActive(r) /\ turn[r] = "none"
                /\ \A f \in Fiber : task[f].run # r

(* A run whose turn is over ends, although the reactor drops events and the
   server may die; and unless a write failed, so does one that nobody is going
   to dispatch any more. *)
EveryRunSettles ==
  []<>(\A r \in Run : ~Over(r) /\ (Abandoned(r) => history.failed))

(* A stop check that is due is made or falls away; until then the automation
   does not run. *)
EveryCheckEnds == []<>(\A r \in Run : ~Pending(r))
=============================================================================
