-------------------------- MODULE AutomationLoopProofs --------------------------
(***************************************************************************)
(* The loop of an automation, for any automation, number of runs, crashes, *)
(* faults and requests.  After a stop the scheduler starts at most what it *)
(* had decided on; a dispatch forgets no worktree; what the schedule       *)
(* starts is bounded, and each occurrence is started once, although the    *)
(* scheduler looks up the limit, inserts the run, advances the schedule    *)
(* and counts the run in writes of their own and others write in between.  *)
(***************************************************************************)
EXTENDS AutomationRunsProofs, FiniteSetTheorems

(* What the fibers do at every step of f, and of nobody: the others stay. *)
Moves(f) == \A g \in Fiber \ {f} : task'[g] = task[g]

(* However a fiber goes on, it is the only one to. *)
LEMMA FiberMoves ==
  ASSUME task \in [Fiber -> TaskRow], NEW f \in Fiber,
         (\E k : Becomes(f, k)) \/ (\E s : Go(f, s)) \/ Return(f)
  PROVE  Moves(f)
BY DEF Becomes, Go, Return, Moves

LEMMA Fibers == /\ "scheduler" \in Fiber /\ "reactor" \in Fiber /\ "user" \in Fiber
                /\ Fiber = {"scheduler", "reactor", "user"}
BY DEF Fiber

-----------------------------------------------------------------------------
(* After a stop *)

(* The scheduler has found the automation due and has not inserted the run. *)
Deciding == {"ask", "insert"}

LateInv ==
  /\ history.late <= 1
  /\ ~Stopped(definition) => history.late = 0
  /\ task["scheduler"].at \in Deciding => history.late = 0

(* Where a return leads to. *)
LEMMA ReturnsElsewhere ==
  ASSUME task \in [Fiber -> TaskRow], NEW f \in Fiber, Return(f)
  PROVE  task'[f].at \notin Deciding
<1>1. /\ task'[f] = [Idle EXCEPT !.at = task[f].back, !.back = task[f].back, !.left = task[f].left]
      /\ task[f] \in TaskRow
  BY ReturnPuts DEF Put
<1>2. task'[f].at = task[f].back
  BY <1>1 DEF Idle
<1>3. task[f].back \in {"idle", "each", "delete", "done", "recover"}
  BY <1>1 DEF TaskRow
<1> QED
  BY <1>2, <1>3 DEF Deciding

LEMMA BecomesIt ==
  ASSUME task \in [Fiber -> TaskRow], NEW f \in Fiber, NEW k, Becomes(f, k)
  PROVE  task'[f] = k
BY DEF Becomes

LEMMA GoesTo ==
  ASSUME task \in [Fiber -> TaskRow], NEW f \in Fiber, NEW s, Go(f, s)
  PROVE  task'[f].at = s
BY DEF Go, TaskRow

(* No step of a dispatch leads back to a decision. *)
LEMMA DispatchesElsewhere ==
  ASSUME task \in [Fiber -> TaskRow], NEW f \in Fiber, Dispatches(f)
  PROVE  task'[f].at \notin Deciding
<1>1. CASE Insert(f)
  <2>1. \/ \E a \in {"mark", "advance", "count"} : \E r : Becomes(f, [task[f] EXCEPT !.run = r, !.at = a])
        \/ \E r : Becomes(f, [task[f] EXCEPT !.at = "advance", !.run = r])
        \/ Becomes(f, Idle)
    BY <1>1 DEF Insert
  <2>2. task'[f].at \in {"mark", "advance", "count"} \/ task'[f] = Idle
    BY <2>1, BecomesIt DEF TaskRow
  <2> QED
    BY <2>2 DEF Idle, Deciding
<1>2. CASE NoneLeft(f) \/ Send(f)
  BY <1>2, ReturnsElsewhere DEF NoneLeft, Send
<1>3. CASE Count(f)
  <2>1. task'[f] = [Idle EXCEPT !.at = "start", !.run = task[f].run]
    BY <1>3, BecomesIt DEF Count
  <2> QED
    BY <2>1 DEF Idle, Deciding
<1>4. ASSUME GiveUp(f)
      PROVE  task'[f].at \notin Deciding
  <2>1. task'[f] = [task[f] EXCEPT !.at = "mark", !.plan = "give-up"]
    BY <1>4, BecomesIt DEF GiveUp
  <2> QED
    BY <2>1 DEF TaskRow, Deciding
<1>5. CASE Start(f) \/ CreateWorktree(f) \/ CreateThread(f) \/ CleanUp(f)
  BY <1>4, <1>5, GoesTo DEF Start, CreateWorktree, CreateThread, CleanUp, Deciding
<1>6. CASE CheckWorktree(f) \/ CheckCreate(f) \/ CheckSend(f)
  BY <1>4, <1>6, GoesTo DEF CheckWorktree, CheckCreate, CheckSend, Checked, CleanUpFirst, Deciding
<1> QED
  BY <1>1, <1>2, <1>3, <1>5, <1>6 DEF Dispatches

(* The scheduler decides only on a row that it has just found due, and runs it
   for the time it was planned for unless it is late and the latest is to run. *)
ForItsTime(k) == settings.misfirePolicy # "run-latest" => k.slot = k.row.nextRunAt
Decides ==
  \/ /\ task["scheduler"].at \in Deciding
     /\ task'["scheduler"].row = task["scheduler"].row
     /\ task'["scheduler"].slot = task["scheduler"].slot
  \/ ~Stopped(definition) /\ ForItsTime(task'["scheduler"])

LEMMA DecidesWhenDue ==
  ASSUME IInv, Next, task'["scheduler"].at \in Deciding
  PROVE  Decides
<1>1. task \in [Fiber -> TaskRow]
  BY DEF IInv, TasksInv
<1>2. CASE Scheduler
  <2>1. CASE Look("scheduler")
    <3>1. \/ Return("scheduler")
          \/ \E r, p, u : Becomes("scheduler", [task["scheduler"] EXCEPT !.at = "mark", !.run = r, !.plan = p,
                                                                           !.turn = u])
      BY <2>1 DEF Look
    <3> QED
      BY <3>1, <1>1, Fibers, ReturnsElsewhere DEF Becomes, Deciding, TaskRow
  <2>2. CASE Settles("scheduler")
    <3>1. \/ Return("scheduler")
          \/ \E a \in {"result", "advance", "interrupt", "disable"} : Go("scheduler", a)
          \/ \E p : Becomes("scheduler", [task["scheduler"] EXCEPT !.at = "stop", !.plan = p])
      BY <2>2 DEF Settles, Mark, Result, Stop, Disable
    <3> QED
      BY <3>1, <1>1, Fibers, ReturnsElsewhere, GoesTo DEF Becomes, Deciding, TaskRow
  <2>3. CASE Interrupt("scheduler")
    BY <2>3, <1>1, Fibers, ReturnsElsewhere, GoesTo DEF Interrupt, Deciding
  <2>4. CASE Dispatches("scheduler")
    BY <2>4, <1>1, Fibers, DispatchesElsewhere
  <2>5. CASE BeginPass \/ Each \/ EndReconcile
    <3>1. \/ \E l : Becomes("scheduler", [Idle EXCEPT !.at = "each", !.back = "each", !.left = l])
          \/ Becomes("scheduler", [Idle EXCEPT !.at = "due"])
          \/ Each
      BY <2>5 DEF BeginPass, EndReconcile
    <3>2. CASE Each
      BY <3>2, <1>1, Fibers DEF Each, Becomes, Deciding, TaskRow, At
    <3> QED
      BY <3>1, <3>2, <1>1, Fibers DEF Becomes, Deciding, Idle
  <2>6. CASE Due
    <3>1. ~Stopped(definition)
      BY <2>6, <1>1, Fibers DEF Due, Becomes, Deciding, TaskRow, Idle, IsDue
    <3>2. \/ \E n, a, p : Becomes("scheduler",
                [[Idle EXCEPT !.row = definition, !.slot = definition.nextRunAt, !.next = n]
                   EXCEPT !.at = a, !.plan = p])
          \/ Becomes("scheduler", Idle) \/ Becomes("scheduler", [Idle EXCEPT !.at = "disable"])
          \/ settings.misfirePolicy = "run-latest"
      BY <2>6 DEF Due
    <3>3. /\ Idle.at \notin Deciding /\ [Idle EXCEPT !.at = "disable"].at \notin Deciding
      BY DEF Idle, Deciding
    <3>4. ForItsTime(task'["scheduler"])
      <4>1. CASE settings.misfirePolicy = "run-latest"
        BY <4>1 DEF ForItsTime
      <4>2. ASSUME NEW n, NEW a, NEW p,
                   Becomes("scheduler",
                     [[Idle EXCEPT !.row = definition, !.slot = definition.nextRunAt, !.next = n]
                        EXCEPT !.at = a, !.plan = p])
            PROVE  ForItsTime(task'["scheduler"])
        <5>1. task'["scheduler"] = [[Idle EXCEPT !.row = definition, !.slot = definition.nextRunAt, !.next = n]
                                      EXCEPT !.at = a, !.plan = p]
          BY <1>1, <4>2, Fibers, BecomesIt
        <5>2. task'["scheduler"].slot = definition.nextRunAt /\ task'["scheduler"].row = definition
          BY <5>1 DEF Idle
        <5> QED
          BY <5>2 DEF ForItsTime
      <4>3. CASE Becomes("scheduler", Idle) \/ Becomes("scheduler", [Idle EXCEPT !.at = "disable"])
        BY <1>1, <3>3, <4>3, Fibers, BecomesIt
      <4> QED
        BY <3>2, <4>1, <4>2, <4>3
    <3> QED
      BY <3>1, <3>4 DEF Decides
  <2>7. CASE AskThread
    <3>1. Return("scheduler") \/ \E p : Becomes("scheduler", [task["scheduler"] EXCEPT !.at = "insert", !.plan = p])
      BY <2>7 DEF AskThread
    <3>2. task["scheduler"].at \in Deciding /\ task["scheduler"] \in TaskRow
      BY <1>1, <2>7, Fibers DEF AskThread, At, Deciding
    <3>3. ~Return("scheduler")
      BY <1>1, Fibers, ReturnsElsewhere
    <3> QED
      BY <1>1, <3>1, <3>2, <3>3, Fibers DEF Becomes, Decides, TaskRow
  <2>8. CASE Advance
    <3>1. Return("scheduler")
          \/ \E n : Becomes("scheduler", [task["scheduler"] EXCEPT !.at = "count", !.now = n])
      BY <2>8 DEF Advance, AfterAdvance
    <3> QED
      BY <1>1, <3>1, Fibers, ReturnsElsewhere DEF Becomes, Deciding, TaskRow
  <2>9. CASE RecoverNext \/ EndRecovery
    <3>1. CASE EndRecovery
      BY <3>1, <1>1, Fibers DEF EndRecovery, Becomes, Deciding, Idle
    <3>2. CASE RecoverNext
      BY <3>2, <1>1, Fibers DEF RecoverNext, Becomes, Deciding, TaskRow, At
    <3> QED
      BY <2>9, <3>1, <3>2
  <2> QED
    BY <1>2, <2>1, <2>2, <2>3, <2>4, <2>5, <2>6, <2>7, <2>8, <2>9 DEF Scheduler
<1>3. ASSUME NEW f \in Fiber, Moves(f), f # "scheduler"
      PROVE  Decides
  BY <1>3, Fibers DEF Moves, Decides
<1>4. CASE Reactor
  BY <1>1, <1>3, <1>4, Fibers, FiberMoves DEF Reactor, Look, Settles, Mark, Result, Stop, Disable,
     Dequeue, Take
<1>5. CASE GoesOn
  BY <1>1, <1>3, <1>5, Fibers, FiberMoves DEF GoesOn, Settles, Mark, Result, Stop, Disable, Interrupt,
     Dispatches, Insert, NoneLeft, Count, Start, CheckWorktree, CreateWorktree, CheckCreate,
     CreateThread, CheckSend, Send, CleanUp, Checked, CleanUpFirst, GiveUp, Restart, DeleteNext,
     Archive, Save, WriteRead
<1>6. CASE Asks
  BY <1>1, <1>3, <1>6, Fibers, FiberMoves DEF Asks, RunNow, Cancel, Delete, Read, Update
<1>7. CASE Turns \/ (\E r \in Run : Checks(r)) \/ Tick \/ LeaseExpires
  BY <1>7 DEF Turns, StartTurn, Requeue, Promote, UserSends, GoalBegins, UserMay, AskUser, Answer,
     EndTurn, Checks, TakeCheck, Evaluate,
     StopLoop, Record, EndCheck, Tick, LeaseExpires, Decides
<1>8. ASSUME NEW f \in Fiber, DispatchFails(f) \/ Fails(f)
      PROVE  Decides
  <2>1. CASE f = "scheduler"
    <3>1. Return(f) \/ GiveUp(f) \/ Go(f, "clean-up")
      BY <1>8 DEF DispatchFails, Fails, AfterFailedCreate, CleanUpFirst
    <3>2. ASSUME GiveUp(f)
          PROVE  task'[f].at = "mark"
      BY <1>1, <3>2 DEF GiveUp, Becomes, TaskRow
    <3> QED
      BY <1>1, <2>1, <3>1, <3>2, ReturnsElsewhere, GoesTo DEF Deciding
  <2>2. CASE f # "scheduler"
    BY <1>1, <1>3, <1>8, <2>2, FiberMoves DEF DispatchFails, Fails, AfterFailedCreate, CleanUpFirst, GiveUp
  <2> QED
    BY <2>1, <2>2
<1>9. CASE Crash \/ Restarted
  <2>1. \/ task' = [f \in Fiber |-> Idle]
        \/ \E l : Becomes("scheduler", [Idle EXCEPT !.at = "recover", !.back = "recover", !.left = l])
    BY <1>9 DEF Crash, Restarted
  <2>2. CASE task' = [f \in Fiber |-> Idle]
    BY <2>2, Fibers DEF Deciding, Idle
  <2>3. CASE \E l : Becomes("scheduler", [Idle EXCEPT !.at = "recover", !.back = "recover", !.left = l])
    <3>1. PICK l : Becomes("scheduler", [Idle EXCEPT !.at = "recover", !.back = "recover", !.left = l])
      BY <2>3
    <3>2. task'["scheduler"] = [Idle EXCEPT !.at = "recover", !.back = "recover", !.left = l]
      BY <3>1, <1>1, Fibers, BecomesIt
    <3>3. task'["scheduler"].at = "recover"
      BY <3>2 DEF Idle
    <3> QED
      BY <3>3 DEF Deciding
  <2> QED
    BY <2>1, <2>2, <2>3
<1> QED
  BY <1>2, <1>4, <1>5, <1>6, <1>7, <1>8, <1>9 DEF Next

(* A write of the row forgets what was started after a stop when it is started
   again; a run that is inserted after a stop is the one decided on. *)
Rewrites ==
  \/ definition' = definition /\ history'.late = history.late
  \/ history'.late = IF Stopped(definition') THEN history.late ELSE 0
InsertsLate ==
  /\ definition' = definition /\ history'.late = history.late + 1
  /\ Stopped(definition) /\ task["scheduler"].at = "insert"
  /\ task'["scheduler"].at \notin Deciding

LEMMA WriteRewrites ==
  ASSUME IInv, NEW d, NEW now, Write(d, now)
  PROVE  Rewrites
<1>1. history' = [history EXCEPT !.late = IF Stopped(d) THEN @ ELSE 0] /\ definition' = d
  BY DEF Write
<1>2. "late" \in DOMAIN history
  BY DEF IInv, RestTyped
<1> QED
  BY <1>1, <1>2 DEF Rewrites

LEMMA InsertRewrites ==
  ASSUME IInv, NEW f \in Fiber, Insert(f)
  PROVE  Rewrites \/ InsertsLate
<1>1. definition' = definition /\ task[f].at = "insert" /\ task \in [Fiber -> TaskRow]
  BY DEF Insert, At, IInv, TasksInv
<1>2. CASE history' = history
  BY <1>1, <1>2 DEF Rewrites
<1>3. CASE history' # history
  <2>1. f = "scheduler" /\ Stopped(definition) /\ history' = [history EXCEPT !.late = @ + 1]
    BY <1>3 DEF Insert
  <2>2. history'.late = history.late + 1
    BY <2>1 DEF IInv, RestTyped
  <2>3. \E a : a \notin Deciding /\ Becomes(f, [task[f] EXCEPT !.run = First(Unused), !.at = a])
    BY <1>1, <1>3 DEF Insert, Deciding
  <2>4. task'[f].at \notin Deciding
    BY <1>1, <2>3, BecomesIt DEF TaskRow
  <2> QED
    BY <1>1, <2>1, <2>2, <2>4 DEF InsertsLate
<1> QED
  BY <1>2, <1>3

(* Every step is a rewrite, or the insertion of a late run. *)
LEMMA NextRewrites ==
  ASSUME IInv, [Next]_vars
  PROVE  Rewrites \/ InsertsLate
<1>1. ASSUME definition' = definition, history' = history
      PROVE  Rewrites
  BY <1>1 DEF Rewrites
<1>2. ASSUME NEW f \in Fiber, Settles(f)
      PROVE  Rewrites
  <2>1. CASE Mark(f) \/ Result(f) \/ Stop(f)
    BY <1>1, <2>1 DEF Mark, Result, Stop, store
  <2>2. CASE Disable(f)
    BY <2>2, WriteRewrites DEF Disable
  <2> QED
    BY <1>2, <2>1, <2>2 DEF Settles
<1>3. ASSUME NEW f \in Fiber, Look(f) \/ Interrupt(f)
      PROVE  Rewrites
  BY <1>1, <1>3 DEF Look, Interrupt, store
<1>4. ASSUME NEW f \in Fiber, Dispatches(f)
      PROVE  Rewrites \/ InsertsLate
  <2>1. CASE Insert(f)
    BY <2>1, InsertRewrites
  <2>2. CASE Count(f)
    BY <2>2, WriteRewrites DEF Count
  <2>3. CASE \/ NoneLeft(f) \/ Start(f) \/ CheckWorktree(f) \/ CreateWorktree(f) \/ CheckCreate(f)
             \/ CreateThread(f) \/ CheckSend(f) \/ Send(f) \/ CleanUp(f)
    BY <1>1, <2>3 DEF NoneLeft, Start, CheckWorktree, CreateWorktree, CheckCreate, CreateThread,
       CheckSend, Send, CleanUp, Checked, store
  <2> QED
    BY <1>4, <2>1, <2>2, <2>3 DEF Dispatches
<1>5. CASE Scheduler
  <2>1. CASE BeginPass \/ Each \/ EndReconcile \/ Due \/ AskThread \/ RecoverNext \/ EndRecovery
    BY <1>1, <2>1 DEF BeginPass, Each, EndReconcile, Due, AskThread, RecoverNext, EndRecovery, store
  <2>2. CASE Advance
    BY <2>2, WriteRewrites DEF Advance
  <2> QED
    BY <1>2, <1>3, <1>4, <1>5, <2>1, <2>2, Fibers DEF Scheduler
<1>6. CASE Reactor
  BY <1>1, <1>2, <1>3, <1>6, Fibers DEF Reactor, Dequeue, Take, store
<1>7. CASE GoesOn
  <2>1. CASE DeleteNext \/ WriteRead
    BY <1>1, <2>1 DEF DeleteNext, WriteRead, store
  <2>2. CASE Archive
    BY <2>2, WriteRewrites DEF Archive
  <2>3. CASE Save
    BY <2>3 DEF Save, Rewrites, IInv, RestTyped
  <2>4. CASE Restart
    <3> DEFINE next == task["user"].next
    <3>1. /\ definition' = [definition EXCEPT !.enabled = next # 0, !.iterationCount = 0,
                                              !.nextRunAt = next]
          /\ history' = [history EXCEPT !.restarts = @ + 1,
                           !.late = IF next # 0 /\ ~definition.archived THEN 0 ELSE @]
      BY <2>4 DEF Restart
    <3>2. definition \in Row /\ history \in [restarts : Nat, late : Nat, stale : BOOLEAN, failed : BOOLEAN]
      BY DEF IInv, RestTyped, StateInv, RunsTyped
    <3> HIDE DEF next
    <3>3. history'.late = IF next # 0 /\ ~definition.archived THEN 0 ELSE history.late
      BY <3>1, <3>2
    <3>4. definition'.enabled = (next # 0) /\ definition'.archived = definition.archived
      BY <3>1, <3>2 DEF Row
    <3> QED
      BY <3>3, <3>4 DEF Rewrites, Stopped
  <2> QED
    BY <1>2, <1>3, <1>4, <1>7, <2>1, <2>2, <2>3, <2>4, Fibers DEF GoesOn
<1>8. CASE Asks
  BY <1>1, <1>8 DEF Asks, RunNow, Cancel, Delete, Read, Update, Request, store
<1>9. CASE Turns \/ Tick \/ LeaseExpires \/ Crash \/ Restarted \/ UNCHANGED vars
  BY <1>1, <1>9 DEF Turns, StartTurn, Requeue, Promote, UserSends, GoalBegins, UserMay, AskUser,
     Answer, EndTurn, Tick, LeaseExpires, Crash,
     Restarted, store, vars
<1>10. ASSUME NEW r \in Run, Checks(r)
       PROVE  Rewrites
  <2>1. CASE StopLoop(r)
    <3>1. /\ definition' = definition \/ definition' = Disabled(definition)
          /\ history' = history
      BY <2>1 DEF StopLoop
    <3>2. Stopped(Disabled(definition))
      BY DEF IInv, StateInv, RunsTyped, Row, Disabled, Stopped
    <3> QED
      BY <3>1, <3>2 DEF Rewrites
  <2>2. CASE TakeCheck(r) \/ Evaluate(r) \/ Record(r) \/ EndCheck(r)
    BY <1>1, <2>2 DEF TakeCheck, Evaluate, Record, EndCheck, store
  <2> QED
    BY <1>10, <2>1, <2>2 DEF Checks
<1>11. ASSUME NEW f \in Fiber, DispatchFails(f) \/ Fails(f)
       PROVE  Rewrites
  <2>1. CASE DispatchFails(f)
    BY <1>1, <2>1 DEF DispatchFails, store
  <2>2. CASE Fails(f)
    BY <2>2 DEF Fails, Rewrites, store, IInv, RestTyped
  <2> QED
    BY <1>11, <2>1, <2>2
<1> QED
  BY <1>5, <1>6, <1>7, <1>8, <1>9, <1>10, <1>11 DEF Next

LEMMA LateStep == IInv /\ LateInv /\ [Next]_vars => LateInv'
<1> SUFFICES ASSUME IInv, LateInv, [Next]_vars PROVE LateInv'
  OBVIOUS
<1>1. history.late \in Nat
  BY DEF IInv, RestTyped
<1>2. task'["scheduler"].at \in Deciding =>
        task["scheduler"].at \in Deciding \/ ~Stopped(definition)
  BY DecidesWhenDue DEF vars, Decides
<1>3. CASE Rewrites
  <2>1. history'.late = history.late \/ history'.late = 0
    BY <1>3 DEF Rewrites
  <2>2. ~Stopped(definition') => history'.late = 0
    BY <1>3 DEF Rewrites, LateInv
  <2>3. task'["scheduler"].at \in Deciding => history'.late = 0
    BY <1>2, <2>1 DEF LateInv
  <2>4. history'.late <= 1
    BY <2>1 DEF LateInv
  <2> QED
    BY <2>2, <2>3, <2>4 DEF LateInv, Stopped
<1>4. CASE InsertsLate
  BY <1>1, <1>4 DEF InsertsLate, LateInv, Deciding, Stopped
<1> QED
  BY <1>3, <1>4, NextRewrites

(* Once stopped, by a stop check, an error, the limit or the user, an automation
   starts at most the run that the scheduler had found due before: nothing is
   looked up again between that look and the insertion (automationScheduler.ts,
   runDueDefinition). *)
THEOREM OneAfterStop == Spec => []AtMostOneAfterStop
<1>1. Init => LateInv
  BY DEF Init, LateInv, Idle, Fiber, Deciding
<1>2. LateInv => AtMostOneAfterStop
  BY DEF LateInv, AtMostOneAfterStop
<1> QED
  BY <1>1, <1>2, LateStep, Invariant, PTL DEF Spec
-----------------------------------------------------------------------------
(* Worktrees *)

(* The server died since the beginning: there is less left of what it may. *)
Died == \E s \in Scenario : s.settings = settings /\ s.budget.crashes > budget.crashes
Begun == \E s \in Scenario : s.settings = settings /\ s.budget.crashes >= budget.crashes

(* The steps at which a fiber answers for the worktree of its run. *)
Owning == {"check-create", "create", "clean-up"}
Owned(r) == \E f \in Fiber : task[f].run = r /\ task[f].at \in Owning

OwnerInv ==
  /\ Begun
  /\ ~up => Died
  /\ Died \/ \A r \in Run : worktree[r] = "loose" => Owned(r)

(* What a step may do to owners and worktrees: nothing, or a fiber sees to the
   worktree of its own run. *)
LeavesOwners ==
  /\ worktree' = worktree
  /\ \A g \in Fiber : task[g].at \in Owning => task'[g] = task[g]
SeesTo(f) ==
  /\ Moves(f)
  /\ \A r \in Run \ {task[f].run} : worktree'[r] = worktree[r]
  /\ worktree'[task[f].run] = "loose" => task'[f].run = task[f].run /\ task'[f].at \in Owning
SeesToOwn == LeavesOwners \/ \E f \in Fiber : SeesTo(f)

(* A fiber that answers for no worktree moves. *)
LEMMA MoveLeavesOwners ==
  ASSUME NEW f \in Fiber, Moves(f), task[f].at \notin Owning, worktree' = worktree
  PROVE  SeesToOwn
BY DEF Moves, SeesToOwn, LeavesOwners

(* A fiber goes on, or leaves the run it has no worktree for. *)
LEMMA DispatchSeesTo ==
  ASSUME IInv, NEW f \in Fiber, Dispatches(f)
  PROVE  SeesToOwn
<1>1. task \in [Fiber -> TaskRow] /\ worktree \in [Run -> {"none", "loose", "left", "attached"}]
  BY DEF IInv, TasksInv, StateInv, WorldTyped
<1>2. CASE Insert(f) \/ NoneLeft(f) \/ Count(f) \/ Start(f) \/ CheckWorktree(f) \/ CheckSend(f) \/ Send(f)
  <2>1. task[f].at \notin Owning /\ worktree' = worktree
    BY <1>2 DEF Insert, NoneLeft, Count, Start, CheckWorktree, CheckSend, Send, Checked, At, Owning, world
  <2>2. Moves(f)
    BY <1>1, <1>2, FiberMoves DEF Insert, NoneLeft, Count, Start, CheckWorktree, CheckSend, Send,
       Checked, CleanUpFirst, GiveUp
  <2> QED
    BY <2>1, <2>2, MoveLeavesOwners
<1>3. task[f].at \in Dispatching => task[f].run \in Run
  BY DEF IInv, TasksInv, Sound, IsHeld, Holding
<1>4. CASE CheckCreate(f)
  <2>1. Go(f, "create") \/ Go(f, "clean-up") \/ (GiveUp(f) /\ worktree[task[f].run] # "loose")
    BY <1>4 DEF CheckCreate, Checked, CleanUpFirst
  <2>2. Moves(f) /\ worktree' = worktree
    BY <1>1, <1>4, <2>1, FiberMoves DEF CheckCreate, Checked, GiveUp, world
  <2>3. worktree'[task[f].run] = "loose" => task'[f].run = task[f].run /\ task'[f].at \in Owning
    BY <1>1, <2>1, <2>2 DEF Go, TaskRow, Owning
  <2> QED
    BY <2>2, <2>3 DEF SeesToOwn, SeesTo
<1>5. CASE CreateWorktree(f)
  <2>1. Moves(f) /\ Go(f, "check-create") /\ worktree' = [worktree EXCEPT ![task[f].run] = "loose"]
    BY <1>1, <1>5, FiberMoves DEF CreateWorktree
  <2>2. task'[f].run = task[f].run /\ task'[f].at \in Owning
    BY <1>1, <2>1 DEF Go, TaskRow, Owning
  <2> QED
    BY <1>1, <2>1, <2>2 DEF SeesToOwn, SeesTo
<1>6. CASE CreateThread(f)
  <2>1. Moves(f) /\ ThreadCreated(task[f].run) /\ task[f].run \in Run
    BY <1>1, <1>3, <1>6, FiberMoves DEF CreateThread, At, Dispatching
  <2> QED
    BY <1>1, <2>1 DEF ThreadCreated, SeesToOwn, SeesTo
<1>7. CASE CleanUp(f)
  <2>1. Moves(f) /\ worktree' = [worktree EXCEPT ![task[f].run] = "none"] /\ task[f].run \in Run
    BY <1>1, <1>3, <1>7, FiberMoves DEF CleanUp, At, Dispatching, GiveUp
  <2> QED
    BY <1>1, <2>1 DEF SeesToOwn, SeesTo
<1> QED
  BY <1>2, <1>4, <1>5, <1>6, <1>7 DEF Dispatches

LEMMA FailureSeesTo ==
  ASSUME IInv, NEW f \in Fiber, DispatchFails(f) \/ Fails(f)
  PROVE  SeesToOwn
<1>1. task \in [Fiber -> TaskRow] /\ worktree \in [Run -> {"none", "loose", "left", "attached"}]
  BY DEF IInv, TasksInv, StateInv, WorldTyped
<1>2. Moves(f)
  BY <1>1, FiberMoves DEF DispatchFails, Fails, AfterFailedCreate, CleanUpFirst, GiveUp
<1>3. CASE task[f].at \notin {"create", "clean-up"}
  <2>1. task[f].at \notin Owning /\ worktree' = worktree
    BY <1>3 DEF DispatchFails, Fails, At, Owning, world
  <2> QED
    BY <1>2, <2>1, MoveLeavesOwners
<1>5. CASE task[f].at = "clean-up"
  <2>1. worktree' = [worktree EXCEPT ![task[f].run] = IF @ = "loose" THEN "left" ELSE @]
    BY <1>5 DEF DispatchFails, Fails, At
  <2>2. task[f].run \in Run
    BY <1>5 DEF IInv, TasksInv, Sound, IsHeld, Holding, Dispatching
  <2> QED
    BY <1>1, <1>2, <2>1, <2>2 DEF SeesToOwn, SeesTo
<1>4. CASE task[f].at = "create"
  <2>1. task[f].run \in Run
    BY <1>4 DEF IInv, TasksInv, Sound, IsHeld, Holding, Dispatching
  <2>2. /\ CleanUpFirst(f)
        /\ ThreadCreated(task[f].run) \/ worktree' = worktree
    BY <1>4 DEF DispatchFails, Fails, At, AfterFailedCreate
  <2>3. /\ \A r \in Run \ {task[f].run} : worktree'[r] = worktree[r]
        /\ worktree'[task[f].run] = "loose" => worktree[task[f].run] = "loose"
    BY <1>1, <2>1, <2>2 DEF ThreadCreated
  <2>4. worktree[task[f].run] = "loose" => task'[f].run = task[f].run /\ task'[f].at \in Owning
    BY <1>1, <2>2 DEF CleanUpFirst, Go, TaskRow, Owning
  <2> QED
    BY <1>2, <2>3, <2>4 DEF SeesToOwn, SeesTo
<1> QED
  BY <1>3, <1>4, <1>5

LEMMA SettleSeesTo ==
  ASSUME IInv, NEW f \in Fiber, Look(f) \/ Settles(f) \/ Interrupt(f)
  PROVE  SeesToOwn
<1>1. task \in [Fiber -> TaskRow]
  BY DEF IInv, TasksInv
<1>2. task[f].at \notin Owning /\ worktree' = worktree
  BY DEF Look, Settles, Mark, Result, Stop, Disable, Interrupt, At, Owning, world
<1>3. Moves(f)
  BY <1>1, FiberMoves DEF Look, Settles, Mark, Result, Stop, Disable, Interrupt
<1> QED
  BY <1>2, <1>3, MoveLeavesOwners

(* Every step but the end and the start of the server. *)
LEMMA NextSeesTo ==
  ASSUME IInv, Next, ~Crash, ~Restarted
  PROVE  SeesToOwn
<1>1. task \in [Fiber -> TaskRow]
  BY DEF IInv, TasksInv
<1>2. ASSUME NEW f \in Fiber, (\E k : Becomes(f, k)) \/ (\E s : Go(f, s)) \/ Return(f),
             task[f].at \notin Owning, UNCHANGED world
      PROVE  SeesToOwn
  BY <1>1, <1>2, FiberMoves, MoveLeavesOwners DEF world
<1>3. CASE Scheduler
  <2>1. CASE BeginPass \/ Each \/ EndReconcile \/ Due \/ AskThread
    BY <1>2, <2>1, Fibers DEF BeginPass, Each, EndReconcile, Due, AskThread, At, Owning
  <2>2. CASE Advance \/ RecoverNext \/ EndRecovery
    BY <1>2, <2>2, Fibers DEF Advance, AfterAdvance, RecoverNext, EndRecovery, At, Owning
  <2> QED
    BY <1>3, <2>1, <2>2, Fibers, SettleSeesTo, DispatchSeesTo DEF Scheduler
<1>4. CASE Reactor
  <2>1. CASE Dequeue \/ \E t \in Thread : Take(t)
    BY <1>2, <2>1, Fibers DEF Dequeue, Take, At, Owning
  <2> QED
    BY <1>4, <2>1, Fibers, SettleSeesTo DEF Reactor
<1>5. CASE GoesOn
  <2>1. CASE Restart \/ DeleteNext \/ Archive \/ Save \/ WriteRead
    BY <1>2, <2>1, Fibers DEF Restart, DeleteNext, Archive, Save, WriteRead, At, Owning
  <2> QED
    BY <1>5, <2>1, Fibers, SettleSeesTo, DispatchSeesTo DEF GoesOn
<1>6. CASE Asks
  BY <1>2, <1>6, Fibers DEF Asks, RunNow, Cancel, Delete, Read, Update, Request, At, Owning
<1>7. CASE Turns \/ (\E r \in Run : Checks(r)) \/ Tick \/ LeaseExpires
  <2>1. worktree' = worktree /\ task' = task
    BY <1>7 DEF Turns, StartTurn, Requeue, Promote, UserSends, GoalBegins, UserMay, AskUser, Answer,
       EndTurn, Checks, TakeCheck, Evaluate,
       StopLoop, Record, EndCheck, Tick, LeaseExpires, world
  <2> QED
    BY <2>1 DEF SeesToOwn, LeavesOwners
<1> QED
  BY <1>3, <1>4, <1>5, <1>6, <1>7, FailureSeesTo DEF Next

(* Only a crash stops the server, and it uses up one of those allowed. *)
Costs ==
  /\ settings' = settings
  /\ budget'.crashes <= budget.crashes
  /\ up' = up \/ Restarted \/ (Crash /\ budget'.crashes < budget.crashes)

LEMMA NextCosts ==
  ASSUME IInv, Next
  PROVE  Costs
<1>1. budget \in [ticks : Nat, crashes : Nat, faults : Nat, asks : Nat, turns : 0..1,
                  requests : SUBSET Requests]
  BY DEF IInv, RestTyped, Budget
<1>2. ASSUME UNCHANGED outside
      PROVE  Costs
  BY <1>1, <1>2 DEF outside, Costs
<1>3. ASSUME NEW f \in Fiber, Look(f) \/ Settles(f) \/ Interrupt(f) \/ Dispatches(f)
      PROVE  UNCHANGED outside
  BY <1>3 DEF Look, Settles, Mark, Result, Stop, Disable, Interrupt, Dispatches, Insert, NoneLeft, Count,
     Start, CheckWorktree, CreateWorktree, CheckCreate, CreateThread, CheckSend, Send, CleanUp, Checked
<1>4. CASE Scheduler \/ Reactor \/ GoesOn
  <2>1. UNCHANGED outside
    BY <1>3, <1>4, Fibers DEF Scheduler, Reactor, GoesOn, BeginPass, Each, EndReconcile, Due, AskThread,
       Advance, RecoverNext, EndRecovery, Dequeue, Take, Restart, DeleteNext, Archive, Save, WriteRead
  <2> QED
    BY <1>2, <2>1
<1>5. CASE Asks
  <2>1. settings' = settings /\ up' = up /\ \E q : budget' = [budget EXCEPT !.requests = q]
    BY <1>5 DEF Asks, RunNow, Cancel, Delete, Read, Update, Request
  <2> QED
    BY <1>1, <2>1 DEF Costs
<1>6. CASE Turns \/ Tick \/ LeaseExpires \/ (\E r \in Run : Checks(r)) \/ (\E f \in Fiber : DispatchFails(f) \/ Fails(f))
  <2>1. settings' = settings /\ up' = up
    BY <1>6 DEF Turns, StartTurn, Requeue, Promote, UserSends, GoalBegins, UserMay, AskUser, Answer,
       EndTurn, Checks, TakeCheck, Evaluate,
       StopLoop, Record, EndCheck, Tick, LeaseExpires, DispatchFails, Fails, outside
  <2>2. \/ budget' = budget
        \/ budget' = [budget EXCEPT !.turns = @ - 1]
        \/ budget' = [budget EXCEPT !.asks = @ - 1]
        \/ budget' = [budget EXCEPT !.ticks = @ - 1]
        \/ budget' = [budget EXCEPT !.faults = @ - 1]
    BY <1>6 DEF Turns, StartTurn, Requeue, Promote, UserSends, GoalBegins, UserMay, AskUser, Answer,
       EndTurn, Checks, TakeCheck, Evaluate,
       StopLoop, Record, EndCheck, Tick, LeaseExpires, DispatchFails, Fails, outside, Spend
  <2>3. budget'.crashes = budget.crashes
    BY <1>1, <2>2
  <2> QED
    BY <1>1, <2>1, <2>3 DEF Costs
<1>7. CASE Crash
  <2>1. settings' = settings /\ budget.crashes > 0 /\ budget' = [budget EXCEPT !.crashes = @ - 1]
    BY <1>7 DEF Crash
  <2>2. budget'.crashes < budget.crashes /\ budget'.crashes <= budget.crashes
    BY <1>1, <2>1
  <2> QED
    BY <1>7, <2>1, <2>2 DEF Costs
<1>8. CASE Restarted
  <2>1. settings' = settings /\ budget' = budget
    BY <1>8 DEF Restarted
  <2> QED
    BY <1>1, <1>8, <2>1 DEF Costs
<1> QED
  BY <1>4, <1>5, <1>6, <1>7, <1>8 DEF Next

LEMMA OwnerStep == IInv /\ OwnerInv /\ [Next]_vars => OwnerInv'
<1> SUFFICES ASSUME IInv, OwnerInv, Next PROVE OwnerInv'
  BY DEF OwnerInv, Begun, Died, Owned, vars
<1>1. /\ settings' = settings /\ budget'.crashes <= budget.crashes
      /\ up' = up \/ Restarted \/ (Crash /\ budget'.crashes < budget.crashes)
  BY NextCosts DEF Costs
<1>2. budget.crashes \in Nat /\ budget'.crashes \in Nat
  <2>1. IInv'
    BY NextKeeps
  <2> QED
    BY <2>1 DEF IInv, RestTyped, Budget
<1>3. \A s \in Scenario : s.budget.crashes \in Nat
  BY ScenarioAssumption DEF Budget
<1>4. Begun' /\ (Died => Died')
  BY <1>1, <1>2, <1>3 DEF OwnerInv, Begun, Died
<1>5. Crash => Died'
  BY <1>1, <1>2, <1>3 DEF Crash, OwnerInv, Begun, Died
<1>6. Restarted => Died'
  BY <1>4 DEF Restarted, OwnerInv
<1>7. ~up' => Died'
  BY <1>1, <1>4, <1>5, <1>6 DEF OwnerInv
<1>8. Died' \/ \A r \in Run : worktree'[r] = "loose" => Owned(r)'
  <2> SUFFICES ASSUME ~Died', NEW r \in Run, worktree'[r] = "loose"
               PROVE  Owned(r)'
    OBVIOUS
  <2>1. SeesToOwn
    BY <1>5, <1>6, NextSeesTo
  <2>2. worktree[r] = "loose" => Owned(r)
    BY <1>4 DEF OwnerInv
  <2>3. CASE LeavesOwners
    BY <2>2, <2>3 DEF LeavesOwners, Owned
  <2>4. ASSUME NEW f \in Fiber, SeesTo(f)
        PROVE  Owned(r)'
    BY <2>2, <2>4 DEF SeesTo, Moves, Owned
  <2> QED
    BY <2>1, <2>3, <2>4 DEF SeesToOwn
<1> QED
  BY <1>4, <1>7, <1>8 DEF OwnerInv

(* A worktree that was made for a run belongs to its thread, or the fiber that
   made it is going to take it away, whichever step of the dispatch is refused or
   fails; only a crash before, or a removal that fails itself and is no more than
   logged, leaves one behind (automationRunDispatch.ts, cleanupWorktree). *)
THEOREM NoWorktreeForgotten == Spec => []WorktreeHasOwner
<1>1. Init => OwnerInv
  <2> SUFFICES ASSUME Init PROVE OwnerInv
    OBVIOUS
  <2>1. PICK s \in Scenario : settings = s.settings /\ budget = s.budget
    BY DEF Init
  <2>2. s.budget.crashes \in Nat
    BY ScenarioAssumption DEF Budget
  <2>3. Begun
    BY <2>1, <2>2 DEF Begun
  <2> QED
    BY <2>3 DEF Init, OwnerInv
<1>2. OwnerInv => WorktreeHasOwner
  BY DEF OwnerInv, WorktreeHasOwner, Died, Owned, Owning
<1> QED
  BY <1>1, <1>2, OwnerStep, Invariant, PTL DEF Spec

-----------------------------------------------------------------------------
(* The limit of iterations *)

(* The runs the schedule gave a turn, and the one it has counted and is about to
   give one. *)
Counted(k) == k.at \in Dispatching \ {"count"}
Billed(r) == run[r].trigger = "scheduled" /\ turn[r] # "none"
Bill == {r \in Run : Billed(r) \/ (Counted(task["scheduler"]) /\ task["scheduler"].run = r)}

(* The scheduler has found the limit not reached, and has not counted the run. *)
Chosen(k) == k.at \in {"ask", "insert", "count"} \/ (k.at = "advance" /\ k.plan = "start")

(* Nobody but the scheduler dispatches what the schedule started. *)
ManualInv ==
  \A f \in Fiber \ {"scheduler"} : IsDispatch(task[f]) => run[task[f].run].trigger = "manual"

Limit == settings.maxIterations
BillInv ==
  Limit # 0 =>
    /\ Cardinality(Bill) <= Limit * history.restarts + definition.iterationCount
    /\ Cardinality(Bill) <= Limit * history.restarts + Limit
    /\ Chosen(task["scheduler"]) => Cardinality(Bill) + 1 <= Limit * history.restarts + Limit

(* What a run is for is written when it is inserted, and never again. *)
SameOrigin(r) ==
  /\ run'[r].trigger = run[r].trigger /\ run'[r].scheduledFor = run[r].scheduledFor
  /\ run'[r].planned = run[r].planned
  /\ run[r].status = "none" => run'[r].status = "none"
OriginsStay == \A r \in Run : SameOrigin(r) \/ (\E f \in Fiber : Insert(f) /\ r = First(Unused))

(* A write of one column leaves the others. *)
LEMMA StatusWritten ==
  ASSUME run \in [Run -> RunRow], NEW q \in Run, run[q].status # "none", NEW s, NEW v,
         \/ run' = [run EXCEPT ![q].status = s]
         \/ run' = [run EXCEPT ![q].evaluated = v]
         \/ run' = [run EXCEPT ![q].status = s, ![q].startedAt = v]
         \/ run' = [run EXCEPT ![q].status = s, ![q].turn = v]
  PROVE  OriginsStay
<1>1. \A r \in Run : SameOrigin(r)
  BY DEF SameOrigin, RunRow
<1> QED
  BY <1>1 DEF OriginsStay

LEMMA NextOriginsStay ==
  ASSUME IInv, Next
  PROVE  OriginsStay
<1>1. run \in [Run -> RunRow]
  BY DEF IInv, StateInv, RunsTyped
<1>9. \A f \in Fiber : task[f].at \in Holding => task[f].run \in Run /\ run[task[f].run].status # "none"
  BY DEF IInv, TasksInv, Sound, IsHeld
<1>2. ASSUME run' = run
      PROVE  OriginsStay
  BY <1>2 DEF OriginsStay, SameOrigin
<1>3. ASSUME NEW f \in Fiber, Look(f) \/ Settles(f) \/ Interrupt(f)
      PROVE  OriginsStay
  <2>1. CASE Mark(f)
    <3>1. task[f].run \in Run /\ run[task[f].run].status # "none"
      BY <1>9, <2>1 DEF Mark, At, Holding
    <3>2. \E s, v : run' = [run EXCEPT ![task[f].run].status = s, ![task[f].run].turn = v]
      BY <2>1 DEF Mark
    <3> QED
      BY <1>1, <3>1, <3>2, StatusWritten
  <2>2. CASE Result(f)
    BY <1>1, <1>9, <2>2, StatusWritten DEF Result, At, Holding
  <2>3. CASE Look(f) \/ Stop(f) \/ Disable(f) \/ Interrupt(f)
    BY <1>2, <2>3 DEF Look, Stop, Disable, Interrupt, store
  <2> QED
    BY <1>3, <2>1, <2>2, <2>3 DEF Settles
<1>4. ASSUME NEW f \in Fiber, Dispatches(f)
      PROVE  OriginsStay
  <2>1. CASE Insert(f)
    <3>1. \A r \in Run \ {First(Unused)} : run'[r] = run[r]
      BY <1>1, <2>1 DEF Insert
    <3> QED
      BY <2>1, <3>1 DEF OriginsStay, SameOrigin
  <2>2. CASE Start(f)
    <3>1. task[f].run \in Run /\ run[task[f].run].status # "none"
      BY <1>9, <2>2 DEF Start, At, Holding, Dispatching
    <3>2. \E s, v : run' = [run EXCEPT ![task[f].run].status = s, ![task[f].run].startedAt = v]
      BY <2>2 DEF Start
    <3> QED
      BY <1>1, <3>1, <3>2, StatusWritten
  <2>3. CASE \/ NoneLeft(f) \/ Count(f) \/ CheckWorktree(f) \/ CreateWorktree(f) \/ CheckCreate(f)
             \/ CreateThread(f) \/ CheckSend(f) \/ Send(f) \/ CleanUp(f)
    BY <1>2, <2>3 DEF NoneLeft, Count, CheckWorktree, CreateWorktree, CheckCreate, CreateThread,
       CheckSend, Send, CleanUp, Checked, store
  <2> QED
    BY <1>4, <2>1, <2>2, <2>3 DEF Dispatches
<1>5. CASE Scheduler \/ Reactor
  <2>1. CASE BeginPass \/ Each \/ EndReconcile \/ Due \/ AskThread \/ RecoverNext \/ EndRecovery \/ Advance
             \/ Dequeue \/ (\E t \in Thread : Take(t))
    BY <1>2, <2>1 DEF BeginPass, Each, EndReconcile, Due, AskThread, RecoverNext, EndRecovery, Advance,
       Dequeue, Take, store
  <2> QED
    BY <1>3, <1>4, <1>5, <2>1, Fibers DEF Scheduler, Reactor
<1>6. CASE GoesOn
  <2>1. CASE Restart \/ DeleteNext \/ Archive \/ Save
    BY <1>2, <2>1 DEF Restart, DeleteNext, Archive, Save, store
  <2>2. CASE WriteRead
    <3>1. \A r \in Run : SameOrigin(r)
      BY <1>1, <2>2 DEF WriteRead, SameOrigin, RunRow
    <3> QED
      BY <3>1 DEF OriginsStay
  <2> QED
    BY <1>3, <1>4, <1>6, <2>1, <2>2, Fibers DEF GoesOn
<1>7. CASE Asks \/ Turns \/ Tick \/ LeaseExpires \/ Crash \/ Restarted
           \/ (\E f \in Fiber : DispatchFails(f) \/ Fails(f))
  BY <1>2, <1>7 DEF Asks, RunNow, Cancel, Delete, Read, Update, Request, Turns, StartTurn, Requeue,
     Promote, UserSends, GoalBegins, UserMay,
     AskUser, Answer, EndTurn, Tick, LeaseExpires, Crash, Restarted, DispatchFails, Fails, store
<1>8. ASSUME NEW r \in Run, Checks(r)
      PROVE  OriginsStay
  <2>1. CASE Record(r)
    <3>1. \A q \in Run : SameOrigin(q)
      BY <1>1, <2>1 DEF Record, SameOrigin, RunRow
    <3> QED
      BY <3>1 DEF OriginsStay
  <2>2. CASE TakeCheck(r) \/ Evaluate(r) \/ StopLoop(r) \/ EndCheck(r)
    BY <1>2, <2>2 DEF TakeCheck, Evaluate, StopLoop, EndCheck, store
  <2> QED
    BY <1>8, <2>1, <2>2 DEF Checks
<1> QED
  BY <1>5, <1>6, <1>7, <1>8 DEF Next

(* A run that was inserted keeps its origin. *)
LEMMA OriginStays ==
  ASSUME IInv, Next, NEW r \in Run, run[r].status # "none"
  PROVE  SameOrigin(r)
<1>1. SUFFICES ASSUME NEW f \in Fiber, Insert(f) PROVE r # First(Unused)
  BY NextOriginsStay DEF OriginsStay
<1>2. Unused \in SUBSET Nat /\ Unused # {}
  BY <1>1, Numbers DEF Insert, Unused
<1>3. First(Unused) \in Unused
  BY <1>2, FirstIsIn
<1> QED
  BY <1>3 DEF Unused

(* A turn begins only where a fiber sends it. *)
TurnsBegin ==
  \A r \in Run : turn[r] = "none" /\ turn'[r] # "none" =>
    \E f \in Fiber : task[f].at = "send" /\ task[f].run = r

LEMMA NextTurnsBegin ==
  ASSUME IInv, Next
  PROVE  TurnsBegin
<1>1. turn \in [Turn -> TurnStates] /\ Run \subseteq Turn /\ UserTurn \notin Run
  BY Numbers DEF IInv, StateInv, WorldTyped
<1>10. ASSUME NEW u \in Turn, \E s : turn' = [turn EXCEPT ![u] = s],
              turn[u] # "none" \/ u = UserTurn \/ \E f \in Fiber : task[f].at = "send" /\ task[f].run = u
       PROVE  TurnsBegin
  BY <1>1, <1>10 DEF TurnsBegin
<1>11. ASSUME NEW f \in Fiber, task[f].at = "send", Given(task[f].run, ThreadOf(task[f].run))
       PROVE  TurnsBegin
  <2>1. PICK u \in Turn : u = task[f].run
    BY <1>1, <1>11 DEF IInv, TasksInv, Sound, IsHeld, Holding, Dispatching
  <2>2. \E s : turn' = [turn EXCEPT ![u] = s]
    BY <1>11, <2>1 DEF Given, Requested
  <2> QED
    BY <1>10, <1>11, <2>1, <2>2
<1>2. ASSUME turn' = turn
      PROVE  TurnsBegin
  BY <1>2 DEF TurnsBegin
<1>3. ASSUME NEW f \in Fiber, Look(f) \/ Settles(f) \/ Interrupt(f)
      PROVE  TurnsBegin
  BY <1>2, <1>3 DEF Look, Settles, Mark, Result, Stop, Disable, Interrupt, world
<1>4. ASSUME NEW f \in Fiber, Dispatches(f)
      PROVE  TurnsBegin
  <2>1. CASE Send(f)
    BY <1>11, <2>1 DEF Send, At
  <2>2. CASE \/ Insert(f) \/ NoneLeft(f) \/ Count(f) \/ Start(f) \/ CheckWorktree(f) \/ CreateWorktree(f)
             \/ CheckCreate(f) \/ CreateThread(f) \/ CheckSend(f) \/ CleanUp(f)
    BY <1>2, <2>2 DEF Insert, NoneLeft, Count, Start, CheckWorktree, CreateWorktree, CheckCreate,
       CreateThread, CheckSend, CleanUp, Checked, world
  <2> QED
    BY <1>4, <2>1, <2>2 DEF Dispatches
<1>5. CASE Scheduler \/ Reactor \/ GoesOn
  <2>1. CASE BeginPass \/ Each \/ EndReconcile \/ Due \/ AskThread \/ RecoverNext \/ EndRecovery \/ Advance
             \/ Dequeue \/ (\E t \in Thread : Take(t))
    BY <1>2, <2>1 DEF BeginPass, Each, EndReconcile, Due, AskThread, RecoverNext, EndRecovery, Advance,
       Dequeue, Take, world
  <2>2. CASE Restart \/ DeleteNext \/ Archive \/ Save \/ WriteRead
    BY <1>2, <2>2 DEF Restart, DeleteNext, Archive, Save, WriteRead, world
  <2> QED
    BY <1>3, <1>4, <1>5, <2>1, <2>2, Fibers DEF Scheduler, Reactor, GoesOn
<1>6. CASE Asks \/ Tick \/ LeaseExpires \/ Crash \/ (\E r \in Run : Checks(r))
  BY <1>2, <1>6 DEF Asks, RunNow, Cancel, Delete, Read, Update, Request, Tick, LeaseExpires, Crash,
     Checks, TakeCheck, Evaluate, StopLoop, Record, EndCheck, world
<1>7. CASE Turns
  <2>1. ASSUME NEW u \in Turn, StartTurn(u) \/ Requeue(u) \/ Promote(u)
        PROVE  TurnsBegin
    <3>1. turn[u] # "none" /\ \E s : turn' = [turn EXCEPT ![u] = s]
      BY <2>1 DEF StartTurn, Begins, Requeue, Promote, Requested
    <3> QED
      BY <1>10, <3>1
  <2>2. ASSUME NEW t \in Thread, UserSends(t) \/ GoalBegins(t)
        PROVE  TurnsBegin
    <3>1. \E s : turn' = [turn EXCEPT ![UserTurn] = s]
      BY <2>2 DEF UserSends, Given, Requested, GoalBegins, Begins
    <3> QED
      BY <1>10, <3>1, Numbers
  <2>3. ASSUME NEW u \in Turn, AskUser(u) \/ Answer(u) \/ EndTurn(u)
        PROVE  TurnsBegin
    <3>1. turn[u] # "none" /\ \E s : turn' = [turn EXCEPT ![u] = s]
      BY <2>3 DEF AskUser, Answer, EndTurn
    <3> QED
      BY <1>10, <3>1
  <2> QED
    BY <1>7, <2>1, <2>2, <2>3 DEF Turns
<1>8. CASE Restarted
  BY <1>1, <1>8 DEF Restarted, TurnsBegin
<1>9. ASSUME NEW f \in Fiber, DispatchFails(f) \/ Fails(f)
      PROVE  TurnsBegin
  <2>1. turn' = turn \/ (task[f].at = "send" /\ Given(task[f].run, ThreadOf(task[f].run)))
    BY <1>9 DEF DispatchFails, Fails, At, world
  <2> QED
    BY <1>2, <1>11, <2>1
<1> QED
  BY <1>4, <1>5, <1>6, <1>7, <1>8, <1>9 DEF Next

(* How a fiber comes to a dispatch, and the scheduler to a choice. *)
Onward(f) ==
  /\ IsDispatch(task'[f]) => (IsDispatch(task[f]) /\ task'[f].run = task[f].run) \/ Insert(f)
  /\ Counted(task'[f]) => task'[f].run = task[f].run /\ (Counted(task[f]) \/ Count(f))
  /\ f = "scheduler" /\ Chosen(task'[f]) =>
       Chosen(task[f]) \/ (definition' = definition /\ history' = history /\ ~Exhausted(definition))

(* Steps that are no dispatch and no choice, in each of their forms. *)
LEMMA AsideIsOnward ==
  ASSUME NEW f, task'[f].at \notin Dispatching \cup {"ask", "insert", "advance"}
  PROVE  Onward(f)
BY DEF Onward, IsDispatch, Counted, Chosen, Dispatching

LEMMA StillIsOnward ==
  ASSUME NEW f, task'[f] = task[f]
  PROVE  Onward(f)
BY DEF Onward, Counted, IsDispatch

LEMMA ReturnIsOnward ==
  ASSUME task \in [Fiber -> TaskRow], NEW f \in Fiber, Return(f)
  PROVE  Onward(f)
<1>1. /\ task'[f] = [Idle EXCEPT !.at = task[f].back, !.back = task[f].back, !.left = task[f].left]
      /\ task[f] \in TaskRow
  BY ReturnPuts DEF Put
<1>2. task'[f].at = task[f].back
  BY <1>1 DEF Idle
<1>3. task[f].back \in {"idle", "each", "delete", "done", "recover"}
  BY <1>1 DEF TaskRow
<1> QED
  BY <1>2, <1>3, AsideIsOnward DEF Dispatching

LEMMA GoIsOnward ==
  ASSUME task \in [Fiber -> TaskRow], NEW f \in Fiber, NEW s, Go(f, s),
         s \notin Dispatching \cup {"ask", "insert", "advance"}
  PROVE  Onward(f)
BY GoesTo, AsideIsOnward

LEMMA PutIsOnward ==
  ASSUME task \in [Fiber -> TaskRow], NEW f \in Fiber, NEW k, Becomes(f, k),
         k.at \notin Dispatching \cup {"ask", "insert", "advance"}
  PROVE  Onward(f)
BY BecomesIt, AsideIsOnward

(* Within a dispatch. *)
LEMMA GoOnIsOnward ==
  ASSUME task \in [Fiber -> TaskRow], NEW f \in Fiber, NEW s, Go(f, s), s \in Dispatching \ {"count"},
         Counted(task[f])
  PROVE  Onward(f)
<1>1. task'[f] = [task[f] EXCEPT !.at = s] /\ task[f] \in TaskRow
  BY DEF Go
<1>2. task'[f].at = s /\ task'[f].run = task[f].run
  BY <1>1 DEF TaskRow
<1> QED
  BY <1>2 DEF Onward, IsDispatch, Counted, Chosen, Dispatching

LEMMA GiveUpIsOnward ==
  ASSUME task \in [Fiber -> TaskRow], NEW f \in Fiber, GiveUp(f)
  PROVE  Onward(f)
<1>1. task'[f] = [task[f] EXCEPT !.at = "mark", !.plan = "give-up"] /\ task[f] \in TaskRow
  BY DEF GiveUp, Becomes
<1>2. task'[f].at = "mark"
  BY <1>1 DEF TaskRow
<1> QED
  BY <1>2, AsideIsOnward DEF Dispatching

(* Each operation, and then every step. *)
LEMMA SettlesOnward ==
  ASSUME task \in [Fiber -> TaskRow], NEW f \in Fiber, Look(f) \/ Settles(f) \/ Interrupt(f)
  PROVE  Onward(f)
<1>1. CASE Look(f)
  <2>1. \/ Return(f)
        \/ \E r, p, u : Becomes(f, [task[f] EXCEPT !.at = "mark", !.run = r, !.plan = p, !.turn = u])
    BY <1>1 DEF Look
  <2>2. \A r, p, u : [task[f] EXCEPT !.at = "mark", !.run = r, !.plan = p, !.turn = u].at = "mark"
    BY DEF TaskRow
  <2> QED
    BY <2>1, <2>2, ReturnIsOnward, PutIsOnward DEF Dispatching
<1>2. CASE Settles(f)
  <2>1. \/ Return(f)
        \/ \E a \in {"result", "interrupt", "disable"} : Go(f, a)
        \/ \E p : Becomes(f, [task[f] EXCEPT !.at = "stop", !.plan = p])
        \/ Go(f, "advance") /\ task[f].plan = "skip"
    BY <1>2 DEF Settles, Mark, Result, Stop, Disable
  <2>2. \A p : [task[f] EXCEPT !.at = "stop", !.plan = p].at = "stop"
    BY DEF TaskRow
  <2>3. CASE Go(f, "advance") /\ task[f].plan = "skip"
    <3>1. task'[f] = [task[f] EXCEPT !.at = "advance"] /\ task[f] \in TaskRow
      BY <2>3 DEF Go
    <3>2. task'[f].at = "advance" /\ task'[f].plan = "skip"
      BY <2>3, <3>1 DEF TaskRow
    <3> QED
      BY <3>2 DEF Onward, IsDispatch, Counted, Chosen, Dispatching
  <2>4. CASE \E a \in {"result", "interrupt", "disable"} : Go(f, a)
    BY <2>4, GoIsOnward DEF Dispatching
  <2> QED
    BY <2>1, <2>2, <2>3, <2>4, ReturnIsOnward, PutIsOnward DEF Dispatching
<1>3. CASE Interrupt(f)
  BY <1>3, ReturnIsOnward, GoIsOnward DEF Interrupt, Dispatching
<1> QED
  BY <1>1, <1>2, <1>3

LEMMA CleanUpFirstOnward ==
  ASSUME task \in [Fiber -> TaskRow], NEW f \in Fiber, CleanUpFirst(f), Counted(task[f])
  PROVE  Onward(f)
BY GoOnIsOnward, GiveUpIsOnward DEF CleanUpFirst, Dispatching

LEMMA DispatchesOnward ==
  ASSUME task \in [Fiber -> TaskRow], NEW f \in Fiber, Dispatches(f)
  PROVE  Onward(f)
<1>1. CASE Insert(f)
  <2>1. task[f].at = "insert" /\ task[f] \in TaskRow
    BY <1>1 DEF Insert, At
  <2>2. \/ \E a \in {"mark", "advance", "count"} : \E r : Becomes(f, [task[f] EXCEPT !.run = r, !.at = a])
        \/ \E r : Becomes(f, [task[f] EXCEPT !.at = "advance", !.run = r])
        \/ Becomes(f, Idle)
    BY <1>1 DEF Insert
  <2>3. \/ task'[f].at \in {"mark", "advance", "count"}
        \/ task'[f] = Idle
    BY <2>1, <2>2, BecomesIt DEF TaskRow
  <2>4. task'[f].at \in {"mark", "advance", "count", "idle"}
    BY <2>3 DEF Idle
  <2> QED
    BY <1>1, <2>1, <2>4 DEF Onward, IsDispatch, Counted, Chosen, Dispatching
<1>2. CASE NoneLeft(f) \/ Send(f)
  BY <1>2, ReturnIsOnward DEF NoneLeft, Send
<1>3. CASE Count(f)
  <2>1. task'[f] = [Idle EXCEPT !.at = "start", !.run = task[f].run] /\ task[f].at = "count"
    BY <1>3, BecomesIt DEF Count, At
  <2>2. task'[f].at = "start" /\ task'[f].run = task[f].run
    BY <2>1 DEF Idle
  <2> QED
    BY <1>3, <2>1, <2>2 DEF Onward, IsDispatch, Counted, Chosen, Dispatching
<1>4. CASE Start(f)
  BY <1>4, GoOnIsOnward, GiveUpIsOnward DEF Start, At, Counted, Dispatching
<1>5. CASE CheckWorktree(f) \/ CheckCreate(f) \/ CheckSend(f)
  BY <1>5, GoOnIsOnward, CleanUpFirstOnward DEF CheckWorktree, CheckCreate, CheckSend, Checked, At, Counted,
     Dispatching
<1>6. CASE CreateWorktree(f) \/ CreateThread(f)
  BY <1>6, GoOnIsOnward DEF CreateWorktree, CreateThread, At, Counted, Dispatching
<1>7. CASE CleanUp(f)
  BY <1>7, GiveUpIsOnward DEF CleanUp
<1> QED
  BY <1>1, <1>2, <1>3, <1>4, <1>5, <1>6, <1>7 DEF Dispatches

LEMMA FailureOnward ==
  ASSUME task \in [Fiber -> TaskRow], NEW f \in Fiber, DispatchFails(f) \/ Fails(f)
  PROVE  Onward(f)
BY ReturnIsOnward, GiveUpIsOnward, CleanUpFirstOnward DEF DispatchFails, Fails, AfterFailedCreate, At,
   Counted,
   Dispatching

(* The scheduler's own steps. *)
LEMMA PassOnward ==
  ASSUME task \in [Fiber -> TaskRow],
         \/ BeginPass \/ Each \/ EndReconcile \/ Due \/ AskThread \/ Advance
         \/ RecoverNext \/ EndRecovery
  PROVE  Onward("scheduler")
<1>1. "scheduler" \in Fiber /\ task["scheduler"] \in TaskRow
  BY DEF Fiber
<1>2. CASE BeginPass \/ EndReconcile \/ EndRecovery
  <2>1. \/ \E l : Becomes("scheduler", [Idle EXCEPT !.at = "each", !.back = "each", !.left = l])
        \/ Becomes("scheduler", [Idle EXCEPT !.at = "due"])
        \/ Becomes("scheduler", Idle)
    BY <1>2 DEF BeginPass, EndReconcile, EndRecovery
  <2>2. /\ \A l : [Idle EXCEPT !.at = "each", !.back = "each", !.left = l].at = "each"
        /\ [Idle EXCEPT !.at = "due"].at = "due" /\ Idle.at = "idle"
    BY DEF Idle
  <2> QED
    BY <1>1, <2>1, <2>2, PutIsOnward DEF Dispatching
<1>3. CASE Each \/ RecoverNext
  <2>1. CASE Each
    <3>1. task'["scheduler"].at \in {"interrupt", "look", "each"}
      BY <1>1, <2>1 DEF Each, At, Becomes, TaskRow
    <3> QED
      BY <3>1, AsideIsOnward DEF Dispatching
  <2>2. CASE RecoverNext
    <3>1. task'["scheduler"].at \in {"look", "mark"}
      BY <1>1, <2>2 DEF RecoverNext, At, Becomes, TaskRow
    <3> QED
      BY <3>1, AsideIsOnward DEF Dispatching
  <2> QED
    BY <1>3, <2>1, <2>2
<1>4. CASE Due
  <2>1. task'["scheduler"].at \in {"idle", "disable", "insert", "ask"}
    BY <1>1, <1>4 DEF Due, Becomes, Idle
  <2>2. task'["scheduler"].at \in {"insert", "ask"} => ~Exhausted(definition)
    BY <1>1, <1>4 DEF Due, Becomes, Idle, LimitReached
  <2>3. definition' = definition /\ history' = history
    BY <1>4 DEF Due, store
  <2> QED
    BY <2>1, <2>2, <2>3 DEF Onward, IsDispatch, Counted, Chosen, Dispatching
<1>5. CASE AskThread
  <2>1. Return("scheduler") \/ task'["scheduler"].at = "insert"
    BY <1>1, <1>5 DEF AskThread, Becomes, TaskRow
  <2>2. CASE task'["scheduler"].at = "insert"
    BY <1>5, <2>2 DEF AskThread, At, Onward, IsDispatch, Counted, Chosen, Dispatching
  <2> QED
    BY <1>1, <2>1, <2>2, ReturnIsOnward
<1>6. CASE Advance
  <2>1. CASE Return("scheduler")
    BY <1>1, <2>1, ReturnIsOnward
  <2>2. CASE ~Return("scheduler")
    <3>1. /\ task["scheduler"].at = "advance" /\ task["scheduler"].plan = "start"
          /\ task["scheduler"].run # 0
          /\ Becomes("scheduler", [task["scheduler"] EXCEPT !.at = "count", !.now = Now])
      BY <1>6, <2>2 DEF Advance, AfterAdvance, At
    <3>2. task'["scheduler"].at = "count" /\ task'["scheduler"].run = task["scheduler"].run
      BY <1>1, <3>1 DEF Becomes, TaskRow
    <3> QED
      BY <3>1, <3>2 DEF Onward, IsDispatch, Counted, Chosen, Dispatching
  <2> QED
    BY <2>1, <2>2
<1> QED
  BY <1>2, <1>3, <1>4, <1>5, <1>6

LEMMA UserOnward ==
  ASSUME task \in [Fiber -> TaskRow],
         Restart \/ DeleteNext \/ Archive \/ Save \/ WriteRead \/ Asks
  PROVE  Onward("user")
<1>1. "user" \in Fiber /\ task["user"] \in TaskRow
  BY DEF Fiber
<1>2. CASE Archive \/ Save \/ WriteRead
  BY <1>1, <1>2, ReturnIsOnward DEF Archive, Save, WriteRead
<1>3. CASE Restart \/ DeleteNext
  <2>1. task'["user"].at \in {"insert", "archive", "mark"}
    <3>1. CASE Restart
      BY <1>1, <3>1 DEF Restart, Becomes, TaskRow
    <3>2. CASE DeleteNext
      <4>1. \/ Becomes("user", [Idle EXCEPT !.at = "archive"])
            \/ \E r, l : Becomes("user", [task["user"] EXCEPT !.at = "mark", !.plan = "cancel", !.run = r, !.left = l])
        BY <3>2 DEF DeleteNext
      <4>2. /\ [Idle EXCEPT !.at = "archive"].at = "archive"
            /\ \A r, l : [task["user"] EXCEPT !.at = "mark", !.plan = "cancel", !.run = r, !.left = l].at = "mark"
        BY <1>1 DEF Idle, TaskRow
      <4>3. CASE Becomes("user", [Idle EXCEPT !.at = "archive"])
        BY <1>1, <4>2, <4>3, BecomesIt
      <4>4. CASE \E r, l : Becomes("user", [task["user"] EXCEPT !.at = "mark", !.plan = "cancel",
                                                              !.run = r, !.left = l])
        <5>1. PICK r, l : Becomes("user", [task["user"] EXCEPT !.at = "mark", !.plan = "cancel",
                                                               !.run = r, !.left = l])
          BY <4>4
        <5>2. task'["user"] = [task["user"] EXCEPT !.at = "mark", !.plan = "cancel", !.run = r, !.left = l]
          BY <1>1, <5>1, BecomesIt
        <5> QED
          BY <4>2, <5>2
      <4> QED
        BY <4>1, <4>3, <4>4
    <3> QED
      BY <1>3, <3>1, <3>2
  <2> QED
    BY <2>1 DEF Onward, IsDispatch, Counted, Chosen, Dispatching
<1>4. CASE Asks
  <2>1. task'["user"].at \in {"insert", "restart", "mark", "delete", "save", "read"}
    BY <1>1, <1>4 DEF Asks, RunNow, Cancel, Delete, Read, Update, Becomes, Idle
  <2> QED
    BY <2>1 DEF Onward, IsDispatch, Counted, Chosen, Dispatching
<1> QED
  BY <1>2, <1>3, <1>4

LEMMA ReactorOnward ==
  ASSUME task \in [Fiber -> TaskRow], Dequeue \/ \E t \in Thread : Take(t)
  PROVE  Onward("reactor")
<1>1. \/ Becomes("reactor", Idle)
      \/ \E t : Becomes("reactor", [Idle EXCEPT !.at = "look", !.back = "done", !.run = t, !.left = {t}])
  BY DEF Dequeue, Take
<1>2. Idle.at = "idle" /\ \A t : [Idle EXCEPT !.at = "look", !.back = "done", !.run = t, !.left = {t}].at = "look"
  BY DEF Idle
<1> QED
  BY <1>1, <1>2, Fibers, PutIsOnward DEF Dispatching

LEMMA NextOnward ==
  ASSUME IInv, Next
  PROVE  \A f \in Fiber : Onward(f)
<1>1. task \in [Fiber -> TaskRow]
  BY DEF IInv, TasksInv
<1>2. ASSUME NEW f \in Fiber, Moves(f), Onward(f)
      PROVE  \A g \in Fiber : Onward(g)
  BY <1>2, StillIsOnward DEF Moves
<1>3. ASSUME NEW f \in Fiber, Look(f) \/ Settles(f) \/ Interrupt(f)
      PROVE  \A g \in Fiber : Onward(g)
  <2>1. Moves(f)
    BY <1>1, <1>3, FiberMoves DEF Look, Settles, Mark, Result, Stop, Disable, Interrupt
  <2> QED
    BY <1>1, <1>2, <1>3, <2>1, SettlesOnward
<1>4. ASSUME NEW f \in Fiber, Dispatches(f)
      PROVE  \A g \in Fiber : Onward(g)
  <2>1. Moves(f)
    BY <1>1, <1>4, FiberMoves DEF Dispatches, Insert, NoneLeft, Count, Start, CheckWorktree, CreateWorktree,
       CheckCreate, CreateThread, CheckSend, Send, CleanUp, Checked, CleanUpFirst, GiveUp
  <2> QED
    BY <1>1, <1>2, <1>4, <2>1, DispatchesOnward
<1>5. ASSUME NEW f \in Fiber, DispatchFails(f) \/ Fails(f)
      PROVE  \A g \in Fiber : Onward(g)
  <2>1. Moves(f)
    BY <1>1, <1>5, FiberMoves DEF DispatchFails, Fails, AfterFailedCreate, CleanUpFirst, GiveUp
  <2> QED
    BY <1>1, <1>2, <1>5, <2>1, FailureOnward
<1>6. CASE Scheduler
  <2>1. CASE \/ BeginPass \/ Each \/ EndReconcile \/ Due \/ AskThread \/ Advance
             \/ RecoverNext \/ EndRecovery
    <3>1. Moves("scheduler")
      BY <1>1, <2>1, Fibers, FiberMoves DEF BeginPass, Each, EndReconcile, Due, AskThread, Advance,
         AfterAdvance, RecoverNext, EndRecovery
    <3> QED
      BY <1>1, <1>2, <2>1, <3>1, Fibers, PassOnward
  <2> QED
    BY <1>3, <1>4, <1>6, <2>1, Fibers DEF Scheduler
<1>7. CASE Reactor
  <2>1. CASE Dequeue \/ \E t \in Thread : Take(t)
    <3>1. Moves("reactor")
      BY <1>1, <2>1, Fibers, FiberMoves DEF Dequeue, Take
    <3> QED
      BY <1>1, <1>2, <2>1, <3>1, Fibers, ReactorOnward
  <2> QED
    BY <1>3, <1>7, <2>1, Fibers DEF Reactor
<1>8. CASE GoesOn \/ Asks
  <2>1. CASE Restart \/ DeleteNext \/ Archive \/ Save \/ WriteRead \/ Asks
    <3>1. Moves("user")
      BY <1>1, <2>1, Fibers, FiberMoves DEF Restart, DeleteNext, Archive, Save, WriteRead, Asks, RunNow,
         Cancel, Delete, Read, Update
    <3> QED
      BY <1>1, <1>2, <2>1, <3>1, Fibers, UserOnward
  <2> QED
    BY <1>3, <1>4, <1>8, <2>1, Fibers DEF GoesOn
<1>9. CASE Turns \/ (\E r \in Run : Checks(r)) \/ Tick \/ LeaseExpires
  <2>1. task' = task
    BY <1>9 DEF Turns, StartTurn, Requeue, Promote, UserSends, GoalBegins, UserMay, AskUser, Answer,
       EndTurn, Checks, TakeCheck, Evaluate,
       StopLoop, Record, EndCheck, Tick, LeaseExpires
  <2> QED
    BY <2>1, StillIsOnward
<1>10. CASE Crash
  <2>1. \A f \in Fiber : task'[f].at = "idle"
    BY <1>10 DEF Crash, Idle
  <2> QED
    BY <2>1, AsideIsOnward DEF Dispatching
<1>11. CASE Restarted
  <2>1. PICK l : Becomes("scheduler", [Idle EXCEPT !.at = "recover", !.back = "recover", !.left = l])
    BY <1>11 DEF Restarted
  <2>2. [Idle EXCEPT !.at = "recover", !.back = "recover", !.left = l].at = "recover"
    BY DEF Idle
  <2>3. Moves("scheduler")
    BY <1>1, <2>1, Fibers, FiberMoves
  <2> QED
    BY <1>1, <1>2, <2>1, <2>2, <2>3, Fibers, PutIsOnward DEF Dispatching
<1> QED
  BY <1>5, <1>6, <1>7, <1>8, <1>9, <1>10, <1>11 DEF Next

(* The user inserts manual runs, and the reactor dispatches none. *)
LEMMA ManualStep == IInv /\ ManualInv /\ [Next]_vars => ManualInv'
<1> SUFFICES ASSUME IInv, ManualInv, Next PROVE ManualInv'
  BY DEF ManualInv, IsDispatch, vars
<1> SUFFICES ASSUME NEW f \in Fiber \ {"scheduler"}, IsDispatch(task'[f])
             PROVE  run'[task'[f].run].trigger = "manual"
  BY DEF ManualInv, IsDispatch
<1>1. Onward(f)
  BY NextOnward
<1>2. CASE Insert(f)
  <2> DEFINE r == First(Unused)
  <2>1. r \in Run /\ run \in [Run -> RunRow] /\ task[f].at = "insert" /\ task[f] \in TaskRow
    <3>1. Unused \in SUBSET Nat /\ Unused # {}
      BY <1>2, Numbers DEF Insert, Unused
    <3> QED
      BY <1>2, <3>1, FirstIsIn DEF Insert, At, Unused, IInv, TasksInv, StateInv, RunsTyped
  <2> HIDE DEF r
  <2>2. \/ task'[f] = Idle
        \/ /\ \E p, n, v, t : run' = [run EXCEPT ![r] =
                  [NoRun EXCEPT !.status = "pending", !.threaded = t, !.trigger = "manual",
                                !.scheduledFor = n, !.planned = p, !.version = v]]
           /\ \E a : task'[f] = [task[f] EXCEPT !.run = r, !.at = a]
    <3>1. task \in [Fiber -> TaskRow]
      BY DEF IInv, TasksInv
    <3> QED
      BY <1>2, <3>1, BecomesIt DEF Insert, r
  <2>3. task'[f] # Idle
    BY DEF Idle, IsDispatch, Dispatching
  <2>4. task'[f].run = r
    BY <2>1, <2>2, <2>3 DEF TaskRow
  <2>5. run'[r].trigger = "manual"
    BY <2>1, <2>2, <2>3 DEF NoRun
  <2> QED
    BY <2>4, <2>5
<1>3. CASE IsDispatch(task[f]) /\ task'[f].run = task[f].run
  <2>1. run[task[f].run].trigger = "manual"
    BY <1>3 DEF ManualInv
  <2>2. task[f].run \in Run /\ run[task[f].run].status # "none"
    <3>1. Sound(f, task[f])
      BY DEF IInv, TasksInv
    <3>2. IsHeld(task[f])
      BY <1>3, Numbers DEF IsDispatch, IsHeld, Holding
    <3> QED
      BY <3>1, <3>2 DEF Sound
  <2>3. SameOrigin(task[f].run)
    BY <2>2, OriginStays
  <2> QED
    BY <1>3, <2>1, <2>3 DEF SameOrigin
<1> QED
  BY <1>1, <1>2, <1>3 DEF Onward

(* Only the count of its run adds to the bill. *)
LEMMA BillStep ==
  ASSUME IInv, ManualInv, Next
  PROVE  \/ Bill' \subseteq Bill
         \/ /\ Bill' \subseteq Bill \cup {task["scheduler"].run}
            /\ Count("scheduler") /\ task["scheduler"].run \in Run
<1> DEFINE k == task["scheduler"]
<1>1. Onward("scheduler") /\ TurnsBegin /\ \A r \in Run : run[r].status # "none" => SameOrigin(r)
  BY Fibers, NextOnward, NextTurnsBegin, OriginStays
<1>2. \A f \in Fiber : task[f].at \in Dispatching => task[f].run \in Run /\ run[task[f].run].status # "none"
  BY DEF IInv, TasksInv, Sound, IsHeld, Holding
<1>3. ASSUME NEW r \in Run, Billed(r)'
      PROVE  r \in Bill
  <2>1. run'[r].trigger = "scheduled" /\ turn'[r] # "none"
    BY <1>3 DEF Billed
  <2>2. CASE turn[r] # "none"
    <3>1. run[r].status # "none"
      BY <2>2 DEF IInv, StateInv, NothingBefore
    <3> QED
      BY <1>1, <2>1, <2>2, <3>1 DEF SameOrigin, Bill, Billed
  <2>3. CASE turn[r] = "none"
    <3>1. PICK f \in Fiber : task[f].at = "send" /\ task[f].run = r
      BY <1>1, <2>1, <2>3 DEF TurnsBegin
    <3>2. IsDispatch(task[f]) /\ run[r].status # "none" /\ Counted(task[f])
      BY <1>2, <3>1 DEF IsDispatch, Counted, Dispatching
    <3>3. run[r].trigger = "scheduled"
      BY <1>1, <2>1, <3>2 DEF SameOrigin
    <3>4. f = "scheduler"
      BY <3>1, <3>2, <3>3 DEF ManualInv
    <3> QED
      BY <3>1, <3>2, <3>4 DEF Bill
  <2> QED
    BY <2>2, <2>3
<1>4. CASE ~Counted(k')
  BY <1>3, <1>4 DEF Bill
<1>5. CASE Counted(k') /\ Counted(k)
  <2>1. k'.run = k.run
    BY <1>1, <1>5 DEF Onward
  <2> QED
    BY <1>3, <1>5, <2>1 DEF Bill
<1>6. CASE Counted(k') /\ Count("scheduler")
  <2>1. k'.run = k.run
    BY <1>1, <1>6 DEF Onward
  <2>2. k.run \in Run
    BY <1>2, <1>6, Fibers DEF Count, At, Dispatching
  <2> QED
    BY <1>3, <1>6, <2>1, <2>2 DEF Bill
<1> QED
  BY <1>1, <1>4, <1>5, <1>6 DEF Onward

(* What becomes of the count of iterations and of the number of restarts. *)
Recounts ==
  \/ definition'.iterationCount = definition.iterationCount /\ history'.restarts = history.restarts
  \/ definition'.iterationCount = definition.iterationCount + 1 /\ history'.restarts = history.restarts
  \/ definition'.iterationCount = 0 /\ history'.restarts = history.restarts + 1

LEMMA WriteRecounts ==
  ASSUME IInv, NEW d, NEW now, Write(d, now)
  PROVE  definition' = d /\ history'.restarts = history.restarts
BY DEF IInv, RestTyped, Write

LEMMA CountCounts ==
  ASSUME IInv, NEW f \in Fiber, Count(f)
  PROVE  definition'.iterationCount = definition.iterationCount + 1 /\ history'.restarts = history.restarts
<1>1. definition \in Row
  BY DEF IInv, StateInv, RunsTyped
<1>2. /\ definition' = [definition EXCEPT !.iterationCount = @ + 1]
      /\ history'.restarts = history.restarts
  BY WriteRecounts DEF Count
<1> QED
  BY <1>1, <1>2 DEF Row

(* Every step counts one iteration, starts the loop again, or neither. *)
LEMMA NextRecounts ==
  ASSUME IInv, Next
  PROVE  Recounts
<1>1. /\ definition \in Row
      /\ history \in [restarts : Nat, late : Nat, stale : BOOLEAN, failed : BOOLEAN]
  BY DEF IInv, RestTyped, StateInv, RunsTyped
<1>2. ASSUME definition' = definition, history'.restarts = history.restarts
      PROVE  Recounts
  BY <1>2 DEF Recounts
<1>3. ASSUME definition' = Disabled(definition), history'.restarts = history.restarts
      PROVE  Recounts
  BY <1>1, <1>3 DEF Disabled, Row, Recounts
<1>4. ASSUME NEW f \in Fiber, Look(f) \/ Settles(f) \/ Interrupt(f)
      PROVE  Recounts
  <2>1. CASE Disable(f)
    BY <1>3, <2>1, WriteRecounts DEF Disable
  <2>2. CASE Look(f) \/ Mark(f) \/ Result(f) \/ Stop(f) \/ Interrupt(f)
    BY <1>2, <2>2 DEF Look, Mark, Result, Stop, Interrupt, store
  <2> QED
    BY <1>4, <2>1, <2>2 DEF Settles
<1>5. ASSUME NEW f \in Fiber, Dispatches(f)
      PROVE  Recounts
  <2>1. CASE Insert(f)
    <3>1. definition' = definition /\ (history' = history \/ history' = [history EXCEPT !.late = @ + 1])
      BY <2>1 DEF Insert
    <3> QED
      BY <1>1, <1>2, <3>1
  <2>2. CASE Count(f)
    BY <2>2, CountCounts DEF Recounts
  <2>3. CASE \/ NoneLeft(f) \/ Start(f) \/ CheckWorktree(f) \/ CreateWorktree(f) \/ CheckCreate(f)
             \/ CreateThread(f) \/ CheckSend(f) \/ Send(f) \/ CleanUp(f)
    BY <1>2, <2>3 DEF NoneLeft, Start, CheckWorktree, CreateWorktree, CheckCreate, CreateThread,
       CheckSend, Send, CleanUp, Checked, store
  <2> QED
    BY <1>5, <2>1, <2>2, <2>3 DEF Dispatches
<1>6. CASE Scheduler
  <2>1. CASE BeginPass \/ Each \/ EndReconcile \/ Due \/ AskThread \/ RecoverNext \/ EndRecovery
    BY <1>2, <2>1 DEF BeginPass, Each, EndReconcile, Due, AskThread, RecoverNext, EndRecovery, store
  <2>2. CASE Advance
    <3>1. /\ \/ definition' = Disabled(definition)
             \/ definition' = [definition EXCEPT !.nextRunAt = task["scheduler"].next]
          /\ history'.restarts = history.restarts
      BY <2>2, WriteRecounts DEF Advance
    <3>2. CASE definition' = [definition EXCEPT !.nextRunAt = task["scheduler"].next]
      BY <1>1, <3>1, <3>2 DEF Row, Recounts
    <3> QED
      BY <1>3, <3>1, <3>2
  <2> QED
    BY <1>4, <1>5, <1>6, <2>1, <2>2, Fibers DEF Scheduler
<1>7. CASE Reactor
  BY <1>2, <1>4, <1>7, Fibers DEF Reactor, Dequeue, Take, store
<1>8. CASE GoesOn
  <2>1. CASE DeleteNext \/ WriteRead
    BY <1>2, <2>1 DEF DeleteNext, WriteRead, store
  <2>2. CASE Archive
    <3>1. /\ definition' = [definition EXCEPT !.archived = TRUE, !.enabled = FALSE]
          /\ history'.restarts = history.restarts
      BY <2>2, WriteRecounts DEF Archive
    <3> QED
      BY <1>1, <3>1 DEF Row, Recounts
  <2>3. CASE Save
    <3>1. /\ task["user"].row \in Row
          /\ history'.restarts = history.restarts
      BY <1>1, <2>3, Fibers DEF Save, IInv, TasksInv, TaskRow
    <3>2. \E e, n, v : definition' = [task["user"].row EXCEPT !.enabled = e, !.nextRunAt = n,
                                        !.iterationCount = definition.iterationCount, !.version = v]
      BY <2>3 DEF Save
    <3> QED
      BY <3>1, <3>2 DEF Row, Recounts
  <2>4. CASE Restart
    <3>1. /\ \E e, n : definition' = [definition EXCEPT !.enabled = e, !.iterationCount = 0, !.nextRunAt = n]
          /\ \E l : history' = [history EXCEPT !.restarts = @ + 1, !.late = l]
      BY <2>4 DEF Restart
    <3> QED
      BY <1>1, <3>1 DEF Row, Recounts
  <2> QED
    BY <1>4, <1>5, <1>8, <2>1, <2>2, <2>3, <2>4, Fibers DEF GoesOn
<1>9. CASE Asks \/ Turns \/ Tick \/ LeaseExpires \/ Crash \/ Restarted
  BY <1>2, <1>9 DEF Asks, RunNow, Cancel, Delete, Read, Update, Request, Turns, StartTurn, Requeue,
     Promote, UserSends, GoalBegins, UserMay,
     AskUser, Answer, EndTurn, Tick, LeaseExpires, Crash, Restarted, store
<1>10. ASSUME NEW r \in Run, Checks(r)
       PROVE  Recounts
  <2>1. CASE StopLoop(r)
    BY <1>2, <1>3, <2>1 DEF StopLoop
  <2>2. CASE TakeCheck(r) \/ Evaluate(r) \/ Record(r) \/ EndCheck(r)
    BY <1>2, <2>2 DEF TakeCheck, Evaluate, Record, EndCheck, store
  <2> QED
    BY <1>10, <2>1, <2>2 DEF Checks
<1>11. ASSUME NEW f \in Fiber, DispatchFails(f) \/ Fails(f)
       PROVE  Recounts
  <2>1. definition' = definition /\ (history' = history \/ history' = [history EXCEPT !.failed = TRUE])
    BY <1>11 DEF DispatchFails, Fails, store
  <2> QED
    BY <1>1, <1>2, <2>1
<1> QED
  BY <1>6, <1>7, <1>8, <1>9, <1>10, <1>11 DEF Next

LEMMA BillCounts ==
  /\ IsFiniteSet(Bill) /\ Cardinality(Bill) \in Nat
<1>1. IsFiniteSet(1..MaxRun)
  BY RunsAssumption, FS_Interval
<1>2. Bill \subseteq 1..MaxRun
  BY DEF Bill, Run
<1> QED
  BY <1>1, <1>2, FS_Subset, FS_CardinalityType

(* The count is added to the bill and to the iterations at once. *)
LEMMA BillInvStep == IInv /\ ManualInv /\ BillInv /\ [Next]_vars => BillInv'
<1> SUFFICES ASSUME IInv, ManualInv, BillInv, Next, Limit' # 0
             PROVE  BillInv'
  <2>1. CASE UNCHANGED vars
    BY <2>1 DEF BillInv, Bill, Billed, Limit, vars
  <2> QED
    BY <2>1 DEF BillInv
<1>1. settings' = settings /\ Limit' = Limit
  BY NextCosts DEF Costs, Limit
<1> DEFINE n == Cardinality(Bill)
           m == Cardinality(Bill')
           c == definition.iterationCount
           d == definition'.iterationCount
           h == history.restarts
           i == history'.restarts
           chosen == Chosen(task["scheduler"])
<1>2. n \in Nat /\ m \in Nat /\ IsFiniteSet(Bill) /\ IsFiniteSet(Bill')
  <2>1. IsFiniteSet(Bill') /\ Cardinality(Bill') \in Nat
    <3>1. IsFiniteSet(1..MaxRun)
      BY RunsAssumption, FS_Interval
    <3>2. Bill' \subseteq 1..MaxRun
      BY DEF Bill, Run
    <3> QED
      BY <3>1, <3>2, FS_Subset, FS_CardinalityType
  <2> QED
    BY <2>1, BillCounts
<1>3. Limit \in Nat /\ c \in Nat /\ h \in Nat
  BY DEF IInv, RestTyped, Settings, StateInv, RunsTyped, Row, Limit
<1>4. \/ d = c /\ i = h
      \/ d = c + 1 /\ i = h
      \/ d = 0 /\ i = h + 1
  BY NextRecounts DEF Recounts
<1>5. \/ m <= n
      \/ m <= n + 1 /\ Count("scheduler")
  <2>1. CASE Bill' \subseteq Bill
    BY <1>2, <2>1, FS_Subset
  <2>2. CASE Bill' \subseteq Bill \cup {task["scheduler"].run} /\ Count("scheduler")
    <3>1. /\ IsFiniteSet(Bill \cup {task["scheduler"].run})
          /\ Cardinality(Bill \cup {task["scheduler"].run}) \in {n, n + 1}
      BY <1>2, FS_AddElement
    <3>2. m <= Cardinality(Bill \cup {task["scheduler"].run})
      BY <2>2, <3>1, FS_Subset
    <3> QED
      BY <1>2, <2>2, <3>1, <3>2
  <2> QED
    BY <2>1, <2>2, BillStep
<1>6. Count("scheduler") => d = c + 1 /\ i = h /\ chosen /\ ~chosen'
  <2>1. Count("scheduler") => task["scheduler"].at = "count" /\ task'["scheduler"].at = "start"
    <3>1. ASSUME Count("scheduler")
          PROVE  task'["scheduler"] = [Idle EXCEPT !.at = "start", !.run = task["scheduler"].run]
      <4>1. task \in [Fiber -> TaskRow]
        BY DEF IInv, TasksInv
      <4> QED
        BY <3>1, <4>1, Fibers, BecomesIt DEF Count
    <3> QED
      BY <3>1 DEF Count, At, Idle
  <2> QED
    BY <2>1, Fibers, CountCounts DEF Chosen
<1>7. chosen' => chosen \/ (d = c /\ i = h /\ c < Limit)
  <2>1. Onward("scheduler")
    BY Fibers, NextOnward
  <2>2. Limit # 0 /\ ~Exhausted(definition) => c < Limit
    BY <1>3 DEF Exhausted, Limit
  <2> QED
    BY <1>1, <2>1, <2>2 DEF Onward
<1>8. /\ n <= Limit * h + c
      /\ n <= Limit * h + Limit
      /\ chosen => n + 1 <= Limit * h + Limit
  BY <1>1 DEF BillInv
<1>9. Limit * h \in Nat /\ Limit * (h + 1) = Limit * h + Limit
  BY <1>3
<1> DEFINE b == Limit * h
           e == Limit * i
<1>10. (i = h => e = b) /\ (i = h + 1 => e = b + Limit) /\ b \in Nat
  BY <1>9
<1>11. ~chosen' \/ ~Count("scheduler")
  BY <1>6
<1> HIDE DEF n, m, c, d, h, i, b, e, chosen
<1>12. (n <= b + c) /\ (n <= b + Limit) /\ (chosen => n + 1 <= b + Limit)
  BY <1>8 DEF b
<1>13. m <= e + d /\ m <= e + Limit /\ (chosen' => m + 1 <= e + Limit)
  BY <1>2, <1>3, <1>4, <1>5, <1>6, <1>7, <1>10, <1>12
<1> QED
  BY <1>1, <1>13 DEF BillInv, n, m, c, d, h, i, b, e, chosen

(* The schedule gives the provider no more turns than maxIterations, for each
   time the loop was started: the limit is looked up, the run inserted, the
   schedule advanced and the run counted in writes of their own
   (automationScheduler.ts, runDueDefinition), and the user may run, restart or
   save in between. *)
THEOREM LoopIsBounded == Spec => []BoundedLoop
<1>1. Init => ManualInv /\ BillInv
  <2> SUFFICES ASSUME Init PROVE ManualInv /\ BillInv
    OBVIOUS
  <2>1. \A f \in Fiber : task[f] = Idle
    BY DEF Init
  <2>2. ManualInv
    BY <2>1 DEF ManualInv, Idle, IsDispatch, Dispatching
  <2>3. Bill = {}
    BY <2>1, Fibers, Numbers DEF Init, Bill, Billed, Counted, Idle, Dispatching, Turn
  <2>4. Cardinality(Bill) = 0
    BY <2>3, FS_EmptySet
  <2>5. Limit \in Nat /\ definition.iterationCount = 0 /\ history.restarts = 0 /\ ~Chosen(task["scheduler"])
    <3>1. IInv
      BY InitHolds
    <3> QED
      BY <2>1, <3>1, Fibers DEF Init, NoRow, IInv, RestTyped, Settings, Limit, Chosen, Idle
  <2>6. Limit * 0 = 0
    BY <2>5
  <2> QED
    BY <2>2, <2>4, <2>5, <2>6 DEF BillInv
<1>2. IInv /\ BillInv => BoundedLoop
  <2> SUFFICES ASSUME IInv, BillInv, settings.maxIterations # 0
               PROVE  Cardinality({r \in Run : Billed(r)}) <= Limit * (1 + history.restarts)
    BY DEF BoundedLoop, Limit, Billed
  <2>1. {r \in Run : Billed(r)} \subseteq Bill
    BY DEF Bill
  <2>2. Cardinality({r \in Run : Billed(r)}) <= Cardinality(Bill) /\ Cardinality({r \in Run : Billed(r)}) \in Nat
    BY <2>1, BillCounts, FS_Subset, FS_CardinalityType
  <2>3. Cardinality(Bill) <= Limit * history.restarts + Limit
    BY DEF BillInv, Limit
  <2>4. Limit \in Nat /\ history.restarts \in Nat
    BY DEF IInv, RestTyped, Settings, Limit
  <2>5. Limit * (1 + history.restarts) = Limit * history.restarts + Limit
    BY <2>4
  <2> QED
    BY <2>2, <2>3, <2>4, <2>5, BillCounts
<1> QED
  BY <1>1, <1>2, ManualStep, BillInvStep, Invariant, PTL DEF Spec

-----------------------------------------------------------------------------
(* Occurrences *)

Scheduled(r) == run[r].status # "none" /\ run[r].trigger = "scheduled"

OnceInv ==
  settings.misfirePolicy # "run-latest" =>
    /\ \A r \in Run : Scheduled(r) => run[r].scheduledFor = run[r].planned
    /\ \A r, s \in Run : r # s /\ Scheduled(r) /\ Scheduled(s) => run[r].scheduledFor # run[s].scheduledFor
    /\ task["scheduler"].at \in Deciding => ForItsTime(task["scheduler"])

(* A run that the scheduler inserts is for the time it decided on, and none was
   inserted for that before. *)
LEMMA InsertScheduled ==
  ASSUME IInv, NEW f \in Fiber, Insert(f), NEW r \in Run, r = First(Unused), Scheduled(r)'
  PROVE  /\ f = "scheduler"
         /\ run'[r].scheduledFor = task[f].slot
         /\ run'[r].planned = task[f].row.nextRunAt
         /\ \A s \in Run : Scheduled(s) => run[s].scheduledFor # task[f].slot
<1>1. run \in [Run -> RunRow] /\ task[f].at = "insert"
  BY DEF Insert, At, IInv, StateInv, RunsTyped
<1>2. run[r].status = "none"
  <2>1. Unused \in SUBSET Nat /\ Unused # {}
    BY Numbers DEF Insert, Unused
  <2> QED
    BY <2>1, FirstIsIn DEF Unused
<1>3. run' # run
  BY <1>1, <1>2 DEF Scheduled
<1>4. /\ f = "scheduler" => SameOccurrence(f) = {}
      /\ \E t, v : run' = [run EXCEPT ![r] =
             [NoRun EXCEPT !.status = "pending", !.threaded = t,
                !.trigger = IF f = "scheduler" THEN "scheduled" ELSE "manual",
                !.scheduledFor = IF f = "scheduler" THEN task[f].slot ELSE clock,
                !.planned = task[f].row.nextRunAt, !.version = v]]
  BY <1>3 DEF Insert
<1>5. /\ run'[r].trigger = IF f = "scheduler" THEN "scheduled" ELSE "manual"
      /\ run'[r].scheduledFor = IF f = "scheduler" THEN task[f].slot ELSE clock
      /\ run'[r].planned = task[f].row.nextRunAt
  BY <1>1, <1>4 DEF NoRun
<1> QED
  BY <1>4, <1>5 DEF Scheduled, SameOccurrence

LEMMA OnceStep == IInv /\ OnceInv /\ [Next]_vars => OnceInv'
<1> SUFFICES ASSUME IInv, OnceInv, Next, settings'.misfirePolicy # "run-latest"
             PROVE  OnceInv'
  <2>1. CASE UNCHANGED vars
    BY <2>1 DEF OnceInv, Scheduled, ForItsTime, vars
  <2> QED
    BY <2>1 DEF OnceInv
<1>1. settings' = settings
  BY NextCosts DEF Costs
<1>2. /\ \A r \in Run : Scheduled(r) => run[r].scheduledFor = run[r].planned
      /\ \A r, s \in Run : r # s /\ Scheduled(r) /\ Scheduled(s) => run[r].scheduledFor # run[s].scheduledFor
      /\ task["scheduler"].at \in Deciding => task["scheduler"].slot = task["scheduler"].row.nextRunAt
  BY <1>1 DEF OnceInv, ForItsTime
<1>3. task'["scheduler"].at \in Deciding => ForItsTime(task["scheduler"])'
  BY <1>1, <1>2, DecidesWhenDue DEF Decides, ForItsTime
<1>4. \A r \in Run : SameOrigin(r) => /\ Scheduled(r)' => Scheduled(r)
                                      /\ run'[r].scheduledFor = run[r].scheduledFor
                                      /\ run'[r].planned = run[r].planned
  BY DEF SameOrigin, Scheduled
<1>5. CASE \A r \in Run : SameOrigin(r)
  BY <1>2, <1>3, <1>4, <1>5 DEF OnceInv
<1>6. ASSUME NEW f \in Fiber, Insert(f), NEW n, n = First(Unused)
      PROVE  OnceInv'
  <2>1. \A r \in Run \ {n} : SameOrigin(r)
    <3>1. run \in [Run -> RunRow]
      BY DEF IInv, StateInv, RunsTyped
    <3>2. \A r \in Run \ {n} : run'[r] = run[r]
      BY <1>6, <3>1 DEF Insert
    <3> QED
      BY <3>2 DEF SameOrigin
  <2>2. n \in Run /\ Scheduled(n)' =>
          /\ run'[n].scheduledFor = run'[n].planned
          /\ \A s \in Run : Scheduled(s) => run[s].scheduledFor # run'[n].scheduledFor
    <3> SUFFICES ASSUME n \in Run, Scheduled(n)'
                 PROVE  /\ run'[n].scheduledFor = run'[n].planned
                        /\ \A s \in Run : Scheduled(s) => run[s].scheduledFor # run'[n].scheduledFor
      OBVIOUS
    <3>1. /\ f = "scheduler" /\ run'[n].scheduledFor = task[f].slot
          /\ run'[n].planned = task[f].row.nextRunAt
          /\ \A s \in Run : Scheduled(s) => run[s].scheduledFor # task[f].slot
      BY <1>6, InsertScheduled
    <3>2. task["scheduler"].at \in Deciding
      BY <1>6, <3>1 DEF Insert, At, Deciding
    <3> QED
      BY <1>2, <3>1, <3>2
  <2>3. \A r \in Run : Scheduled(r)' => run'[r].scheduledFor = run'[r].planned
    BY <1>2, <1>4, <2>1, <2>2 DEF Scheduled
  <2>4. \A r, s \in Run : r # s /\ Scheduled(r)' /\ Scheduled(s)' => run'[r].scheduledFor # run'[s].scheduledFor
    BY <1>2, <1>4, <2>1, <2>2 DEF Scheduled
  <2> QED
    BY <1>3, <2>3, <2>4 DEF OnceInv
<1> QED
  BY <1>5, <1>6, NextOriginsStay DEF OriginsStay

(* Unless a late run is planned anew for the time it was found, one planned time
   reaches the provider once, whatever crashes, fails or is retried, and whatever
   is saved meanwhile: the occurrence is unique in the table of runs
   (automationScheduler.ts, runDueDefinition). *)
THEOREM OncePerOccurrence == Spec => [](settings.misfirePolicy # "run-latest" => OccurrenceRunsOnce)
<1>1. Init => OnceInv
  <2> SUFFICES ASSUME Init PROVE OnceInv
    OBVIOUS
  <2>1. \A r \in Run : ~Scheduled(r)
    BY DEF Init, NoRun, Scheduled
  <2>2. task["scheduler"].at = "idle"
    BY Fibers DEF Init, Idle
  <2> QED
    BY <2>1, <2>2 DEF OnceInv, Deciding
<1>2. IInv /\ OnceInv => (settings.misfirePolicy # "run-latest" => OccurrenceRunsOnce)
  <2> SUFFICES ASSUME IInv, OnceInv, settings.misfirePolicy # "run-latest", NEW r \in Run, NEW s \in Run,
                      r # s, turn[r] # "none", turn[s] # "none",
                      run[r].trigger = "scheduled", run[s].trigger = "scheduled"
               PROVE  run[r].planned # run[s].planned
    BY DEF OccurrenceRunsOnce
  <2>1. Scheduled(r) /\ Scheduled(s)
    BY DEF Scheduled, IInv, StateInv, NothingBefore
  <2> QED
    BY <2>1 DEF OnceInv
<1> QED
  BY <1>1, <1>2, OnceStep, Invariant, PTL DEF Spec
===============================================================================
