-------------------------- MODULE AutomationRunsProofs --------------------------
(***************************************************************************)
(* What a run comes to is final and true, a thread carries one run at a    *)
(* time, and a stop check stops the loop it was asked about: for any       *)
(* automation, number of runs, crashes, faults and requests.               *)
(*                                                                         *)
(* A fiber writes what it concluded some steps before.  The invariant says *)
(* of the task of each fiber what still holds of its run when it comes to  *)
(* write, although others write in between: Sound, and Keeps for what the  *)
(* others may do.                                                          *)
(***************************************************************************)
EXTENDS AutomationRuns, WellFoundedInduction, TLAPS

(* The steps of a dispatch, which is on until the thread is given the turn or
   the run is given up, and all steps at which a fiber holds a run. *)
Dispatching == {"count", "start", "check-worktree", "worktree", "check-create", "create",
                "check-send", "send", "clean-up"}
Holding == Dispatching \cup {"mark", "result", "stop", "interrupt"}

IsDispatch(k) ==
  k.at \in Dispatching \/ (k.at = "advance" /\ k.plan = "start" /\ k.run # 0)
IsHeld(k) == k.at \in Holding \/ (k.at = "advance" /\ k.run # 0)

MarkPlans == {"wait", "resume", "succeed", "fail", "overrun", "give-up", "interrupt", "recover",
              "cancel", "skip"}

(* What is about to be written of a run follows from what it and its turn were,
   and still holds. *)
MarkIsTrue(f, k) ==
  /\ k.plan \in MarkPlans
  /\ k.plan = "skip" => ~run[k.run].threaded /\ f = "scheduler" /\ k.left = {}
  /\ k.plan = "recover" => f = "scheduler" /\ run[k.run].status # "skipped"
  /\ k.plan \notin {"skip", "recover", "cancel"} => run[k.run].threaded
  /\ Heartbeat /\ k.plan \in {"succeed", "wait"} => k.turn # 0
  /\ Heartbeat /\ k.plan \in {"succeed", "wait", "interrupt"} /\ k.turn # 0 =>
       carries[k.turn] = k.run
  /\ Heartbeat /\ k.plan = "succeed" => turn[k.turn] = "completed"

ListsRuns(f, k) ==
  /\ f = "scheduler" => \A r \in k.left : r \in Run /\ run[r].status \notin {"none", "skipped"}
  /\ f = "user" => \A r \in k.left : r \in Run /\ run[r].status # "none"

(* The task k of fiber f. *)
Sound(f, k) ==
  /\ IsHeld(k) => k.run \in Run /\ run[k.run].status # "none"
  /\ IsDispatch(k) => run[k.run].threaded /\ turn[k.run] = "none"
  /\ ListsRuns(f, k)
  /\ k.at = "mark" => MarkIsTrue(f, k)
  /\ k.at = "interrupt" => /\ k.plan \in {"overrun", "cancel"}
                           /\ k.plan = "overrun" => run[k.run].threaded
  /\ k.at \in {"ask", "insert", "restart"} =>
       /\ k.left = {} /\ f # "reactor"
       /\ k.plan \in {"start", "skip"} /\ (f = "user" => k.plan = "start")

TaskRow == [at : Steps, back : {"idle", "each", "delete", "done", "recover"}, run : Thread,
            plan : Plans, left : SUBSET Thread, row : Row, slot : Nat, next : Nat,
            turn : {0} \cup Turn, now : {0} \cup Time]

(* No two fibers dispatch the same run. *)
Apart(f, k) == \A g \in Fiber \ {f} : IsDispatch(k) /\ IsDispatch(task[g]) => k.run # task[g].run

TasksInv ==
  /\ task \in [Fiber -> TaskRow]
  /\ \A f \in Fiber : Sound(f, task[f]) /\ Apart(f, task[f])

StartedHasThread == \A r \in Run : run[r].startedAt # 0 => run[r].threaded

(* A stop check was asked about a run; as long as the row has the time of then,
   and did not get it back, it has the policy of then. *)
ChecksAreCurrent ==
  \A r \in Run : asked[r].time # 0 =>
    /\ run[r].status # "none"
    /\ asked[r].time = updatedAt /\ ~asked[r].again => run[r].version = definition.version

Statuses == Active \cup Terminal \cup {"none", "skipped"}
RunRow == [status : Statuses, trigger : {"scheduled", "manual"}, scheduledFor : Nat, planned : Nat,
           threaded : BOOLEAN, startedAt : Nat, evaluated : BOOLEAN, version : Nat,
           turn : {0} \cup Turn]

(* AutomationTypeOK without the tasks, in parts. *)
RunsTyped == run \in [Run -> RunRow] /\ definition \in Row
Began == {"running", "asking"} \cup Ended
TurnStates == {"none", "pending", "promoted", "queued", "lost"} \cup Began
RowsTyped ==
  /\ requested \in [Thread -> {0} \cup Turn] /\ carries \in [Turn -> {0} \cup Turn]
  /\ latest \in [Thread -> {0} \cup Turn] /\ guest \in Thread /\ crossed \in BOOLEAN
WorldTyped ==
  /\ turn \in [Turn -> TurnStates]
  /\ RowsTyped
  /\ worktree \in [Run -> {"none", "loose", "left", "attached"}]
  /\ created \subseteq Run
RestTyped ==
  /\ settings \in Settings /\ budget \in Budget
  /\ queued \subseteq Thread
  /\ updatedAt \in Time /\ asked \in [Run -> [time : {0} \cup Time, again : BOOLEAN]]
  /\ check \in [Run -> {"none", "queued", "evaluating", "stop", "record", "done"}]
  /\ lease \in BOOLEAN /\ up \in BOOLEAN /\ clock \in Nat
  /\ history \in [restarts : Nat, late : Nat, stale : BOOLEAN, failed : BOOLEAN]
NothingBefore ==
  \A r \in Run : run[r].status = "none" => turn[r] = "none" /\ r \notin created /\ worktree[r] = "none"
SkippedHasNone == \A r \in Run : run[r].status = "skipped" => ~run[r].threaded

(* Only the row of a turn that began has a message, and it is the message of that
   turn unless requests were crossed; until then what is requested in a thread is
   what waits to begin there. *)
CarriedBegan == \A u \in Turn : carries[u] # 0 => turn[u] \in Began
OwnUnlessCrossed ==
  ~crossed => \A u \in Turn : /\ carries[u] \in {0, u}
                              /\ turn[u] \in {"pending", "promoted"} => requested[Home(u)] = u
RunTurns == Heartbeat => \A r \in Run : run[r].turn # 0 => carries[run[r].turn] = r

StateInv ==
  /\ RunsTyped /\ WorldTyped /\ CarriedBegan /\ OwnUnlessCrossed /\ RunTurns
  /\ NothingBefore /\ SkippedHasNone
  /\ OneActivePerThread /\ StatusFollowsOwnTurn /\ StartedHasThread

IInv == RestTyped /\ StateInv /\ ChecksAreCurrent /\ TasksInv

-----------------------------------------------------------------------------
(* Numbers, tasks and lists *)

LEMMA Numbers ==
  /\ MaxRun \in Nat /\ Run \subseteq Thread /\ Run \subseteq Nat /\ Thread \subseteq Nat
  /\ 0 \in Thread /\ 0 \notin Run /\ UserTurn \notin Run /\ Turn = Run \cup {UserTurn}
  /\ UserTurn \in Turn /\ UserTurn # 0 /\ 0 \notin Turn /\ Run \subseteq Turn /\ Turn \subseteq Nat
  /\ 0 \notin Time /\ Time \subseteq Nat
  /\ \A r \in Thread : ThreadOf(r) \in Thread
BY RunsAssumption DEF Run, Thread, UserTurn, Turn, ThreadOf, Time

(* The time of a write is one that nobody holds. *)
LEMMA NowIs ==
  ASSUME ~Time \subseteq Held PROVE Now \in Time /\ Now \notin Held
BY DEF Now

(* First is an element: there is a least one in every set of numbers. *)
LEMMA FirstIsIn ==
  ASSUME NEW S \in SUBSET Nat, S # {}
  PROVE  First(S) \in S
<1> DEFINE R == OpToRel(<, Nat)
<1>1. \E x \in S : \A y \in S : ~ (<<y, x>> \in R)
  <2>1. IsWellFoundedOn(R, Nat)
    BY NatLessThanWellFounded
  <2> HIDE DEF R
  <2> QED
    BY <2>1, WFMin
<1>2. \A x, y \in Nat : x < y => <<x, y>> \in R
  BY DEF OpToRel
<1> HIDE DEF R
<1>3. \E x \in S : \A y \in S : x <= y
  BY <1>1, <1>2, \A x, y \in Nat : y < x \/ x <= y
<1> QED
  BY <1>3 DEF First

LEMMA IdleTyped == Idle \in TaskRow
BY Numbers DEF Idle, NoRow, TaskRow, Row, Steps, Plans

(* What remains typed, and what the task of f becomes. *)
Put(f, k) ==
  /\ task' \in [Fiber -> TaskRow]
  /\ task'[f] = k
  /\ \A g \in Fiber \ {f} : task'[g] = task[g]

LEMMA BecomesPuts ==
  ASSUME task \in [Fiber -> TaskRow], NEW f \in Fiber, NEW STATE k, k \in TaskRow, Becomes(f, k)
  PROVE  Put(f, k)
BY DEF Becomes, Put

LEMMA GoPuts ==
  ASSUME task \in [Fiber -> TaskRow], NEW f \in Fiber, NEW step \in Steps, Go(f, step)
  PROVE  Put(f, [task[f] EXCEPT !.at = step])
BY DEF Go, Put, TaskRow

LEMMA ReturnPuts ==
  ASSUME task \in [Fiber -> TaskRow], NEW f \in Fiber, Return(f)
  PROVE  Put(f, [Idle EXCEPT !.at = task[f].back, !.back = task[f].back, !.left = task[f].left])
<1>1. [Idle EXCEPT !.at = task[f].back, !.back = task[f].back, !.left = task[f].left] \in TaskRow
  <2>1. task[f] \in TaskRow
    OBVIOUS
  <2>2. {"idle", "each", "delete", "done", "recover"} \subseteq Steps
    BY DEF Steps
  <2> QED
    BY <2>1, <2>2, IdleTyped DEF TaskRow
<1> QED
  BY <1>1 DEF Return, Put

-----------------------------------------------------------------------------
(* What the others may do while a fiber is at a run *)

(* What completed stays so, and the row of a turn keeps its message. *)
RowsStay ==
  /\ \A u \in Turn : turn[u] = "completed" => turn'[u] = "completed"
  /\ \A u \in Turn : carries[u] # 0 => carries'[u] = carries[u]

Keeps(f) ==
  /\ settings' = settings
  /\ RowsStay
  /\ \A r \in Run : run[r].status # "none" =>
       /\ run'[r].status # "none"
       /\ run'[r].threaded = run[r].threaded
       /\ run[r].status # "skipped" /\ run'[r].status = "skipped" =>
            f = "scheduler" /\ task[f].left = {}
       /\ turn[r] = "none" /\ turn'[r] # "none" =>
            f \in Fiber /\ IsDispatch(task[f]) /\ r = task[f].run

LEMMA StillKeeps ==
  ASSUME NEW f, UNCHANGED <<settings, run, turn, rows>>
  PROVE  Keeps(f)
BY DEF Keeps, RowsStay, rows

LEMMA OthersSound ==
  ASSUME TasksInv, NEW f, Keeps(f), NEW g \in Fiber, g # f, task'[g] = task[g]
  PROVE  Sound(g, task[g])'
<1> USE DEF Heartbeat
<1>1. Sound(g, task[g]) /\ Apart(g, task[g]) /\ task[g] \in TaskRow
  BY DEF TasksInv
<1>2. (IsHeld(task[g]) <=> IsHeld(task[g])') /\ (IsDispatch(task[g]) <=> IsDispatch(task[g])')
  BY DEF IsHeld, IsDispatch
<1>3. IsHeld(task[g]) => task[g].run \in Run /\ run[task[g].run].status # "none"
  BY <1>1 DEF Sound
<1>4. IsDispatch(task[g]) => IsHeld(task[g])
  BY <1>1, Numbers DEF IsDispatch, IsHeld, Holding
<1>5. (IsHeld(task[g]) => task[g].run \in Run /\ run[task[g].run].status # "none")'
  BY <1>2, <1>3 DEF Keeps
<1>6. (IsDispatch(task[g]) => run[task[g].run].threaded /\ turn[task[g].run] = "none")'
  <2> SUFFICES ASSUME IsDispatch(task[g])
               PROVE  run'[task[g].run].threaded /\ turn'[task[g].run] = "none"
    BY <1>2
  <2>1. run[task[g].run].threaded /\ turn[task[g].run] = "none"
    BY <1>1 DEF Sound
  <2>2. f \in Fiber /\ IsDispatch(task[f]) => task[g].run # task[f].run
    BY <1>1 DEF Apart
  <2> QED
    BY <2>1, <2>2, <1>3, <1>4 DEF Keeps
<1>7. ListsRuns(g, task[g])'
  BY <1>1 DEF Sound, ListsRuns, Keeps
<1>8. (task[g].at = "mark" => MarkIsTrue(g, task[g]))'
  <2> SUFFICES ASSUME task[g].at = "mark" PROVE MarkIsTrue(g, task[g])'
    OBVIOUS
  <2>1. MarkIsTrue(g, task[g]) /\ IsHeld(task[g])
    BY <1>1 DEF Sound, IsHeld, Holding
  <2>2. run'[task[g].run].threaded = run[task[g].run].threaded /\ settings' = settings /\ RowsStay
        /\ (run[task[g].run].status # "skipped" /\ run'[task[g].run].status = "skipped" =>
              f = "scheduler" /\ task[f].left = {})
    BY <2>1, <1>3 DEF Keeps
  <2>3. task[g].turn \in {0} \cup Turn
    BY <1>1 DEF TaskRow
  <2> QED
    BY <2>1, <2>2, <2>3, <1>3, Numbers DEF MarkIsTrue, RowsStay
<1>9. (task[g].at = "interrupt" => /\ task[g].plan \in {"overrun", "cancel"}
                                   /\ task[g].plan = "overrun" => run[task[g].run].threaded)'
  BY <1>1, <1>3 DEF Sound, IsHeld, Holding, Keeps
<1> QED
  BY <1>1, <1>5, <1>6, <1>7, <1>8, <1>9 DEF Sound

(* The list of f itself, as far as it does not grow. *)
LEMMA OwnList ==
  ASSUME TasksInv, NEW f \in Fiber, Keeps(f), task'[f].left \subseteq task[f].left
  PROVE  ListsRuns(f, task[f])'
<1>1. ListsRuns(f, task[f])
  BY DEF TasksInv, Sound
<1> QED
  BY <1>1 DEF ListsRuns, Keeps

(* A task that begins no dispatch stays apart from the others. *)
LEMMA TaskStep ==
  ASSUME TasksInv, NEW f \in Fiber, Keeps(f), task' \in [Fiber -> TaskRow],
         \A g \in Fiber \ {f} : task'[g] = task[g],
         Sound(f, task[f])',
         IsDispatch(task[f])' =>
           \A g \in Fiber \ {f} : IsDispatch(task[g]) => task'[f].run # task[g].run
  PROVE  TasksInv'
<1>1. \A g \in Fiber : Sound(g, task[g])'
  BY OthersSound
<1>2. \A g \in Fiber \ {f} : IsDispatch(task[g]) <=> IsDispatch(task[g])'
  BY DEF IsDispatch
<1>3. \A g \in Fiber : Apart(g, task[g])'
  <2> TAKE g \in Fiber
  <2>1. CASE g = f
    BY <2>1, <1>2 DEF Apart
  <2>2. CASE g # f
    <3>1. \A h \in Fiber \ {g} :
             (IsDispatch(task[g]) /\ IsDispatch(task[h]))' => task'[g].run # task'[h].run
      <4> SUFFICES ASSUME NEW h \in Fiber \ {g}, (IsDispatch(task[g]) /\ IsDispatch(task[h]))'
                   PROVE  task'[g].run # task'[h].run
        OBVIOUS
      <4>1. CASE h = f
        BY <4>1, <2>2, <1>2
      <4>2. CASE h # f
        BY <4>2, <2>2, <1>2 DEF TasksInv, Apart
      <4> QED
        BY <4>1, <4>2
    <3> QED
      BY <3>1 DEF Apart
  <2> QED
    BY <2>1, <2>2
<1> QED
  BY <1>1, <1>3 DEF TasksInv

LEMMA NoTaskStep ==
  ASSUME TasksInv, Keeps("none"), task' = task
  PROVE  TasksInv'
<1>1. \A g \in Fiber : g # "none"
  BY DEF Fiber
<1>2. \A g \in Fiber : Sound(g, task[g])'
  BY <1>1, OthersSound
<1>3. \A g \in Fiber : Apart(g, task[g])'
  BY DEF TasksInv, Apart, IsDispatch
<1> QED
  BY <1>2, <1>3 DEF TasksInv

(* The usual ways on. *)
LEMMA ReturnStep ==
  ASSUME TasksInv, NEW f \in Fiber, Keeps(f), Return(f)
  PROVE  TasksInv'
<1>1. Put(f, [Idle EXCEPT !.at = task[f].back, !.back = task[f].back, !.left = task[f].left])
  BY ReturnPuts DEF TasksInv
<1>2. /\ task'[f].at = task[f].back /\ task'[f].left = task[f].left
      /\ task'[f].at \in {"idle", "each", "delete", "done", "recover"}
  <2>1. task[f] \in TaskRow
    BY DEF TasksInv
  <2> QED
    BY <1>1, <2>1 DEF Put, Idle, TaskRow
<1>3. ListsRuns(f, task[f])'
  BY <1>2, OwnList
<1>4. ~IsHeld(task[f])' /\ ~IsDispatch(task[f])'
  BY <1>2 DEF IsHeld, IsDispatch, Holding, Dispatching
<1>5. Sound(f, task[f])'
  BY <1>2, <1>3, <1>4 DEF Sound
<1> QED
  BY <1>1, <1>4, <1>5, TaskStep DEF Put

LEMMA IdleStep ==
  ASSUME TasksInv, NEW f \in Fiber, Keeps(f), NEW STATE k, k \in TaskRow, Becomes(f, k),
         k.at \in {"idle", "each", "delete", "done", "recover", "due", "disable", "look", "archive",
                   "save", "read"},
         k.left = {} \/ k.left \subseteq task[f].left
  PROVE  TasksInv'
<1>1. Put(f, k)
  BY BecomesPuts DEF TasksInv
<1>2. task'[f].at = k.at /\ task'[f].left \subseteq task[f].left
  BY <1>1 DEF Put
<1>3. ListsRuns(f, task[f])'
  BY <1>2, OwnList
<1>4. ~IsHeld(task[f])' /\ ~IsDispatch(task[f])'
  BY <1>2 DEF IsHeld, IsDispatch, Holding, Dispatching
<1>5. Sound(f, task[f])'
  BY <1>2, <1>3, <1>4 DEF Sound
<1> QED
  BY <1>1, <1>4, <1>5, TaskStep DEF Put

-----------------------------------------------------------------------------
(* Steps that change no run, turn, thread or worktree *)

LEMMA StateStill ==
  ASSUME StateInv, UNCHANGED <<settings, run, world>>, definition' \in Row
  PROVE  StateInv'
<1>1. RunsTyped' /\ WorldTyped'
  BY DEF StateInv, world, rows, RunsTyped, WorldTyped, RowsTyped
<1>2. CarriedBegan' /\ OwnUnlessCrossed' /\ RunTurns'
  BY DEF StateInv, world, rows, CarriedBegan, OwnUnlessCrossed, RunTurns, Home, ThreadOf, Heartbeat
<1>3. NothingBefore' /\ SkippedHasNone' /\ OneActivePerThread' /\ StartedHasThread'
  BY DEF StateInv, world, NothingBefore, SkippedHasNone, OneActivePerThread, StartedHasThread, IsActive,
         ThreadOf, Heartbeat
<1>4. StatusFollowsOwnTurn'
  BY DEF StateInv, world, rows, StatusFollowsOwnTurn, Heartbeat
<1> QED
  BY <1>1, <1>2, <1>3, <1>4 DEF StateInv

(* A stop check that was queued is of the definition as it is, until that changes. *)
LEMMA ChecksStill ==
  ASSUME ChecksAreCurrent, UNCHANGED <<asked, updatedAt, run, definition>>
  PROVE  ChecksAreCurrent'
BY DEF ChecksAreCurrent

LEMMA NoChecks ==
  ASSUME asked' = [r \in Run |-> NotAsked]
  PROVE  /\ ChecksAreCurrent'
         /\ asked' \in [Run -> [time : {0} \cup Time, again : BOOLEAN]]
<1>1. NotAsked \in [time : {0} \cup Time, again : BOOLEAN] /\ NotAsked.time = 0
  BY DEF NotAsked
<1> QED
  BY <1>1 DEF ChecksAreCurrent

LEMMA StillStep ==
  ASSUME IInv, RestTyped', UNCHANGED <<settings, store, world, asked, updatedAt>>, TasksInv'
  PROVE  IInv'
BY StateStill, ChecksStill DEF IInv, store, StateInv, RunsTyped

LEMMA PublishTyped ==
  ASSUME RestTyped, NEW t \in Thread, Publish(t)
  PROVE  queued' \subseteq Thread
BY DEF Publish, RestTyped

LEMMA InThreadIn == \A t : InThread(t) \subseteq Run
BY DEF InThread

(* A write under a time nobody holds, or under one a fiber wrote before and
   with the policy as it is. *)
LEMMA StampTyped ==
  ASSUME IInv, NEW now \in Time, Stamp(now), RunsTyped', \A r \in Run : run[r].status # "none" =>
           run'[r].status # "none" /\ run'[r].version = run[r].version,
         now \notin Held \/ definition'.version = definition.version
  PROVE  /\ ChecksAreCurrent' /\ updatedAt' \in Time
         /\ asked' \in [Run -> [time : {0} \cup Time, again : BOOLEAN]]
<1>1. /\ updatedAt' = now /\ asked \in [Run -> [time : {0} \cup Time, again : BOOLEAN]]
      /\ updatedAt \in Time
  BY DEF Stamp, IInv, RestTyped
<1>2. \A r \in Run :
        /\ asked'[r] = IF asked[r].time = now /\ updatedAt # now
                       THEN [asked[r] EXCEPT !.again = TRUE] ELSE asked[r]
        /\ asked[r] \in [time : {0} \cup Time, again : BOOLEAN]
  BY <1>1 DEF Stamp
<1>3. \A r \in Run : /\ asked'[r] \in [time : {0} \cup Time, again : BOOLEAN]
                     /\ asked'[r].time = asked[r].time
                     /\ asked'[r].again = (asked[r].again \/ (asked[r].time = now /\ updatedAt # now))
  BY <1>2
<1>4. asked' \in [Run -> [time : {0} \cup Time, again : BOOLEAN]]
  <2>1. asked' = [r \in Run |-> asked'[r]]
    BY DEF Stamp
  <2> QED
    BY <1>3, <2>1
<1>5. ASSUME NEW r \in Run, asked'[r].time # 0
      PROVE  /\ run'[r].status # "none"
             /\ asked'[r].time = updatedAt' /\ ~asked'[r].again => run'[r].version = definition'.version
  <2>1. /\ run[r].status # "none"
        /\ asked[r].time = updatedAt /\ ~asked[r].again => run[r].version = definition.version
    BY <1>3, <1>5 DEF IInv, ChecksAreCurrent
  <2>2. CASE now \notin Held
    BY <1>1, <1>3, <2>1, <2>2 DEF Held
  <2>3. CASE definition'.version = definition.version
    BY <1>1, <1>3, <2>1, <2>3
  <2> QED
    BY <2>2, <2>3
<1> QED
  BY <1>1, <1>4, <1>5 DEF ChecksAreCurrent

LEMMA WriteStep ==
  ASSUME IInv, NEW d \in Row, NEW now \in Time, Write(d, now),
         UNCHANGED <<run, world, check, queued, outside>>, TasksInv',
         now \notin Held \/ d.version = definition.version
  PROVE  IInv'
<1>1. definition' = d /\ Stamp(now) /\ UNCHANGED <<run, settings>>
  BY DEF Write, outside
<1>2. StateInv'
  BY <1>1, StateStill DEF IInv
<1>3. /\ ChecksAreCurrent' /\ updatedAt' \in Time
      /\ asked' \in [Run -> [time : {0} \cup Time, again : BOOLEAN]]
  BY <1>1, <1>2, StampTyped DEF StateInv
<1>4. history' \in [restarts : Nat, late : Nat, stale : BOOLEAN, failed : BOOLEAN]
  BY DEF IInv, RestTyped, Write
<1>5. RestTyped'
  BY <1>3, <1>4 DEF IInv, RestTyped, outside
<1> QED
  BY <1>2, <1>3, <1>5 DEF IInv

(* The usual case, of a new time. *)
LEMMA NewWriteStep ==
  ASSUME IInv, NEW d \in Row, Write(d, Now), UNCHANGED <<run, world, check, queued, outside>>, TasksInv'
  PROVE  IInv'
<1>1. Now \in Time /\ Now \notin Held
  BY NowIs DEF Write, Stamp
<1> QED
  BY <1>1, WriteStep

LEMMA NowStep ==
  ASSUME IInv, Stamp(Now), definition' \in Row, UNCHANGED <<settings, run, world, check, queued, outside>>,
         history' \in [restarts : Nat, late : Nat, stale : BOOLEAN, failed : BOOLEAN], TasksInv'
  PROVE  IInv'
<1>1. Now \in Time /\ Now \notin Held
  BY NowIs DEF Stamp
<1>2. StateInv'
  BY StateStill DEF IInv
<1>3. /\ ChecksAreCurrent' /\ updatedAt' \in Time
      /\ asked' \in [Run -> [time : {0} \cup Time, again : BOOLEAN]]
  BY <1>1, <1>2, StampTyped DEF StateInv
<1>4. RestTyped'
  BY <1>3 DEF IInv, RestTyped, outside
<1> QED
  BY <1>2, <1>3, <1>4 DEF IInv

LEMMA DisabledTyped == \A d \in Row : Disabled(d) \in Row
BY DEF Row, Disabled

(* Found by the message in the row of a turn: what Look is about to write is true
   of the run. *)
LEMMA PlanIsTrue ==
  ASSUME StateInv, NEW r \in Run, NEW u \in Judged(r), Plan(r, u) # "nothing"
  PROVE  /\ Plan(r, u) \in {"wait", "resume", "succeed", "fail", "interrupt"}
         /\ u \in {0} \cup Turn
         /\ Heartbeat /\ Plan(r, u) \in {"succeed", "wait"} => u # 0
         /\ Heartbeat /\ u # 0 => carries[u] = r
         /\ Heartbeat /\ Plan(r, u) = "succeed" => turn[u] = "completed"
<1>1. Plan(r, u) \in {"wait", "resume", "succeed", "fail", "interrupt"}
  BY DEF Plan
<1>2. u \in {0} \cup Turn /\ (Heartbeat /\ u # 0 => carries[u] = r)
  <2>1. CASE ~Heartbeat
    BY <2>1, Numbers DEF Judged, StateInv, WorldTyped, RowsTyped
  <2>2. CASE Heartbeat /\ run[r].turn # 0
    BY <2>2 DEF Judged, StateInv, RunTurns, RunsTyped, RunRow
  <2>3. CASE Heartbeat /\ run[r].turn = 0
    BY <2>3 DEF Judged, Rows
  <2> QED
    BY <2>1, <2>2, <2>3
<1>3. Plan(r, u) = "wait" => OwnsInput(u)
  BY DEF Plan
<1>4. Plan(r, u) = "succeed" => u # 0 /\ turn[u] = "completed"
  BY DEF Plan
<1> QED
  BY <1>1, <1>2, <1>3, <1>4 DEF OwnsInput

LEMMA LookStep ==
  ASSUME IInv, NEW f \in Fiber, Look(f)
  PROVE  IInv'
<1>0. Keeps(f)
  BY StillKeeps DEF Look, store, world, outside
<1>1. CASE Return(f)
  <2>1. TasksInv'
    BY <1>0, <1>1, ReturnStep DEF IInv
  <2> QED
    BY <2>1, StillStep DEF Look, IInv, RestTyped, store, world, checks, outside
<1>2. CASE ~Return(f)
  <2> DEFINE t == ThreadOf(task[f].run)
             r == First(InThread(t))
             k(u) == [task[f] EXCEPT !.at = "mark", !.run = r, !.plan = Plan(r, u), !.turn = u]
  <2>1. PICK u \in Judged(r) : Plan(r, u) # "nothing" /\ Becomes(f, k(u))
    BY <1>2 DEF Look
  <2>2. InThread(t) # {}
    BY <1>2 DEF Look
  <2>3. r \in InThread(t)
    BY <2>2, InThreadIn, Numbers, FirstIsIn
  <2>4. r \in Run /\ run[r].threaded /\ run[r].status # "none"
    BY <2>3 DEF InThread, IsActive, Active
  <2> HIDE DEF r
  <2>5. /\ Plan(r, u) \in {"wait", "resume", "succeed", "fail", "interrupt"}
        /\ u \in {0} \cup Turn
        /\ Heartbeat /\ Plan(r, u) \in {"succeed", "wait"} => u # 0
        /\ Heartbeat /\ u # 0 => carries[u] = r
        /\ Heartbeat /\ Plan(r, u) = "succeed" => turn[u] = "completed"
    BY <2>1, <2>4, PlanIsTrue DEF IInv
  <2>6. k(u) \in TaskRow
    <3>1. task[f] \in TaskRow /\ r \in Thread
      BY <2>4, Numbers DEF IInv, TasksInv
    <3>2. "mark" \in Steps /\ Plan(r, u) \in Plans
      BY <2>5 DEF Steps, Plans
    <3> QED
      BY <2>5, <3>1, <3>2 DEF TaskRow
  <2>7. Put(f, k(u))
    BY <2>1, <2>6, BecomesPuts DEF IInv, TasksInv
  <2>8. task'[f].at = "mark" /\ task'[f].run = r /\ task'[f].plan = Plan(r, u)
        /\ task'[f].turn = u /\ task'[f].left = task[f].left
    BY <2>7 DEF Put, IInv, TasksInv, TaskRow
  <2>9. UNCHANGED <<settings, run, turn, carries>>
    BY DEF Look, store, world, rows, outside
  <2> DEFINE plan == Plan(r, u)
  <2>10. MarkIsTrue(f, task[f])'
    <3>1. task'[f].plan = plan /\ plan \in {"wait", "resume", "succeed", "fail", "interrupt"}
      BY <2>5, <2>8
    <3> HIDE DEF plan
    <3> QED
      BY <2>4, <2>5, <2>8, <2>9, <3>1 DEF MarkIsTrue, MarkPlans, Heartbeat, plan
  <2>11. ListsRuns(f, task[f])'
    BY <1>0, <2>8, OwnList DEF IInv
  <2>12. Sound(f, task[f])' /\ ~IsDispatch(task[f])'
    BY <2>4, <2>8, <2>9, <2>10, <2>11 DEF Sound, IsHeld, IsDispatch, Dispatching
  <2>13. TasksInv'
    BY <1>0, <2>7, <2>12, TaskStep DEF IInv, Put
  <2> QED
    BY <2>13, StillStep DEF Look, IInv, RestTyped, store, world, checks, outside
<1> QED
  BY <1>1, <1>2

(* What is asked now is of the definition as it is. *)
LEMMA AskIs ==
  ASSUME IInv, NEW found \in SUBSET Run, Ask(found), UNCHANGED <<run, definition, updatedAt>>,
         \A r \in found : run[r].status # "none" /\ run[r].version = definition.version
  PROVE  /\ ChecksAreCurrent'
         /\ asked' \in [Run -> [time : {0} \cup Time, again : BOOLEAN]]
<1>1. /\ asked \in [Run -> [time : {0} \cup Time, again : BOOLEAN]] /\ updatedAt \in Time
  BY DEF IInv, RestTyped
<1>2. [time |-> updatedAt, again |-> FALSE] \in [time : {0} \cup Time, again : BOOLEAN]
  BY <1>1
<1>3. asked' \in [Run -> [time : {0} \cup Time, again : BOOLEAN]]
  BY <1>1, <1>2 DEF Ask
<1>4. \A r \in Run : (r \in found) \/ asked'[r] = asked[r]
  BY DEF Ask
<1> QED
  BY <1>3, <1>4 DEF IInv, ChecksAreCurrent

LEMMA StopStep ==
  ASSUME IInv, NEW f \in Fiber, Stop(f)
  PROVE  IInv'
<1>0. Keeps(f)
  BY StillKeeps DEF Stop, store, world, outside
<1>1. TasksInv'
  <2>1. CASE Go(f, "disable")
    <3>1. Put(f, [task[f] EXCEPT !.at = "disable"])
      BY <2>1, GoPuts DEF IInv, TasksInv, Steps
    <3>2. task'[f].at = "disable" /\ task'[f].left = task[f].left
      BY <3>1 DEF Put, IInv, TasksInv, TaskRow
    <3>3. ListsRuns(f, task[f])'
      BY <1>0, <3>2, OwnList DEF IInv
    <3>4. Sound(f, task[f])' /\ ~IsDispatch(task[f])'
      BY <3>2, <3>3 DEF Sound, IsHeld, IsDispatch, Holding, Dispatching
    <3> QED
      BY <1>0, <3>1, <3>4, TaskStep DEF IInv, Put
  <2>2. CASE Return(f)
    BY <1>0, <2>2, ReturnStep DEF IInv
  <2> QED
    BY <2>1, <2>2 DEF Stop
<1>2. task[f].run \in Run /\ run[task[f].run].status # "none"
  BY DEF Stop, At, IInv, TasksInv, Sound, IsHeld, Holding
<1>3. RestTyped' /\ ChecksAreCurrent'
  <2>1. CASE UNCHANGED checks
    BY <2>1, ChecksStill DEF Stop, IInv, RestTyped, store, outside, checks
  <2>2. CASE ~UNCHANGED checks
    <3>1. /\ check' = [check EXCEPT ![task[f].run] = "queued"] /\ Ask({task[f].run})
          /\ run[task[f].run].version = definition.version
      BY <2>2 DEF Stop, checks
    <3>2. /\ ChecksAreCurrent'
          /\ asked' \in [Run -> [time : {0} \cup Time, again : BOOLEAN]]
      BY <1>2, <3>1, AskIs DEF Stop, store
    <3> QED
      BY <1>2, <3>1, <3>2 DEF Stop, IInv, RestTyped, store, outside
  <2> QED
    BY <2>1, <2>2
<1>4. StateInv'
  BY StateStill DEF Stop, IInv, StateInv, RunsTyped, store, outside
<1> QED
  BY <1>1, <1>3, <1>4 DEF IInv

LEMMA DisableStep ==
  ASSUME IInv, NEW f \in Fiber, Disable(f)
  PROVE  IInv'
<1>1. TasksInv'
  BY StillKeeps, ReturnStep DEF Disable, world, outside, IInv
<1>2. Disabled(definition) \in Row
  BY DisabledTyped DEF IInv, StateInv, RunsTyped
<1> QED
  BY <1>1, <1>2, NewWriteStep DEF Disable

LEMMA InterruptStep ==
  ASSUME IInv, NEW f \in Fiber, Interrupt(f)
  PROVE  IInv'
<1>0. Keeps(f)
  BY StillKeeps DEF Interrupt, store, world, outside
<1>1. TasksInv'
  <2>1. CASE Return(f)
    BY <1>0, <2>1, ReturnStep DEF IInv
  <2>2. CASE task[f].plan = "overrun" /\ Go(f, "mark")
    <3>1. Put(f, [task[f] EXCEPT !.at = "mark"])
      BY <2>2, GoPuts DEF IInv, TasksInv, Steps
    <3>2. task'[f].at = "mark" /\ task'[f].left = task[f].left /\ task'[f].run = task[f].run
          /\ task'[f].plan = "overrun"
      BY <2>2, <3>1 DEF Put, IInv, TasksInv, TaskRow
    <3>3. ListsRuns(f, task[f])'
      BY <1>0, <3>2, OwnList DEF IInv
    <3>4. Sound(f, task[f]) /\ task[f].at = "interrupt"
      BY DEF Interrupt, At, IInv, TasksInv
    <3>5. run' = run
      BY DEF Interrupt, store
    <3>6. Sound(f, task[f])' /\ ~IsDispatch(task[f])'
      BY <2>2, <3>2, <3>3, <3>4, <3>5
         DEF Sound, IsHeld, IsDispatch, Holding, Dispatching, MarkIsTrue, MarkPlans
    <3> QED
      BY <1>0, <3>1, <3>6, TaskStep DEF IInv, Put
  <2> QED
    BY <2>1, <2>2 DEF Interrupt
<1>2. RestTyped'
  <2>1. task[f].run \in Thread
    BY DEF IInv, TasksInv, TaskRow
  <2>2. queued' \subseteq Thread
    BY <2>1, Numbers, PublishTyped DEF Interrupt, IInv, RestTyped
  <2> QED
    BY <2>2 DEF Interrupt, IInv, RestTyped, checks, outside
<1> QED
  BY <1>1, <1>2, StillStep DEF Interrupt, store, checks, outside

-----------------------------------------------------------------------------
(* Steps that write a row of a run *)

(* What a mark makes of a status. *)
LEMMA MarkedIs ==
  ASSUME NEW plan \in MarkPlans \cup {"start"}, NEW s \in Statuses
  PROVE  LET m == Marked(plan, s)
         IN /\ m \in Statuses
            /\ s # "none" => m # "none"
            /\ s \in Terminal => m = s
            /\ m \in Active => s \in Active
            /\ m = "skipped" => s = "skipped" \/ plan = "skip"
            /\ s = "skipped" /\ plan \in {"skip", "cancel"} => m = "skipped"
            /\ m = "succeeded" => s = "succeeded" \/ plan = "succeed"
            /\ m = "waiting-for-approval" => s = "waiting-for-approval" \/ plan = "wait"
<1> USE DEF Marked, Unless, Statuses, Terminal, Active
<1>1. CASE plan = "wait"
  BY <1>1
<1>2. CASE plan \in {"resume", "start"}
  BY <1>2
<1>3. CASE plan = "succeed"
  BY <1>3
<1>4. CASE plan \in {"fail", "overrun", "give-up"}
  BY <1>4
<1>5. CASE plan \in {"interrupt", "recover"}
  BY <1>5
<1>6. CASE plan = "cancel"
  BY <1>6
<1>7. CASE plan = "skip"
  BY <1>7
<1> QED
  BY <1>1, <1>2, <1>3, <1>4, <1>5, <1>6, <1>7 DEF MarkPlans

(* Only the row of r, which was inserted before, is written. *)
Rewritten(r) ==
  /\ run' \in [Run -> RunRow]
  /\ \A q \in Run \ {r} : run'[q] = run[q]
  /\ run'[r].threaded = run[r].threaded /\ run'[r].version = run[r].version
  /\ run'[r].status # "none"
  /\ run'[r].status \in Active => run[r].status \in Active

(* The two halves of StatusFollowsOwnTurn, and what carries them. *)
Succeeds(r) == \E u \in Turn : turn[u] = "completed" /\ carries[u] = r /\ (u = r \/ crossed)
Waits(r) == \E u \in Turn : carries[u] = r /\ (u = r \/ crossed)

LEMMA OwnTurn ==
  ASSUME StateInv, NEW r \in Run, NEW u \in Turn, carries[u] = r
  PROVE  Waits(r) /\ (turn[u] = "completed" => Succeeds(r))
<1>1. u = r \/ crossed
  BY Numbers DEF StateInv, OwnUnlessCrossed
<1> QED
  BY <1>1 DEF Waits, Succeeds

LEMMA StatusIs ==
  StatusFollowsOwnTurn <=>
    (Heartbeat => \A r \in Run : /\ run[r].status = "succeeded" => Succeeds(r)
                                 /\ run[r].status = "waiting-for-approval" => Waits(r))
BY DEF StatusFollowsOwnTurn, Succeeds, Waits

LEMMA RowStep ==
  ASSUME StateInv, ChecksAreCurrent,
         NEW r \in Run, run[r].status # "none", Rewritten(r),
         run'[r].status = "skipped" => ~run[r].threaded,
         Heartbeat /\ run'[r].status = "succeeded" => Succeeds(r),
         Heartbeat /\ run'[r].status = "waiting-for-approval" => Waits(r),
         Heartbeat /\ run'[r].turn # 0 => carries[run'[r].turn] = r,
         run'[r].startedAt # 0 => run[r].threaded,
         UNCHANGED <<settings, definition, world, asked, updatedAt>>
  PROVE  StateInv' /\ ChecksAreCurrent'
<1> USE DEF StateInv, Rewritten, world, rows, Heartbeat
<1>1. RunsTyped' /\ WorldTyped' /\ CarriedBegan' /\ OwnUnlessCrossed' /\ RunTurns'
  <2>1. RunsTyped' /\ WorldTyped'
    BY DEF RunsTyped, WorldTyped, RowsTyped
  <2>2. CarriedBegan' /\ OwnUnlessCrossed'
    BY DEF CarriedBegan, OwnUnlessCrossed, Home, ThreadOf
  <2>3. RunTurns'
    BY DEF RunTurns
  <2> QED
    BY <2>1, <2>2, <2>3
<1>2. NothingBefore' /\ SkippedHasNone' /\ StartedHasThread'
  BY DEF NothingBefore, SkippedHasNone, StartedHasThread
<1>3. OneActivePerThread'
  <2>1. \A q \in Run : IsActive(q)' => IsActive(q)
    BY DEF IsActive
  <2>2. \A q \in Run : run'[q].threaded = run[q].threaded
    OBVIOUS
  <2> QED
    BY <2>1, <2>2 DEF OneActivePerThread, ThreadOf
<1>4. StatusFollowsOwnTurn'
  <2>1. \A q \in Run : (Succeeds(q) <=> Succeeds(q)') /\ (Waits(q) <=> Waits(q)')
    BY DEF Succeeds, Waits
  <2>2. Heartbeat => \A q \in Run : /\ run'[q].status = "succeeded" => Succeeds(q)
                                    /\ run'[q].status = "waiting-for-approval" => Waits(q)
    BY StatusIs
  <2>3. (Heartbeat => \A q \in Run : /\ run[q].status = "succeeded" => Succeeds(q)
                                     /\ run[q].status = "waiting-for-approval" => Waits(q))'
    BY <2>1, <2>2
  <2> QED
    BY <2>3 DEF StatusFollowsOwnTurn, Succeeds, Waits
<1>5. ChecksAreCurrent'
  BY DEF ChecksAreCurrent, RunsTyped
<1> QED
  BY <1>1, <1>2, <1>3, <1>4, <1>5

(* A mark, seen from its own fiber. *)
LEMMA MarkWrites ==
  ASSUME IInv, NEW f \in Fiber, Mark(f)
  PROVE  LET r == task[f].run
             s == run[r].status
             m == Marked(task[f].plan, s)
         IN /\ r \in Run /\ s # "none"
            /\ Rewritten(r) /\ run'[r].status = m /\ run'[r].startedAt = run[r].startedAt
            /\ s \in Terminal \cup {"skipped"} => m = s
            /\ m = "skipped" => ~run[r].threaded
            /\ m = "skipped" /\ s # "skipped" => f = "scheduler" /\ task[f].left = {}
            /\ Heartbeat /\ m = "succeeded" => Succeeds(r)
            /\ Heartbeat /\ m = "waiting-for-approval" => Waits(r)
            /\ Heartbeat /\ run'[r].turn # 0 => carries[run'[r].turn] = r
<1> DEFINE r == task[f].run
           s == run[r].status
           m == Marked(task[f].plan, s)
<1>1. Sound(f, task[f]) /\ task[f].at = "mark"
  BY DEF Mark, At, IInv, TasksInv
<1>2. r \in Run /\ s # "none" /\ MarkIsTrue(f, task[f])
  BY <1>1 DEF Sound, IsHeld, Holding
<1> DEFINE to == IF /\ task[f].plan \in {"wait", "succeed", "interrupt"}
                    /\ m # s /\ task[f].turn # 0 THEN task[f].turn ELSE run[r].turn
<1>3. /\ run \in [Run -> RunRow] /\ run' = [run EXCEPT ![r].status = m, ![r].turn = to]
      /\ to \in {0} \cup Turn
  <2>1. run \in [Run -> RunRow] /\ task[f] \in TaskRow
    BY DEF IInv, StateInv, RunsTyped, TasksInv
  <2>2. run' = [run EXCEPT ![r].status = m, ![r].turn = to]
    BY <1>2, <2>1 DEF Mark
  <2>3. task[f].turn \in {0} \cup Turn /\ run[r].turn \in {0} \cup Turn
    BY <1>2, <2>1 DEF TaskRow, RunRow
  <2> QED
    BY <2>1, <2>2, <2>3
<1>4. s \in Statuses /\ task[f].plan \in MarkPlans
  BY <1>2, <1>3 DEF RunRow, MarkIsTrue
<1>5. /\ m \in Statuses /\ m # "none"
      /\ s \in Terminal => m = s
      /\ m \in Active => s \in Active
      /\ m = "skipped" => s = "skipped" \/ task[f].plan = "skip"
      /\ s = "skipped" /\ task[f].plan \in {"skip", "cancel"} => m = "skipped"
      /\ m = "succeeded" => s = "succeeded" \/ task[f].plan = "succeed"
      /\ m = "waiting-for-approval" => s = "waiting-for-approval" \/ task[f].plan = "wait"
  BY <1>2, <1>4, MarkedIs
<1> HIDE DEF m, to
<1>6. /\ Rewritten(r) /\ run'[r].status = m /\ run'[r].startedAt = run[r].startedAt
      /\ run'[r].turn = to
  <2>1. run[r] \in RunRow
    BY <1>2, <1>3
  <2>2. run'[r] = [run[r] EXCEPT !.status = m, !.turn = to]
    BY <1>2, <1>3, <2>1 DEF RunRow
  <2>3. [run[r] EXCEPT !.status = m, !.turn = to] \in RunRow
    BY <1>3, <1>5, <2>1 DEF RunRow
  <2>4. run' \in [Run -> RunRow] /\ \A q \in Run \ {r} : run'[q] = run[q]
    BY <1>2, <1>3, <2>2, <2>3
  <2> QED
    BY <1>5, <2>1, <2>2, <2>4 DEF Rewritten, RunRow
<1>7. s = "skipped" => ~run[r].threaded
  BY <1>2 DEF IInv, StateInv, SkippedHasNone
<1>8. s = "skipped" => m = s
  BY <1>2, <1>5, <1>7 DEF MarkIsTrue
<1>9. m = "skipped" => ~run[r].threaded
  BY <1>2, <1>5, <1>7 DEF MarkIsTrue
<1>10. Heartbeat => /\ s = "succeeded" => Succeeds(r)
                    /\ s = "waiting-for-approval" => Waits(r)
                    /\ run[r].turn # 0 => carries[run[r].turn] = r
  BY <1>2, StatusIs DEF IInv, StateInv, RunTurns
<1>11. /\ Heartbeat /\ m = "succeeded" => Succeeds(r)
       /\ Heartbeat /\ m = "waiting-for-approval" => Waits(r)
       /\ Heartbeat /\ to # 0 => carries[to] = r
  <2>1. task[f].turn \in {0} \cup Turn /\ StateInv
    BY DEF IInv, TasksInv, TaskRow
  <2>2. Heartbeat /\ task[f].plan = "succeed" => Succeeds(r)
    BY <1>2, <2>1, OwnTurn DEF MarkIsTrue
  <2>3. Heartbeat /\ task[f].plan = "wait" => Waits(r)
    BY <1>2, <2>1, OwnTurn DEF MarkIsTrue
  <2>4. Heartbeat /\ to # 0 => carries[to] = r
    BY <1>2, <1>10 DEF MarkIsTrue, to
  <2> QED
    BY <1>5, <1>10, <2>2, <2>3, <2>4
<1>12. m = "skipped" /\ s # "skipped" => f = "scheduler" /\ task[f].left = {}
  BY <1>2, <1>5 DEF MarkIsTrue
<1>13. Heartbeat /\ run'[r].turn # 0 => carries[run'[r].turn] = r
  BY <1>6, <1>11
<1> QED
  BY <1>2, <1>5, <1>6, <1>8, <1>9, <1>11, <1>12, <1>13 DEF m

LEMMA MarkStep ==
  ASSUME IInv, NEW f \in Fiber, Mark(f)
  PROVE  IInv'
<1> DEFINE r == task[f].run
<1>1. UNCHANGED <<settings, definition, world, checks, queued, outside, history>>
  BY DEF Mark, outside
<1>2. /\ r \in Run /\ run[r].status # "none" /\ Rewritten(r)
      /\ run'[r].status = "skipped" => ~run[r].threaded
      /\ run'[r].status = "skipped" /\ run[r].status # "skipped" =>
           f = "scheduler" /\ task[f].left = {}
      /\ Heartbeat /\ run'[r].status = "succeeded" => Succeeds(r)
      /\ Heartbeat /\ run'[r].status = "waiting-for-approval" => Waits(r)
      /\ Heartbeat /\ run'[r].turn # 0 => carries[run'[r].turn] = r
      /\ run'[r].startedAt = run[r].startedAt
  BY MarkWrites
<1>3. run'[r].startedAt # 0 => run[r].threaded
  BY <1>2 DEF IInv, StateInv, StartedHasThread
<1>4. StateInv' /\ ChecksAreCurrent'
  BY <1>1, <1>2, <1>3, RowStep DEF IInv, checks
<1>5. Keeps(f)
  BY <1>1, <1>2 DEF Keeps, RowsStay, Rewritten, world, rows
<1>6. RestTyped'
  BY <1>1 DEF IInv, RestTyped, outside, checks
<1>7. TasksInv'
  <2>1. CASE Return(f)
    BY <1>5, <2>1, ReturnStep DEF IInv
  <2> DEFINE s == Marked(task[f].plan, run[r].status)
             k == [task[f] EXCEPT !.at = "stop", !.plan = s]
  <2>2. CASE Becomes(f, k)
    <3>1. task[f] \in TaskRow /\ s \in Statuses
      BY <1>2, MarkWrites DEF IInv, TasksInv, Rewritten, RunRow
    <3>2. "stop" \in Steps /\ s \in Plans
      BY <3>1 DEF Statuses, Plans, Steps
    <3>3. k \in TaskRow
      BY <3>1, <3>2 DEF TaskRow
    <3>4. Put(f, k)
      BY <2>2, <3>3, BecomesPuts DEF IInv, TasksInv
    <3>5. task'[f].at = "stop" /\ task'[f].run = r /\ task'[f].left = task[f].left
      BY <3>1, <3>4 DEF Put, TaskRow
    <3>6. ListsRuns(f, task[f])'
      BY <1>5, <3>5, OwnList DEF IInv
    <3>7. Sound(f, task[f])' /\ ~IsDispatch(task[f])'
      BY <1>2, <3>5, <3>6 DEF Sound, IsHeld, IsDispatch, Dispatching, Rewritten
    <3> QED
      BY <1>5, <3>4, <3>7, TaskStep DEF IInv, Put
  <2>3. CASE Go(f, "result")
    <3>1. Put(f, [task[f] EXCEPT !.at = "result"])
      BY <2>3, GoPuts DEF IInv, TasksInv, Steps
    <3>2. task'[f].at = "result" /\ task'[f].run = r /\ task'[f].left = task[f].left
      BY <3>1 DEF Put, IInv, TasksInv, TaskRow
    <3>3. ListsRuns(f, task[f])'
      BY <1>5, <3>2, OwnList DEF IInv
    <3>4. Sound(f, task[f])' /\ ~IsDispatch(task[f])'
      BY <1>2, <3>2, <3>3 DEF Sound, IsHeld, IsDispatch, Dispatching, Rewritten
    <3> QED
      BY <1>5, <3>1, <3>4, TaskStep DEF IInv, Put
  <2> QED
    BY <2>1, <2>2, <2>3 DEF Mark
<1> QED
  BY <1>4, <1>6, <1>7 DEF IInv

LEMMA ResultStep ==
  ASSUME IInv, NEW f \in Fiber, Result(f)
  PROVE  IInv'
<1> DEFINE r == task[f].run
<1>1. UNCHANGED <<settings, definition, world, checks, queued, outside, history>>
  BY DEF Result, outside
<1>2. r \in Run /\ run[r].status # "none" /\ task[f].at = "result" /\ Sound(f, task[f])
  BY DEF Result, At, IInv, TasksInv, Sound, IsHeld, Holding
<1>3. run \in [Run -> RunRow] /\ run' = [run EXCEPT ![r].evaluated = FALSE]
  BY DEF Result, IInv, StateInv, RunsTyped
<1>4. /\ Rewritten(r) /\ run'[r].status = run[r].status /\ run'[r].startedAt = run[r].startedAt
      /\ run'[r].turn = run[r].turn
  BY <1>2, <1>3 DEF Rewritten, RunRow
<1>5. StateInv' /\ ChecksAreCurrent'
  <2>1. /\ run[r].status = "skipped" => ~run[r].threaded
        /\ Heartbeat /\ run[r].status = "succeeded" => Succeeds(r)
        /\ Heartbeat /\ run[r].status = "waiting-for-approval" => Waits(r)
        /\ Heartbeat /\ run[r].turn # 0 => carries[run[r].turn] = r
        /\ run[r].startedAt # 0 => run[r].threaded
    BY <1>2, StatusIs DEF IInv, StateInv, SkippedHasNone, RunTurns, StartedHasThread
  <2> QED
    BY <1>1, <1>2, <1>4, <2>1, RowStep DEF IInv, checks
<1>6. Keeps(f)
  BY <1>1, <1>2, <1>4 DEF Keeps, RowsStay, Rewritten, world, rows
<1>7. RestTyped'
  BY <1>1 DEF IInv, RestTyped, outside, checks
<1>8. TasksInv'
  <2>1. CASE Return(f)
    BY <1>6, <2>1, ReturnStep DEF IInv
  <2> DEFINE k == [task[f] EXCEPT !.at = "stop", !.plan = run[r].status]
  <2>2. CASE Becomes(f, k)
    <3>1. task[f] \in TaskRow /\ run[r].status \in Statuses
      BY <1>2, <1>3 DEF IInv, TasksInv, RunRow
    <3>2. "stop" \in Steps /\ run[r].status \in Plans
      BY <3>1 DEF Statuses, Plans, Steps
    <3>3. k \in TaskRow
      BY <3>1, <3>2 DEF TaskRow
    <3>4. Put(f, k)
      BY <2>2, <3>3, BecomesPuts DEF IInv, TasksInv
    <3>5. task'[f].at = "stop" /\ task'[f].run = r /\ task'[f].left = task[f].left
      BY <3>1, <3>4 DEF Put, TaskRow
    <3>6. ListsRuns(f, task[f])'
      BY <1>6, <3>5, OwnList DEF IInv
    <3>7. Sound(f, task[f])' /\ ~IsDispatch(task[f])'
      BY <1>2, <1>4, <3>5, <3>6 DEF Sound, IsHeld, IsDispatch, Dispatching
    <3> QED
      BY <1>6, <3>4, <3>7, TaskStep DEF IInv, Put
  <2>3. ASSUME NEW step \in {"interrupt", "advance"}, Go(f, step),
               task[f].plan = IF step = "interrupt" THEN "cancel" ELSE "skip"
        PROVE  TasksInv'
    <3>1. Put(f, [task[f] EXCEPT !.at = step])
      BY <2>3, GoPuts DEF IInv, TasksInv, Steps
    <3>2. task'[f].at = step /\ task'[f].run = r /\ task'[f].left = task[f].left
          /\ task'[f].plan = task[f].plan
      BY <3>1 DEF Put, IInv, TasksInv, TaskRow
    <3>3. ListsRuns(f, task[f])'
      BY <1>6, <3>2, OwnList DEF IInv
    <3>4. Sound(f, task[f])' /\ ~IsDispatch(task[f])'
      BY <1>2, <1>4, <2>3, <3>2, <3>3 DEF Sound, IsHeld, IsDispatch, Dispatching
    <3> QED
      BY <1>6, <3>1, <3>4, TaskStep DEF IInv, Put
  <2> QED
    BY <2>1, <2>2, <2>3 DEF Result
<1> QED
  BY <1>5, <1>7, <1>8 DEF IInv

-----------------------------------------------------------------------------
(* The pass of the scheduler *)

(* A step of f alone that goes to a task k with nothing to hold. *)
LEMMA PlainStep ==
  ASSUME IInv, NEW f \in Fiber, NEW STATE k, k \in TaskRow, Becomes(f, k),
         k.at \in {"idle", "each", "delete", "done", "recover", "due", "disable", "look", "archive",
                   "save", "read"},
         k.left = {} \/ k.left \subseteq task[f].left,
         RestTyped', UNCHANGED <<settings, store, world, asked, updatedAt>>
  PROVE  IInv'
<1>1. Keeps(f)
  BY StillKeeps DEF store, world
<1>2. TasksInv'
  BY <1>1, IdleStep DEF IInv
<1> QED
  BY <1>2, StillStep

(* A list of runs that are there, to be gone through. *)
LEMMA ListStep ==
  ASSUME IInv, NEW f \in {"scheduler", "user"}, NEW at \in {"each", "delete", "recover"},
         Becomes(f, [Idle EXCEPT !.at = at, !.back = at, !.left = ActiveRuns]),
         Keeps(f), run' = run
  PROVE  TasksInv'
<1> DEFINE k == [Idle EXCEPT !.at = at, !.back = at, !.left = ActiveRuns]
<1>1. ActiveRuns \in SUBSET Thread /\ \A r \in ActiveRuns : r \in Run /\ run[r].status \in Active
  BY Numbers DEF ActiveRuns, IsActive
<1>2. k \in TaskRow
  BY <1>1, IdleTyped DEF TaskRow, Steps
<1>3. f \in Fiber
  BY DEF Fiber
<1>4. Put(f, k)
  BY <1>2, <1>3, BecomesPuts DEF IInv, TasksInv
<1>5. task'[f].at = at /\ task'[f].left = ActiveRuns
  BY <1>4, IdleTyped DEF Put, TaskRow
<1>6. ListsRuns(f, task[f])'
  BY <1>1, <1>5 DEF ListsRuns, Active
<1>7. Sound(f, task[f])' /\ ~IsDispatch(task[f])'
  BY <1>5, <1>6 DEF Sound, IsHeld, IsDispatch, Holding, Dispatching
<1> QED
  BY <1>3, <1>4, <1>7, TaskStep DEF IInv, Put

LEMMA BeginPassStep ==
  ASSUME IInv, BeginPass
  PROVE  IInv'
<1>1. UNCHANGED <<settings, store, world, checks, queued, outside, history>>
  BY DEF BeginPass, outside
<1>2. Keeps("scheduler")
  BY <1>1, StillKeeps DEF store, world
<1>3. TasksInv'
  BY <1>1, <1>2, ListStep DEF BeginPass, ToReconcile, store
<1>4. RestTyped'
  BY <1>1 DEF IInv, RestTyped, outside, checks
<1> QED
  BY <1>1, <1>3, <1>4, StillStep DEF checks

(* The next of the list is a run that is there. *)
LEMMA NextOfList ==
  ASSUME IInv, NEW f \in {"scheduler", "user"}, task[f].left # {}
  PROVE  LET r == First(task[f].left)
         IN /\ r \in task[f].left /\ r \in Run /\ run[r].status # "none"
            /\ f = "scheduler" => run[r].status # "skipped"
<1>1. f \in Fiber
  BY DEF Fiber
<1>2. task[f].left \in SUBSET Nat
  BY <1>1, Numbers DEF IInv, TasksInv, TaskRow
<1>3. First(task[f].left) \in task[f].left
  BY <1>2, FirstIsIn
<1>4. ListsRuns(f, task[f])
  BY <1>1 DEF IInv, TasksInv, Sound
<1> QED
  BY <1>3, <1>4 DEF ListsRuns

(* ... and f goes to look at it, to interrupt it or to mark it. *)
LEMMA HoldStep ==
  ASSUME IInv, NEW f \in {"scheduler", "user"}, NEW r \in Run, run[r].status # "none",
         NEW at \in {"look", "interrupt", "mark"}, NEW plan \in Plans,
         NEW STATE k, k \in TaskRow, Becomes(f, k),
         k.at = at, k.plan = plan, k.run = r, k.left \subseteq task[f].left,
         at = "interrupt" => plan = "overrun" /\ run[r].threaded,
         at = "mark" => plan = "cancel" \/ (plan = "recover" /\ f = "scheduler" /\ run[r].status # "skipped"),
         UNCHANGED <<settings, run, turn, rows>>
  PROVE  TasksInv'
<1>1. f \in Fiber
  BY DEF Fiber
<1>2. Keeps(f)
  BY StillKeeps
<1>3. Put(f, k)
  BY <1>1, BecomesPuts DEF IInv, TasksInv
<1>4. task'[f].at = at /\ task'[f].run = r /\ task'[f].plan = plan /\ task'[f].left \subseteq task[f].left
  BY <1>3 DEF Put
<1>5. ListsRuns(f, task[f])'
  BY <1>1, <1>2, <1>4, OwnList DEF IInv
<1>6. at = "mark" => MarkIsTrue(f, task[f])'
  BY <1>4 DEF MarkIsTrue, MarkPlans
<1>7. Sound(f, task[f])' /\ ~IsDispatch(task[f])'
  BY <1>4, <1>5, <1>6 DEF Sound, IsHeld, IsDispatch, Dispatching, Holding
<1> QED
  BY <1>1, <1>2, <1>3, <1>7, TaskStep DEF IInv, Put

LEMMA EachStep ==
  ASSUME IInv, Each
  PROVE  IInv'
<1> DEFINE f == "scheduler"
           r == First(task[f].left)
           rest == [task[f] EXCEPT !.left = @ \ {r}, !.run = r]
<1>1. UNCHANGED <<settings, store, world, checks, queued, outside, history>>
  BY DEF Each, outside
<1>2. RestTyped'
  BY <1>1 DEF IInv, RestTyped, outside, checks
<1>3. f \in Fiber /\ f \in {"scheduler", "user"} /\ task[f].at = "each" /\ task[f].left # {}
  BY DEF Fiber, Each, At
<1>4. r \in Run /\ run[r].status # "none"
  BY <1>3, NextOfList
<1> HIDE DEF r
<1>5. task[f] \in TaskRow /\ r \in Thread
  BY <1>3, <1>4, Numbers DEF IInv, TasksInv
<1>6. rest \in TaskRow /\ rest.left \subseteq task[f].left /\ rest.run = r /\ rest.at = "each"
  BY <1>3, <1>5 DEF TaskRow
<1>7. CASE Overrun(r)
  <2> DEFINE k == [rest EXCEPT !.at = "interrupt", !.plan = "overrun"]
  <2>1. Becomes(f, k)
    BY <1>7 DEF Each, r
  <2>2. "interrupt" \in Steps /\ "overrun" \in Plans
    BY DEF Steps, Plans
  <2>3. k \in TaskRow /\ k.at = "interrupt" /\ k.plan = "overrun" /\ k.run = r
        /\ k.left \subseteq task[f].left
    BY <1>6, <2>2 DEF TaskRow
  <2>4. run[r].threaded
    BY <1>4, <1>7 DEF Overrun, IInv, StateInv, StartedHasThread
  <2>5. TasksInv'
    <3> HIDE DEF k, rest, f
    <3> QED
      BY <1>1, <1>3, <1>4, <2>1, <2>2, <2>3, <2>4, HoldStep DEF store, world
  <2> QED
    BY <1>1, <1>2, <2>5, StillStep DEF checks
<1>8. CASE ~Overrun(r) /\ run[r].threaded
  <2> DEFINE k == [rest EXCEPT !.at = "look"]
  <2>1. Becomes(f, k)
    BY <1>8 DEF Each, r
  <2>2. "look" \in Steps
    BY DEF Steps
  <2>3. k \in TaskRow /\ k.at = "look" /\ k.left \subseteq task[f].left
    BY <1>6, <2>2 DEF TaskRow
  <2> QED
    BY <1>1, <1>2, <1>3, <2>1, <2>3, PlainStep DEF checks
<1>9. CASE ~Overrun(r) /\ ~run[r].threaded
  <2> DEFINE k == [rest EXCEPT !.run = 0]
  <2>1. Becomes(f, k)
    BY <1>9 DEF Each, r
  <2>2. k \in TaskRow /\ k.at = "each" /\ k.left \subseteq task[f].left
    BY <1>6, Numbers DEF TaskRow
  <2> QED
    BY <1>1, <1>2, <1>3, <2>1, <2>2, PlainStep DEF checks
<1> QED
  BY <1>7, <1>8, <1>9

(* Checks that are queued are of the definition as it is. *)
LEMMA EnqueueKeeps ==
  ASSUME IInv, EnqueuePending, UNCHANGED <<run, definition, updatedAt>>
  PROVE  /\ ChecksAreCurrent'
         /\ asked' \in [Run -> [time : {0} \cup Time, again : BOOLEAN]]
         /\ check' \in [Run -> {"none", "queued", "evaluating", "stop", "record", "done"}]
<1> DEFINE found == {r \in Run : Pending(r) /\ check[r] = "none"}
<1>1. Ask(found) /\ \A r \in found : run[r].status # "none" /\ run[r].version = definition.version
  BY DEF EnqueuePending, Pending
<1>2. check' \in [Run -> {"none", "queued", "evaluating", "stop", "record", "done"}]
  BY DEF EnqueuePending, IInv, RestTyped
<1>3. found \in SUBSET Run
  OBVIOUS
<1> HIDE DEF found
<1> QED
  BY <1>1, <1>2, <1>3, AskIs

LEMMA EndReconcileStep ==
  ASSUME IInv, EndReconcile
  PROVE  IInv'
<1>1. UNCHANGED <<settings, store, world, updatedAt, queued, outside, history>>
  BY DEF EndReconcile, outside
<1>2. ChecksAreCurrent' /\ RestTyped'
  BY <1>1, EnqueueKeeps DEF EndReconcile, IInv, RestTyped, store, outside
<1>3. [Idle EXCEPT !.at = "due"] \in TaskRow /\ [Idle EXCEPT !.at = "due"].at = "due"
      /\ [Idle EXCEPT !.at = "due"].left = {}
  BY IdleTyped DEF TaskRow, Steps, Idle
<1>4. TasksInv'
  BY <1>1, <1>3, StillKeeps, IdleStep DEF EndReconcile, IInv, Fiber, store, world
<1> QED
  BY <1>1, <1>2, <1>4, StateStill DEF IInv, StateInv, RunsTyped, store

(* The scheduler or a user is about to insert a run. *)
LEMMA BeginStep ==
  ASSUME IInv, NEW f \in {"scheduler", "user"}, NEW STATE k, k \in TaskRow, Becomes(f, k),
         k.at \in {"ask", "insert", "restart"}, k.left = {}, k.plan \in {"start", "skip"},
         f = "user" => k.plan = "start",
         RestTyped', UNCHANGED <<settings, store, world, asked, updatedAt>>
  PROVE  IInv'
<1>1. f \in Fiber /\ f # "reactor"
  BY DEF Fiber
<1>2. Keeps(f)
  BY StillKeeps DEF store, world
<1>3. Put(f, k)
  BY <1>1, BecomesPuts DEF IInv, TasksInv
<1>4. /\ task'[f].at \in {"ask", "insert", "restart"} /\ task'[f].left = {}
      /\ task'[f].plan \in {"start", "skip"} /\ (f = "user" => task'[f].plan = "start")
  BY <1>3 DEF Put
<1>5. Sound(f, task[f])' /\ ~IsDispatch(task[f])'
  BY <1>1, <1>4 DEF Sound, ListsRuns, IsHeld, IsDispatch, Holding, Dispatching
<1>6. TasksInv'
  BY <1>1, <1>2, <1>3, <1>5, TaskStep DEF IInv, Put
<1> QED
  BY <1>6, StillStep

LEMMA NextTyped == \A from, now \in Nat : NextAfter(from, now) \in Nat /\ NextFrom(now) \in Nat
BY DEF NextAfter, NextFrom

LEMMA DueStep ==
  ASSUME IInv, Due
  PROVE  IInv'
<1> DEFINE missed == definition.nextRunAt < clock
           slot == IF missed /\ settings.misfirePolicy = "run-latest" THEN clock
                   ELSE definition.nextRunAt
           found == [Idle EXCEPT !.row = definition, !.slot = slot, !.next = NextAfter(slot, clock)]
           gone == [Idle EXCEPT !.at = "disable"]
           skips == [found EXCEPT !.at = "insert", !.plan = "skip"]
           runs == [found EXCEPT !.at = IF Heartbeat THEN "ask" ELSE "insert", !.plan = "start"]
<1>1. UNCHANGED <<settings, store, world, checks, queued, outside, history>>
  BY DEF Due, outside
<1>2. RestTyped'
  BY <1>1 DEF IInv, RestTyped, outside, checks
<1>3. "scheduler" \in Fiber
  BY DEF Fiber
<1>4. slot \in Nat /\ definition \in Row
  BY DEF IInv, StateInv, RunsTyped, RestTyped, Row
<1>5. NextAfter(slot, clock) \in Nat
  BY <1>4, NextTyped DEF IInv, RestTyped
<1>6. found \in TaskRow /\ found.left = {}
  BY <1>4, <1>5, IdleTyped DEF TaskRow, Idle
<1>7. \/ Becomes("scheduler", Idle) \/ Becomes("scheduler", gone)
      \/ Becomes("scheduler", skips) \/ Becomes("scheduler", runs)
  BY DEF Due
<1>8. {"idle", "disable", "insert", "ask"} \subseteq Steps /\ {"skip", "start"} \subseteq Plans
  BY DEF Steps, Plans
<1>9. Idle \in TaskRow /\ Idle.at = "idle" /\ Idle.left = {}
  BY IdleTyped DEF Idle
<1>10. gone \in TaskRow /\ gone.at = "disable" /\ gone.left = {}
  BY <1>8, <1>9 DEF TaskRow
<1>11. skips \in TaskRow /\ skips.at = "insert" /\ skips.left = {} /\ skips.plan = "skip"
  BY <1>6, <1>8 DEF TaskRow
<1>12. runs \in TaskRow /\ runs.at \in {"ask", "insert"} /\ runs.left = {} /\ runs.plan = "start"
  BY <1>6, <1>8 DEF TaskRow
<1> HIDE DEF found, gone, skips, runs
<1>13. CASE Becomes("scheduler", Idle)
  BY <1>1, <1>2, <1>3, <1>9, <1>13, PlainStep DEF checks
<1>14. CASE Becomes("scheduler", gone)
  BY <1>1, <1>2, <1>3, <1>10, <1>14, PlainStep DEF checks
<1>15. CASE Becomes("scheduler", skips)
  BY <1>1, <1>2, <1>11, <1>15, BeginStep DEF checks
<1>16. CASE Becomes("scheduler", runs)
  BY <1>1, <1>2, <1>12, <1>16, BeginStep DEF checks
<1> QED
  BY <1>7, <1>13, <1>14, <1>15, <1>16

LEMMA AskThreadStep ==
  ASSUME IInv, AskThread
  PROVE  IInv'
<1> DEFINE f == "scheduler"
           plan == IF InThread(0) # {} THEN "skip" ELSE "start"
           k == [task["scheduler"] EXCEPT !.at = "insert", !.plan = plan]
<1>1. UNCHANGED <<settings, store, world, checks, queued, outside, history>>
  BY DEF AskThread, outside
<1>2. RestTyped'
  BY <1>1 DEF IInv, RestTyped, outside, checks
<1>3. "scheduler" \in Fiber
  BY DEF Fiber
<1>4. CASE Return("scheduler")
  <2>1. TasksInv'
    BY <1>1, <1>3, <1>4, StillKeeps, ReturnStep DEF IInv, store, world
  <2> QED
    BY <1>1, <1>2, <2>1, StillStep DEF checks
<1>5. CASE Becomes("scheduler", k)
  <2>1. task["scheduler"] \in TaskRow /\ task["scheduler"].left = {}
    BY <1>3 DEF AskThread, At, IInv, TasksInv, Sound
  <2>2. "insert" \in Steps /\ plan \in Plans /\ plan \in {"start", "skip"}
    BY DEF Steps, Plans
  <2> HIDE DEF plan
  <2>3. k \in TaskRow /\ k.at = "insert" /\ k.left = {} /\ k.plan \in {"start", "skip"}
    BY <2>1, <2>2 DEF TaskRow
  <2> QED
    BY <1>1, <1>2, <1>5, <2>3, BeginStep DEF checks
<1> QED
  BY <1>4, <1>5 DEF AskThread

-----------------------------------------------------------------------------
(* The dispatch *)

LEMMA DispatchHolds ==
  ASSUME TasksInv, NEW f \in Fiber, IsDispatch(task[f])
  PROVE  /\ task[f].run \in Run /\ run[task[f].run].status # "none"
         /\ run[task[f].run].threaded /\ turn[task[f].run] = "none"
<1>1. Sound(f, task[f])
  BY DEF TasksInv
<1>2. IsHeld(task[f])
  <2>1. Dispatching \subseteq Holding
    BY DEF Holding
  <2> QED
    BY <2>1 DEF IsDispatch, IsHeld
<1> QED
  BY <1>1, <1>2 DEF Sound

LEMMA DispatchOn ==
  ASSUME TasksInv, NEW f \in Fiber, IsDispatch(task[f]), Keeps(f), NEW step \in Dispatching,
         \/ Go(f, step)
         \/ step = "start" /\ Becomes(f, [Idle EXCEPT !.at = "start", !.run = task[f].run])
         \/ step = "count" /\ \E now \in Time : Becomes(f, [task[f] EXCEPT !.at = "count", !.now = now]),
         turn'[task[f].run] = "none"
  PROVE  TasksInv'
<1> DEFINE r == task[f].run
           s == [Idle EXCEPT !.at = "start", !.run = r]
<1>1. r \in Run /\ run[r].status # "none" /\ run[r].threaded
  BY DispatchHolds
<1>2. run'[r].status # "none" /\ run'[r].threaded
  BY <1>1 DEF Keeps
<1>3. step \in Steps
  BY DEF Steps, Dispatching
<1>4. s \in TaskRow
  BY <1>1, Numbers, IdleTyped DEF TaskRow, Steps
<1>5. /\ task' \in [Fiber -> TaskRow] /\ \A g \in Fiber \ {f} : task'[g] = task[g]
      /\ task'[f].at = step /\ task'[f].run = r /\ task'[f].left \subseteq task[f].left
  <2>1. CASE Go(f, step)
    <3>1. Put(f, [task[f] EXCEPT !.at = step]) /\ task[f] \in TaskRow
      BY <2>1, <1>3, GoPuts DEF TasksInv
    <3> QED
      BY <3>1 DEF Put, TaskRow
  <2>2. CASE step = "start" /\ Becomes(f, s)
    <3>1. Put(f, s)
      BY <2>2, <1>4, BecomesPuts DEF TasksInv
    <3>2. s.at = "start" /\ s.run = r /\ s.left = {}
      BY DEF Idle
    <3> QED
      BY <2>2, <3>1, <3>2 DEF Put
  <2>3. ASSUME step = "count", NEW now \in Time, Becomes(f, [task[f] EXCEPT !.at = "count", !.now = now])
        PROVE  /\ task' \in [Fiber -> TaskRow] /\ \A g \in Fiber \ {f} : task'[g] = task[g]
               /\ task'[f].at = step /\ task'[f].run = r /\ task'[f].left \subseteq task[f].left
    <3> DEFINE k == [task[f] EXCEPT !.at = "count", !.now = now]
    <3>1. task[f] \in TaskRow
      BY DEF TasksInv
    <3>2. k \in TaskRow /\ k.at = step /\ k.run = r /\ k.left = task[f].left
      BY <1>3, <2>3, <3>1 DEF TaskRow
    <3>3. Put(f, k)
      BY <2>3, <3>2, BecomesPuts DEF TasksInv
    <3> HIDE DEF k
    <3> QED
      BY <3>2, <3>3 DEF Put
  <2> QED
    BY <2>1, <2>2, <2>3
<1>6. ListsRuns(f, task[f])'
  BY <1>5, OwnList
<1>7. Sound(f, task[f])'
  BY <1>1, <1>2, <1>5, <1>6 DEF Sound, Dispatching
<1>8. \A g \in Fiber \ {f} : IsDispatch(task[g]) => r # task[g].run
  BY DEF TasksInv, Apart
<1> QED
  BY <1>5, <1>7, <1>8, TaskStep

LEMMA GiveUpStep ==
  ASSUME TasksInv, NEW f \in Fiber, IsDispatch(task[f]), Keeps(f), GiveUp(f)
  PROVE  TasksInv'
<1> DEFINE r == task[f].run
           k == [task[f] EXCEPT !.at = "mark", !.plan = "give-up"]
<1>1. r \in Run /\ run[r].status # "none" /\ run[r].threaded
  BY DispatchHolds
<1>2. run'[r].status # "none" /\ run'[r].threaded
  BY <1>1 DEF Keeps
<1>3. "mark" \in Steps /\ "give-up" \in Plans /\ task[f] \in TaskRow
  BY DEF Steps, Plans, TasksInv
<1>4. k \in TaskRow /\ k.at = "mark" /\ k.run = r /\ k.plan = "give-up" /\ k.left = task[f].left
  BY <1>3 DEF TaskRow
<1> HIDE DEF k
<1>5. Put(f, k)
  BY <1>4, BecomesPuts DEF GiveUp, TasksInv, k
<1>6. task'[f].at = "mark" /\ task'[f].run = r /\ task'[f].plan = "give-up"
      /\ task'[f].left = task[f].left
  BY <1>4, <1>5 DEF Put
<1>7. ListsRuns(f, task[f])'
  BY <1>6, OwnList
<1>8. Sound(f, task[f])' /\ ~IsDispatch(task[f])'
  BY <1>1, <1>2, <1>6, <1>7
     DEF Sound, MarkIsTrue, MarkPlans, IsHeld, IsDispatch, Dispatching
<1> QED
  BY <1>5, <1>8, TaskStep DEF Put

LEMMA IsAtDispatch == \A f : task[f].at \in Dispatching => IsDispatch(task[f])
BY DEF IsDispatch

LEMMA AdvanceStep ==
  ASSUME IInv, Advance
  PROVE  IInv'
<1> DEFINE f == "scheduler"
           d == IF settings.once THEN Disabled(definition)
                ELSE [definition EXCEPT !.nextRunAt = task["scheduler"].next]
<1>1. "scheduler" \in Fiber /\ Keeps("scheduler")
  BY StillKeeps DEF Advance, world, outside, Fiber
<1>2. TasksInv'
  <2>1. CASE Return("scheduler")
    BY <1>1, <2>1, ReturnStep DEF IInv
  <2>2. CASE task[f].plan = "start" /\ task[f].run # 0 /\ Becomes(f, [task[f] EXCEPT !.at = "count", !.now = Now])
    <3>1. IsDispatch(task[f])
      BY <2>2 DEF Advance, At, IsDispatch
    <3>2. turn'[task[f].run] = "none"
      BY <1>1, <3>1, DispatchHolds DEF Advance, world, IInv
    <3>3. Now \in Time
      BY NowIs DEF Advance, Write, Stamp
    <3> QED
      BY <1>1, <2>2, <3>1, <3>2, <3>3, DispatchOn DEF Dispatching, IInv
  <2> QED
    BY <2>1, <2>2 DEF Advance, AfterAdvance
<1>3. d \in Row
  <2>1. definition \in Row /\ task["scheduler"].next \in Nat
    BY <1>1 DEF IInv, TasksInv, TaskRow, StateInv, RunsTyped
  <2> QED
    BY <2>1, DisabledTyped DEF Row
<1> QED
  BY <1>2, <1>3, NewWriteStep DEF Advance

LEMMA CountStep ==
  ASSUME IInv, NEW f \in Fiber, Count(f)
  PROVE  IInv'
<1>1. Keeps(f)
  BY StillKeeps DEF Count, world, outside
<1>2. IsDispatch(task[f])
  BY DEF Count, At, IsDispatch, Dispatching
<1>3. turn'[task[f].run] = "none"
  BY <1>2, DispatchHolds DEF Count, world, IInv
<1>4. TasksInv'
  BY <1>1, <1>2, <1>3, DispatchOn DEF Count, Dispatching, IInv
<1>5. /\ [definition EXCEPT !.iterationCount = @ + 1] \in Row
      /\ [definition EXCEPT !.iterationCount = @ + 1].version = definition.version
  BY DEF IInv, StateInv, RunsTyped, Row
<1>6. NowOf(f) \in Time
  <2>1. task[f].now \in {0} \cup Time
    BY DEF IInv, TasksInv, TaskRow
  <2> QED
    BY <2>1, NowIs DEF NowOf, Count, Write, Stamp
<1> QED
  BY <1>4, <1>5, <1>6, WriteStep DEF Count

LEMMA StartStep ==
  ASSUME IInv, NEW f \in Fiber, Start(f)
  PROVE  IInv'
<1> DEFINE r == task[f].run
           s == run[r].status
           m == Marked("start", s)
<1>1. UNCHANGED <<settings, definition, world, checks, queued, outside, history>>
  BY DEF Start, outside
<1>2. IsDispatch(task[f])
  BY DEF Start, At, IsDispatch, Dispatching
<1>3. r \in Run /\ s # "none" /\ run[r].threaded /\ turn[r] = "none"
  BY <1>2, DispatchHolds DEF IInv
<1>4. run \in [Run -> RunRow] /\ clock \in Nat
      /\ run' = [run EXCEPT ![r].status = m,
                            ![r].startedAt = IF m # run[r].status THEN clock ELSE @]
  BY DEF Start, IInv, StateInv, RunsTyped, RestTyped
<1>5. s \in Statuses
  BY <1>3, <1>4 DEF RunRow
<1>6. /\ m \in Statuses /\ m # "none" /\ (s \in Terminal => m = s) /\ (m \in Active => s \in Active)
      /\ m = "skipped" => s = "skipped"
      /\ m = "succeeded" => s = "succeeded"
      /\ m = "waiting-for-approval" => s = "waiting-for-approval"
  BY <1>3, <1>5, MarkedIs
<1> HIDE DEF m
<1>7. Rewritten(r) /\ run'[r].status = m /\ run'[r].turn = run[r].turn
  <2> DEFINE at == IF m # s THEN clock ELSE run[r].startedAt
  <2>1. run[r] \in RunRow /\ at \in Nat
    BY <1>3, <1>4 DEF RunRow
  <2>2. [run[r] EXCEPT !.status = m, !.startedAt = at] \in RunRow
    BY <1>6, <2>1 DEF RunRow
  <2>3. run' = [run EXCEPT ![r] = [run[r] EXCEPT !.status = m, !.startedAt = at]]
    BY <1>3, <1>4, <2>1 DEF RunRow
  <2> HIDE DEF at
  <2>4. run'[r] = [run[r] EXCEPT !.status = m, !.startedAt = at]
    BY <1>3, <1>4, <2>3
  <2>5. run' \in [Run -> RunRow] /\ \A q \in Run \ {r} : run'[q] = run[q]
    BY <1>3, <1>4, <2>2, <2>3
  <2> QED
    BY <1>6, <2>1, <2>4, <2>5 DEF Rewritten, RunRow
<1>8. /\ m = "skipped" => ~run[r].threaded
      /\ Heartbeat /\ m = "succeeded" => Succeeds(r)
      /\ Heartbeat /\ m = "waiting-for-approval" => Waits(r)
      /\ Heartbeat /\ run[r].turn # 0 => carries[run[r].turn] = r
  BY <1>3, <1>6, StatusIs DEF IInv, StateInv, SkippedHasNone, RunTurns
<1>9. StateInv' /\ ChecksAreCurrent'
  BY <1>1, <1>3, <1>7, <1>8, RowStep DEF IInv, checks
<1>10. Keeps(f)
  BY <1>1, <1>3, <1>7, <1>8 DEF Keeps, RowsStay, Rewritten, world, rows
<1>11. TasksInv'
  <2>1. CASE GiveUp(f)
    BY <1>2, <1>10, <2>1, GiveUpStep DEF IInv
  <2>2. ASSUME NEW step \in {"check-send", "check-worktree", "check-create"}, Go(f, step)
        PROVE  TasksInv'
    BY <1>1, <1>2, <1>3, <1>10, <2>2, DispatchOn DEF IInv, Dispatching, world
  <2> QED
    BY <2>1, <2>2 DEF Start
<1>12. RestTyped'
  BY <1>1 DEF IInv, RestTyped, outside, checks
<1> QED
  BY <1>9, <1>11, <1>12 DEF IInv

LEMMA InsertStep ==
  ASSUME IInv, NEW f \in {"scheduler", "user"}, Insert(f)
  PROVE  IInv'
<1> DEFINE r == First(Unused)
           scheduled == f = "scheduler"
           threaded == HasThread(f)
           inserted == /\ scheduled => SameOccurrence(f) = {}
                       /\ threaded => MayInsert(ThreadOf(r))
           row == [NoRun EXCEPT !.status = "pending", !.threaded = threaded,
                             !.trigger = IF scheduled THEN "scheduled" ELSE "manual",
                             !.scheduledFor = IF scheduled THEN task[f].slot ELSE clock,
                             !.planned = task[f].row.nextRunAt,
                             !.version = task[f].row.version]
           at == IF task[f].plan = "skip" THEN "mark" ELSE IF scheduled THEN "advance" ELSE "count"
           mine == [task[f] EXCEPT !.run = r, !.at = at]
           past == [task[f] EXCEPT !.at = "advance", !.run = 0]
<1>1. UNCHANGED <<settings, definition, world, checks, queued, outside>>
  BY DEF Insert, outside
<1>2. f \in Fiber /\ task[f] \in TaskRow /\ Sound(f, task[f]) /\ task[f].at = "insert"
  BY DEF Fiber, Insert, At, IInv, TasksInv
<1>3. r \in Run /\ run[r].status = "none"
  <2>1. Unused # {} /\ Unused \subseteq Run /\ Unused \in SUBSET Nat
    BY Numbers DEF Insert, Unused
  <2>2. First(Unused) \in Unused
    BY <2>1, FirstIsIn
  <2> QED
    BY <2>2 DEF Unused
<1> HIDE DEF r
<1>4. turn[r] = "none" /\ r \notin created
  BY <1>3 DEF IInv, StateInv, NothingBefore
<1>5. run' = IF inserted THEN [run EXCEPT ![r] = row] ELSE run
  BY DEF Insert, r
<1>6. row \in RunRow /\ row.status = "pending" /\ row.threaded = threaded /\ row.startedAt = 0
      /\ row.turn = 0
  <2>1. task[f].row \in Row /\ task[f].slot \in Nat /\ clock \in Nat /\ threaded \in BOOLEAN
    BY <1>2 DEF IInv, RestTyped, TaskRow, HasThread
  <2>2. task[f].row.nextRunAt \in Nat /\ task[f].row.version \in Nat
    BY <2>1 DEF Row
  <2> HIDE DEF threaded, scheduled
  <2> QED
    BY <2>1, <2>2 DEF RunRow, NoRun, Statuses, Active
<1> HIDE DEF row
<1>7. run \in [Run -> RunRow] /\ run' \in [Run -> RunRow]
  BY <1>5, <1>6 DEF IInv, StateInv, RunsTyped
<1>8. \A q \in Run : run[q].status # "none" => run'[q] = run[q]
  BY <1>3, <1>5, <1>7
<1>9. \A q \in Run : run'[q] = run[q] \/ (q = r /\ run'[q] = row /\ inserted)
  BY <1>3, <1>5, <1>7
<1>10. Keeps(f)
  BY <1>1, <1>8 DEF Keeps, RowsStay, world, rows
<1>11. RestTyped'
  <2>1. history' \in [restarts : Nat, late : Nat, stale : BOOLEAN, failed : BOOLEAN]
    <3>1. history' = [history EXCEPT !.late = @ + 1] \/ history' = history
      BY DEF Insert
    <3> QED
      BY <3>1 DEF IInv, RestTyped
  <2> QED
    BY <1>1, <2>1 DEF IInv, RestTyped, outside, checks
<1>12. ChecksAreCurrent'
  BY <1>1, <1>8 DEF IInv, ChecksAreCurrent, checks
<1>13. StateInv'
  <2>1. RunsTyped' /\ WorldTyped' /\ CarriedBegan' /\ OwnUnlessCrossed' /\ RunTurns'
    <3>1. RunsTyped' /\ WorldTyped'
      BY <1>1, <1>7 DEF IInv, StateInv, RunsTyped, WorldTyped, RowsTyped, world, rows
    <3>2. CarriedBegan' /\ OwnUnlessCrossed'
      BY <1>1 DEF IInv, StateInv, CarriedBegan, OwnUnlessCrossed, Home, ThreadOf, Heartbeat, world, rows,
                  outside
    <3>3. RunTurns'
      BY <1>1, <1>6, <1>9 DEF IInv, StateInv, RunTurns, Heartbeat, world, rows, outside
    <3> QED
      BY <3>1, <3>2, <3>3
  <2>2. NothingBefore' /\ SkippedHasNone' /\ StartedHasThread'
    BY <1>1, <1>6, <1>9
       DEF IInv, StateInv, NothingBefore, SkippedHasNone, StartedHasThread, world
  <2>3. OneActivePerThread'
    <3>1. settings' = settings /\ \A q : ThreadOf(q)' = ThreadOf(q)
      BY <1>1 DEF outside, ThreadOf, Heartbeat
    <3>2. inserted /\ threaded => \A q \in Run : IsActive(q) /\ run[q].threaded => ThreadOf(q) # ThreadOf(r)
      BY DEF MayInsert, InThread
    <3>3. \A q \in Run : (IsActive(q) /\ run[q].threaded)' =>
            (IsActive(q) /\ run[q].threaded) \/ (q = r /\ inserted /\ threaded)
      BY <1>6, <1>9 DEF IsActive
    <3> HIDE DEF inserted, threaded
    <3> QED
      BY <3>1, <3>2, <3>3 DEF IInv, StateInv, OneActivePerThread
  <2>4. StatusFollowsOwnTurn'
    BY <1>1, <1>6, <1>9 DEF IInv, StateInv, StatusFollowsOwnTurn, world, rows, outside, Heartbeat
  <2> QED
    BY <2>1, <2>2, <2>3, <2>4 DEF StateInv
<1>14. TasksInv'
  <2>1. CASE inserted
    <3>1. mine \in TaskRow
      <4>1. {"mark", "advance", "count"} \subseteq Steps /\ r \in Thread
        BY <1>3, Numbers DEF Steps
      <4> QED
        BY <1>2, <4>1 DEF TaskRow
    <3>2. Becomes(f, mine)
      BY <2>1 DEF Insert, r
    <3>3. Put(f, mine)
      BY <1>2, <3>1, <3>2, BecomesPuts DEF IInv, TasksInv
    <3>4. /\ task'[f].at = at /\ task'[f].run = r /\ task'[f].plan = task[f].plan
          /\ task'[f].left = task[f].left
      BY <1>2, <3>3 DEF Put, TaskRow
    <3>5. /\ task[f].plan \in {"start", "skip"} /\ task[f].left = {}
          /\ f = "user" => task[f].plan = "start"
      BY <1>2 DEF Sound
    <3>6. run'[r].status = "pending" /\ (run'[r].threaded <=> task[f].plan = "start") /\ turn'[r] = "none"
      BY <1>1, <1>3, <1>4, <1>5, <1>6, <1>7, <2>1 DEF HasThread, world
    <3>7. ListsRuns(f, task[f])'
      BY <3>4, <3>5 DEF ListsRuns
    <3>8. task'[f].at = "mark" => MarkIsTrue(f, task[f])'
      BY <3>4, <3>5, <3>6 DEF MarkIsTrue, MarkPlans
    <3>9. task'[f].at \in {"mark", "advance", "count"}
      BY <3>4
    <3>10. task'[f].at \in {"advance", "count"} => task'[f].plan = "start"
      BY <3>4, <3>5
    <3>11. Sound(f, task[f])'
      BY <1>3, <3>4, <3>6, <3>7, <3>8, <3>9, <3>10 DEF Sound, IsDispatch, Dispatching
    <3>12. \A g \in Fiber \ {f} : IsDispatch(task[g]) => task'[f].run # task[g].run
      BY <1>3, <3>4, DispatchHolds DEF IInv
    <3> QED
      BY <1>2, <1>10, <3>3, <3>11, <3>12, TaskStep DEF IInv, Put
  <2>2. CASE ~inserted /\ scheduled
    <3>1. past \in TaskRow
      BY <1>2, Numbers DEF TaskRow, Steps
    <3>2. Becomes(f, past)
      BY <2>2 DEF Insert, r
    <3>3. Put(f, past)
      BY <1>2, <3>1, <3>2, BecomesPuts DEF IInv, TasksInv
    <3>4. task'[f].at = "advance" /\ task'[f].run = 0 /\ task'[f].left = task[f].left
      BY <1>2, <3>3 DEF Put, TaskRow
    <3>5. ListsRuns(f, task[f])'
      BY <1>2, <1>10, <3>4, OwnList DEF IInv
    <3>6. Sound(f, task[f])' /\ ~IsDispatch(task[f])'
      BY <3>4, <3>5 DEF Sound, IsHeld, IsDispatch, Holding, Dispatching
    <3> QED
      BY <1>2, <1>10, <3>3, <3>6, TaskStep DEF IInv, Put
  <2>3. CASE ~inserted /\ ~scheduled
    <3>1. Becomes(f, Idle)
      BY <2>3 DEF Insert, r
    <3>2. Idle.at = "idle" /\ Idle.left = {}
      BY DEF Idle
    <3> QED
      BY <1>2, <1>10, <3>1, <3>2, IdleTyped, IdleStep DEF IInv
  <2> QED
    BY <2>1, <2>2, <2>3
<1> QED
  BY <1>11, <1>12, <1>13, <1>14 DEF IInv

(* The turns and their rows go on: what is true of a run by them stays so. *)
WorldGoesOn ==
  /\ WorldTyped' /\ NothingBefore' /\ CarriedBegan' /\ OwnUnlessCrossed'
  /\ RowsStay /\ (crossed => crossed')

LEMMA StateGoesOn ==
  ASSUME StateInv, WorldGoesOn, UNCHANGED <<settings, store>>
  PROVE  StateInv'
<1> USE DEF StateInv, WorldGoesOn, store, Heartbeat
<1>1. RunsTyped' /\ SkippedHasNone' /\ OneActivePerThread' /\ StartedHasThread'
  BY DEF RunsTyped, SkippedHasNone, OneActivePerThread, IsActive, ThreadOf, StartedHasThread
<1>2. \A r \in Run : (Succeeds(r) => Succeeds(r)') /\ (Waits(r) => Waits(r)')
  BY Numbers DEF Succeeds, Waits, RowsStay
<1>3. StatusFollowsOwnTurn'
  <2>1. Heartbeat => \A r \in Run : /\ run[r].status = "succeeded" => Succeeds(r)
                                    /\ run[r].status = "waiting-for-approval" => Waits(r)
    BY StatusIs
  <2>2. (Heartbeat => \A r \in Run : /\ run[r].status = "succeeded" => Succeeds(r)
                                     /\ run[r].status = "waiting-for-approval" => Waits(r))'
    BY <1>2, <2>1
  <2> QED
    BY <2>2 DEF StatusFollowsOwnTurn, Succeeds, Waits
<1>4. RunTurns'
  <2> SUFFICES ASSUME Heartbeat, NEW r \in Run, run[r].turn # 0
               PROVE  carries'[run[r].turn] = r
    BY DEF RunTurns
  <2>1. carries[run[r].turn] = r /\ run[r].turn \in Turn
    BY DEF RunTurns, RunsTyped, RunRow
  <2> QED
    BY <2>1, Numbers DEF RowsStay
<1> QED
  BY <1>1, <1>3, <1>4

LEMMA WorldStep ==
  ASSUME IInv, WorldGoesOn, UNCHANGED <<settings, store, asked, updatedAt>>, RestTyped', TasksInv'
  PROVE  IInv'
BY StateGoesOn, ChecksStill DEF IInv, store

(* A step that gives the run of a dispatch a thread or a worktree, or takes one
   away. *)
LEMMA ThreadStep ==
  ASSUME IInv, NEW r \in Run, run[r].status # "none",
         UNCHANGED <<settings, store, turn, rows, asked, updatedAt>>, RestTyped',
         worktree' = worktree
           \/ \E w \in {"none", "loose", "left", "attached"} : worktree' = [worktree EXCEPT ![r] = w],
         created' = created \/ created' = created \cup {r},
         TasksInv'
  PROVE  IInv'
<1>1. WorldTyped'
  BY DEF IInv, StateInv, WorldTyped, RowsTyped, rows
<1>2. NothingBefore'
  BY DEF IInv, StateInv, NothingBefore, WorldTyped, store
<1>3. CarriedBegan' /\ OwnUnlessCrossed'
  BY DEF IInv, StateInv, CarriedBegan, OwnUnlessCrossed, Home, ThreadOf, Heartbeat, rows
<1>4. WorldGoesOn
  BY <1>1, <1>2, <1>3 DEF WorldGoesOn, RowsStay, rows
<1> QED
  BY <1>4, WorldStep

LEMMA HomeIs ==
  ASSUME StateInv, NEW u \in Turn
  PROVE  Home(u) \in Thread
BY Numbers DEF Home, StateInv, WorldTyped, RowsTyped

(* A turn that has not begun is requested, or waits in the queue of the provider. *)
LEMMA RequestRows ==
  ASSUME StateInv, NEW u \in Turn, NEW t \in Thread, t = Home(u)', guest' \in Thread,
         \A v \in Turn \ {u} : Home(v)' = Home(v),
         turn[u] \in {"none", "queued", "pending", "promoted"},
         u \in Run => run[u].status # "none",
         \/ \E how \in {"pending", "promoted"} : Requested(u, t, how)
         \/ turn' = [turn EXCEPT ![u] = "queued"] /\ UNCHANGED <<requested, crossed>>,
         UNCHANGED <<run, carries, latest, created, worktree>>
  PROVE  WorldGoesOn /\ \A v \in Turn \ {u} : turn'[v] = turn[v]
<1>1. WorldTyped /\ RowsTyped /\ CarriedBegan /\ OwnUnlessCrossed /\ NothingBefore
  BY DEF StateInv, WorldTyped
<1>2. PICK how \in {"queued", "pending", "promoted"} : turn' = [turn EXCEPT ![u] = how]
  BY DEF Requested
<1>3. turn \in [Turn -> TurnStates] /\ how \in TurnStates
  BY <1>1 DEF WorldTyped, TurnStates
<1>4. turn' \in [Turn -> TurnStates] /\ turn'[u] = how /\ \A v \in Turn \ {u} : turn'[v] = turn[v]
  BY <1>2, <1>3
<1>5. \/ /\ UNCHANGED <<requested, crossed>> /\ how = "queued"
      \/ /\ requested' = [requested EXCEPT ![t] = u]
         /\ crossed' = (crossed \/ requested[t] \notin {0, u})
  <2>1. CASE \E h \in {"pending", "promoted"} : Requested(u, t, h)
    BY <2>1 DEF Requested
  <2>2. CASE turn' = [turn EXCEPT ![u] = "queued"] /\ UNCHANGED <<requested, crossed>>
    BY <1>3, <1>4, <2>2
  <2> QED
    BY <2>1, <2>2
<1>6. requested' \in [Thread -> {0} \cup Turn] /\ crossed' \in BOOLEAN /\ (crossed => crossed')
  BY <1>1, <1>5 DEF RowsTyped
<1>7. WorldTyped'
  <2>1. RowsTyped'
    BY <1>1, <1>6 DEF RowsTyped
  <2> QED
    BY <1>1, <1>4, <2>1 DEF WorldTyped
<1>8. NothingBefore'
  BY <1>1, <1>4, Numbers DEF NothingBefore
<1>9. carries[u] = 0 /\ turn[u] # "completed"
  BY <1>1 DEF CarriedBegan, Began, Ended
<1>10. CarriedBegan' /\ RowsStay
  BY <1>1, <1>4, <1>9 DEF CarriedBegan, RowsStay
<1>11. OwnUnlessCrossed'
  <2> SUFFICES ASSUME ~crossed', NEW v \in Turn
               PROVE  /\ carries'[v] \in {0, v}
                      /\ turn'[v] \in {"pending", "promoted"} => requested'[Home(v)'] = v
    BY DEF OwnUnlessCrossed
  <2>1. ~crossed
    BY <1>6
  <2>2. carries'[v] \in {0, v}
    BY <1>1, <2>1 DEF OwnUnlessCrossed
  <2>3. CASE v = u
    BY <1>1, <1>4, <1>5, <2>2, <2>3 DEF RowsTyped
  <2>4. CASE v # u
    <3> SUFFICES ASSUME turn[v] \in {"pending", "promoted"} PROVE requested'[Home(v)] = v
      BY <1>4, <2>2, <2>4
    <3>1. requested[Home(v)] = v /\ v # 0 /\ Home(v) \in Thread
      BY <1>1, <2>1, HomeIs, Numbers DEF OwnUnlessCrossed
    <3>2. CASE UNCHANGED requested
      BY <3>1, <3>2
    <3>3. CASE /\ requested' = [requested EXCEPT ![t] = u]
               /\ crossed' = (crossed \/ requested[t] \notin {0, u})
      <4>1. requested[t] \in {0, u}
        BY <3>3
      <4>2. Home(v) # t
        BY <2>4, <3>1, <4>1
      <4> QED
        BY <1>1, <3>1, <3>3, <4>2 DEF RowsTyped
    <3> QED
      BY <1>5, <3>2, <3>3
  <2> QED
    BY <2>3, <2>4
<1> QED
  BY <1>4, <1>6, <1>7, <1>8, <1>10, <1>11 DEF WorldGoesOn

(* The turn of a run is given to the provider. *)
LEMMA GivenRows ==
  ASSUME IInv, NEW f \in Fiber, IsDispatch(task[f]), Given(task[f].run, ThreadOf(task[f].run)),
         UNCHANGED <<settings, run, guest, created, worktree>>
  PROVE  WorldGoesOn /\ Keeps(f)
<1>1. PICK r \in Run : r = task[f].run
  BY DispatchHolds DEF IInv
<1>2. PICK t \in Thread : t = ThreadOf(r)
  BY Numbers
<1>3. r \in Turn /\ r # UserTurn /\ run[r].status # "none" /\ turn[r] = "none"
  BY <1>1, DispatchHolds, Numbers DEF IInv
<1>4. /\ t = Home(r)' /\ \A v \in Turn : Home(v)' = Home(v)
      /\ guest' \in Thread
  <2>1. Heartbeat' = Heartbeat /\ guest' = guest /\ guest \in Thread
    BY DEF Heartbeat, IInv, StateInv, WorldTyped, RowsTyped
  <2> QED
    BY <1>2, <1>3, <2>1 DEF Home, ThreadOf
<1>5. Given(r, t)
  BY <1>1, <1>2
<1>6. \/ \E how \in {"pending", "promoted"} : Requested(r, t, how)
      \/ turn' = [turn EXCEPT ![r] = "queued"] /\ UNCHANGED <<requested, crossed>>
  BY <1>5 DEF Given
<1>7. UNCHANGED <<carries, latest>>
  BY <1>5 DEF Given
<1>8. WorldGoesOn /\ \A v \in Turn \ {r} : turn'[v] = turn[v]
  BY <1>3, <1>4, <1>6, <1>7, RequestRows DEF IInv
<1> QED
  BY <1>1, <1>8, Numbers DEF Keeps, WorldGoesOn

LEMMA CheckedStep ==
  ASSUME IInv, NEW f \in Fiber, NEW step \in Dispatching, NEW next \in Dispatching,
         Checked(f, step, next)
  PROVE  IInv'
<1>1. UNCHANGED <<settings, store, world, checks, queued, outside, history>>
  BY DEF Checked, outside
<1>2. IsDispatch(task[f])
  BY IsAtDispatch DEF Checked, At
<1>3. Keeps(f) /\ turn'[task[f].run] = "none"
  BY <1>1, <1>2, StillKeeps, DispatchHolds DEF IInv, store, world
<1>4. TasksInv'
  <2>1. CASE GiveUp(f)
    BY <1>2, <1>3, <2>1, GiveUpStep DEF IInv
  <2>2. ASSUME NEW at \in Dispatching, Go(f, at)
        PROVE  TasksInv'
    BY <1>2, <1>3, <2>2, DispatchOn DEF IInv
  <2> QED
    BY <2>1, <2>2 DEF Checked, CleanUpFirst, Dispatching
<1>5. RestTyped'
  BY <1>1 DEF IInv, RestTyped, outside, checks
<1> QED
  BY <1>1, <1>4, <1>5, StillStep DEF checks

LEMMA CreateStep ==
  ASSUME IInv, NEW f \in Fiber, CreateWorktree(f) \/ CreateThread(f) \/ CleanUp(f)
  PROVE  IInv'
<1> DEFINE r == task[f].run
<1>1. UNCHANGED <<settings, store, turn, rows, checks, queued, outside, history>>
  BY DEF CreateWorktree, CreateThread, CleanUp, outside
<1>2. IsDispatch(task[f])
  BY IsAtDispatch DEF CreateWorktree, CreateThread, CleanUp, At, Dispatching
<1>3. r \in Run /\ run[r].status # "none" /\ turn[r] = "none"
  BY <1>2, DispatchHolds DEF IInv
<1>4. Keeps(f) /\ turn'[r] = "none"
  BY <1>1, <1>3, StillKeeps DEF store
<1>5. TasksInv'
  <2>1. CASE GiveUp(f)
    BY <1>2, <1>4, <2>1, GiveUpStep DEF IInv
  <2>2. ASSUME NEW at \in Dispatching, Go(f, at)
        PROVE  TasksInv'
    BY <1>2, <1>4, <2>2, DispatchOn DEF IInv
  <2> QED
    BY <2>1, <2>2 DEF CreateWorktree, CreateThread, CleanUp, Dispatching
<1>6. RestTyped'
  BY <1>1 DEF IInv, RestTyped, outside, checks
<1>7. /\ worktree' = worktree
         \/ \E w \in {"none", "loose", "left", "attached"} : worktree' = [worktree EXCEPT ![r] = w]
      /\ created' = created \/ created' = created \cup {r}
  <2>1. worktree[r] \in {"none", "loose", "left", "attached"}
    BY <1>3 DEF IInv, StateInv, WorldTyped
  <2> QED
    BY <2>1 DEF CreateWorktree, CreateThread, CleanUp, ThreadCreated
<1> QED
  BY <1>1, <1>3, <1>5, <1>6, <1>7, ThreadStep DEF checks

LEMMA SendStep ==
  ASSUME IInv, NEW f \in Fiber, Send(f)
  PROVE  IInv'
<1>1. UNCHANGED <<settings, store, guest, created, worktree, checks, queued, outside, history>>
  BY DEF Send, outside
<1>2. IsDispatch(task[f])
  BY IsAtDispatch DEF Send, At, Dispatching
<1>3. WorldGoesOn /\ Keeps(f)
  BY <1>1, <1>2, GivenRows DEF Send, store
<1>4. TasksInv'
  BY <1>3, ReturnStep DEF Send, IInv
<1>5. RestTyped'
  BY <1>1 DEF IInv, RestTyped, outside, checks
<1> QED
  BY <1>1, <1>3, <1>4, <1>5, WorldStep DEF checks

LEMMA SpendTyped ==
  ASSUME RestTyped, Spend
  PROVE  budget' \in Budget
BY DEF RestTyped, Spend, Budget

LEMMA DispatchFailsStep ==
  ASSUME IInv, NEW f \in Fiber, DispatchFails(f)
  PROVE  IInv'
<1> DEFINE r == task[f].run
<1>1. UNCHANGED <<settings, store, guest, checks, queued, lease, clock, up, history>>
  BY DEF DispatchFails, world, rows
<1>2. IsDispatch(task[f])
  BY IsAtDispatch DEF DispatchFails, At, Dispatching
<1>3. r \in Run /\ run[r].status # "none" /\ turn[r] = "none"
  BY <1>2, DispatchHolds DEF IInv
<1>4. RestTyped'
  BY <1>1, SpendTyped DEF DispatchFails, IInv, RestTyped, checks
<1>5. CASE UNCHANGED <<turn, rows>>
  <2>1. Keeps(f)
    BY <1>1, <1>5, StillKeeps DEF store
  <2>2. TasksInv'
    <3>1. CASE GiveUp(f)
      BY <1>2, <2>1, <3>1, GiveUpStep DEF IInv
    <3>2. CASE Go(f, "clean-up")
      BY <1>2, <1>3, <1>5, <2>1, <3>2, DispatchOn DEF IInv, Dispatching
    <3> QED
      BY <3>1, <3>2 DEF DispatchFails, AfterFailedCreate, CleanUpFirst
  <2>3. /\ worktree' = worktree
           \/ \E w \in {"none", "loose", "left", "attached"} : worktree' = [worktree EXCEPT ![r] = w]
        /\ created' = created \/ created' = created \cup {r}
    <3>1. worktree[r] \in {"none", "loose", "left", "attached"}
      BY <1>3 DEF IInv, StateInv, WorldTyped
    <3> QED
      BY <3>1 DEF DispatchFails, ThreadCreated, world
  <2> QED
    BY <1>1, <1>3, <1>4, <1>5, <2>2, <2>3, ThreadStep DEF checks
<1>6. CASE ~UNCHANGED <<turn, rows>>
  <2>1. Given(r, ThreadOf(r)) /\ GiveUp(f) /\ UNCHANGED <<created, worktree>>
    BY <1>6 DEF DispatchFails, world
  <2>2. WorldGoesOn /\ Keeps(f)
    BY <1>1, <1>2, <2>1, GivenRows DEF store
  <2>3. TasksInv'
    BY <1>2, <2>1, <2>2, GiveUpStep DEF IInv
  <2> QED
    BY <1>1, <1>4, <2>2, <2>3, WorldStep DEF checks
<1> QED
  BY <1>5, <1>6

LEMMA FailsStep ==
  ASSUME IInv, NEW f \in Fiber, Fails(f)
  PROVE  IInv'
<1>1. UNCHANGED <<settings, store, world, checks, queued, lease, clock, up>>
  BY DEF Fails
<1>2. Keeps(f)
  BY <1>1, StillKeeps DEF store, world
<1>3. TasksInv'
  BY <1>2, ReturnStep DEF Fails, IInv
<1>4. history' \in [restarts : Nat, late : Nat, stale : BOOLEAN, failed : BOOLEAN]
  BY DEF Fails, IInv, RestTyped
<1>5. RestTyped'
  BY <1>1, <1>4, SpendTyped DEF Fails, IInv, RestTyped, checks
<1> QED
  BY <1>1, <1>3, <1>5, StillStep DEF checks

LEMMA NoneLeftStep ==
  ASSUME IInv, NEW f \in Fiber, NoneLeft(f)
  PROVE  IInv'
<1>1. UNCHANGED <<settings, store, world, checks, queued, outside, history>>
  BY DEF NoneLeft, outside
<1>2. TasksInv'
  BY <1>1, StillKeeps, ReturnStep DEF NoneLeft, IInv, store, world
<1>3. RestTyped'
  BY <1>1 DEF IInv, RestTyped, outside, checks
<1> QED
  BY <1>1, <1>2, <1>3, StillStep DEF checks

-----------------------------------------------------------------------------
(* What a user asks for *)

LEMMA RequestTyped ==
  ASSUME IInv, NEW kind, Request(kind)
  PROVE  RestTyped'
<1>1. budget' \in Budget
  BY DEF Request, IInv, RestTyped, Budget
<1> QED
  BY <1>1 DEF Request, IInv, RestTyped, checks

LEMMA UserFiber == "user" \in Fiber /\ "user" \in {"scheduler", "user"}
BY DEF Fiber

LEMMA RunNowStep ==
  ASSUME IInv, RunNow
  PROVE  IInv'
<1> DEFINE k == [Idle EXCEPT !.at = IF Exhausted(definition) THEN "restart" ELSE "insert",
                             !.plan = "start", !.row = definition, !.next = NextAfter(clock, clock)]
<1>1. definition \in Row /\ NextAfter(clock, clock) \in Nat
  BY NextTyped DEF IInv, RestTyped, StateInv, RunsTyped
<1>2. {"restart", "insert"} \subseteq Steps /\ "start" \in Plans
  BY DEF Steps, Plans
<1>3. k \in TaskRow /\ k.at \in {"restart", "insert"} /\ k.plan = "start" /\ k.left = {}
  BY <1>1, <1>2, IdleTyped DEF TaskRow, Idle
<1>4. Becomes("user", k)
  BY DEF RunNow
<1> HIDE DEF k
<1> QED
  BY <1>3, <1>4, RequestTyped, BeginStep DEF RunNow, Request, checks

LEMMA RestartStep ==
  ASSUME IInv, Restart
  PROVE  IInv'
<1> DEFINE k == [task["user"] EXCEPT !.at = "insert", !.now = Now]
<1>1. UNCHANGED <<settings, run, world, check, queued, outside>> /\ Stamp(Now) /\ Becomes("user", k)
  BY DEF Restart, outside
<1>2. task["user"] \in TaskRow /\ task["user"].at = "restart" /\ Sound("user", task["user"])
  BY UserFiber DEF Restart, At, IInv, TasksInv
<1>3. Now \in Time /\ Now \notin Held
  BY <1>1, NowIs DEF Stamp
<1>4. /\ k \in TaskRow /\ k.at = "insert" /\ k.left = task["user"].left
      /\ k.plan = task["user"].plan
  BY <1>2, <1>3 DEF TaskRow, Steps
<1>5. Put("user", k)
  BY <1>1, <1>4, UserFiber, BecomesPuts DEF IInv, TasksInv
<1> HIDE DEF k
<1>6. task'["user"].at = "insert" /\ task'["user"].left = {} /\ task'["user"].plan = "start"
  BY <1>2, <1>4, <1>5 DEF Put, Sound
<1>7. Sound("user", task["user"])' /\ ~IsDispatch(task["user"])'
  BY <1>6 DEF Sound, ListsRuns, IsHeld, IsDispatch, Holding, Dispatching
<1>8. TasksInv'
  BY <1>1, <1>5, <1>7, UserFiber, StillKeeps, TaskStep DEF IInv, Put, world
<1>9. definition' \in Row
  <2> DEFINE next == task["user"].next
             on == next # 0
  <2>1. definition \in Row /\ next \in Nat /\ on \in BOOLEAN
    BY <1>2 DEF TaskRow, IInv, StateInv, RunsTyped
  <2>2. definition' = [definition EXCEPT !.enabled = on, !.iterationCount = 0, !.nextRunAt = next]
    BY DEF Restart
  <2> HIDE DEF next, on
  <2> QED
    BY <2>1, <2>2 DEF Row
<1>10. history' \in [restarts : Nat, late : Nat, stale : BOOLEAN, failed : BOOLEAN]
  <2> DEFINE late == IF task["user"].next # 0 /\ ~definition.archived THEN 0 ELSE history.late
             restarts == history.restarts + 1
  <2>1. history \in [restarts : Nat, late : Nat, stale : BOOLEAN, failed : BOOLEAN]
    BY DEF IInv, RestTyped
  <2>2. late \in Nat /\ restarts \in Nat
    BY <2>1
  <2>3. history' = [history EXCEPT !.restarts = restarts, !.late = late]
    BY <2>1 DEF Restart
  <2> HIDE DEF late, restarts
  <2> QED
    BY <2>1, <2>2, <2>3
<1> QED
  BY <1>1, <1>3, <1>8, <1>9, <1>10, NowStep

LEMMA CancelStep ==
  ASSUME IInv, Cancel
  PROVE  IInv'
<1>1. RestTyped' /\ UNCHANGED <<settings, store, world, asked, updatedAt>>
  BY RequestTyped DEF Cancel, Request, checks
<1>2. PICK r \in ActiveRuns :
        Becomes("user", [Idle EXCEPT !.at = "mark", !.plan = "cancel", !.run = r])
  BY DEF Cancel
<1> DEFINE k == [Idle EXCEPT !.at = "mark", !.plan = "cancel", !.run = r]
<1>3. r \in Run /\ run[r].status # "none" /\ r \in Thread
  BY Numbers DEF ActiveRuns, IsActive, Active
<1>4. "mark" \in Steps /\ "cancel" \in Plans
  BY DEF Steps, Plans
<1>5. k \in TaskRow /\ k.at = "mark" /\ k.plan = "cancel" /\ k.run = r /\ k.left = {}
  BY <1>3, <1>4, IdleTyped DEF TaskRow, Idle
<1>6. Becomes("user", k)
  BY <1>2
<1> HIDE DEF k
<1>7. TasksInv'
  BY <1>1, <1>3, <1>4, <1>5, <1>6, UserFiber, HoldStep DEF store, world
<1> QED
  BY <1>1, <1>7, StillStep

LEMMA DeleteStep ==
  ASSUME IInv, Delete
  PROVE  IInv'
<1>1. RestTyped' /\ UNCHANGED <<settings, store, world, asked, updatedAt>>
  BY RequestTyped DEF Delete, Request, checks
<1>2. TasksInv'
  BY <1>1, UserFiber, StillKeeps, ListStep DEF Delete, store, world
<1> QED
  BY <1>1, <1>2, StillStep

LEMMA DeleteNextStep ==
  ASSUME IInv, DeleteNext
  PROVE  IInv'
<1> DEFINE left == task["user"].left
           r == First(left)
           k == [task["user"] EXCEPT !.at = "mark", !.plan = "cancel", !.run = r, !.left = @ \ {r}]
           last == [Idle EXCEPT !.at = "archive"]
<1>1. UNCHANGED <<settings, store, world, checks, queued, outside, history>>
  BY DEF DeleteNext, outside
<1>2. RestTyped'
  BY <1>1 DEF IInv, RestTyped, outside, checks
<1>3. CASE left = {}
  <2>1. Becomes("user", last)
    BY <1>3 DEF DeleteNext
  <2>2. last \in TaskRow /\ last.at = "archive" /\ last.left = {}
    BY IdleTyped DEF TaskRow, Steps, Idle
  <2> QED
    BY <1>1, <1>2, <2>1, <2>2, UserFiber, PlainStep DEF checks
<1>4. CASE left # {}
  <2>1. Becomes("user", k)
    BY <1>4 DEF DeleteNext
  <2>2. r \in Run /\ run[r].status # "none"
    BY <1>4, UserFiber, NextOfList
  <2> HIDE DEF r
  <2>3. task["user"] \in TaskRow /\ "mark" \in Steps /\ "cancel" \in Plans /\ r \in Thread
    BY <2>2, UserFiber, Numbers DEF IInv, TasksInv, Steps, Plans
  <2>4. k \in TaskRow /\ k.at = "mark" /\ k.plan = "cancel" /\ k.run = r /\ k.left \subseteq left
    BY <2>3 DEF TaskRow
  <2> HIDE DEF k
  <2>5. TasksInv'
    BY <1>1, <2>1, <2>2, <2>3, <2>4, UserFiber, HoldStep DEF store, world
  <2> QED
    BY <1>1, <1>2, <2>5, StillStep DEF checks
<1> QED
  BY <1>3, <1>4

LEMMA ArchiveStep ==
  ASSUME IInv, Archive
  PROVE  IInv'
<1>1. TasksInv'
  BY UserFiber, StillKeeps, ReturnStep DEF Archive, IInv, world, outside
<1>2. [definition EXCEPT !.archived = TRUE, !.enabled = FALSE] \in Row
  BY DEF IInv, StateInv, RunsTyped, Row
<1> QED
  BY <1>1, <1>2, NewWriteStep DEF Archive

LEMMA UpdateStep ==
  ASSUME IInv, NEW kind \in {"enable", "disable", "policy"}, Update(kind)
  PROVE  IInv'
<1> DEFINE next == IF definition.nextRunAt = 0 THEN NextFrom(clock) ELSE definition.nextRunAt
           k == [Idle EXCEPT !.at = "save", !.row = definition, !.plan = kind, !.next = next]
<1>1. RestTyped' /\ UNCHANGED <<settings, store, world, asked, updatedAt>>
  BY RequestTyped DEF Update, Request, checks
<1>2. definition \in Row /\ definition.nextRunAt \in Nat /\ NextFrom(clock) \in Nat
  BY NextTyped DEF IInv, RestTyped, StateInv, RunsTyped, Row
<1>3. "save" \in Steps /\ kind \in Plans
  BY DEF Steps, Plans
<1>4. k \in TaskRow /\ k.at = "save" /\ k.left = {}
  BY <1>2, <1>3, IdleTyped DEF TaskRow, Idle
<1>5. Becomes("user", k)
  BY DEF Update
<1> HIDE DEF k
<1> QED
  BY <1>1, <1>4, <1>5, UserFiber, PlainStep

LEMMA SaveStep ==
  ASSUME IInv, Save
  PROVE  IInv'
<1>1. UNCHANGED <<settings, run, world, check, queued, outside>>
  BY DEF Save, outside
<1>2. TasksInv'
  BY <1>1, UserFiber, StillKeeps, ReturnStep DEF Save, IInv, world
<1>3. task["user"].row \in Row /\ task["user"].next \in Nat /\ definition \in Row
  BY UserFiber DEF IInv, TasksInv, TaskRow, StateInv, RunsTyped
<1>4. definition' \in Row
  <2> DEFINE row == task["user"].row
             kind == task["user"].plan
             on == CASE kind = "enable" -> TRUE [] kind = "disable" -> FALSE [] OTHER -> row.enabled
             version == IF kind = "policy" THEN row.version + 1 ELSE row.version
  <2>1. row \in Row /\ on \in BOOLEAN /\ version \in Nat /\ definition.iterationCount \in Nat
        /\ task["user"].next \in Nat
    <3>1. row.version \in Nat /\ row.enabled \in BOOLEAN /\ definition.iterationCount \in Nat
      BY <1>3 DEF Row
    <3>2. version \in Nat
      BY <3>1
    <3>3. on \in BOOLEAN
      BY <3>1
    <3> QED
      BY <1>3, <3>1, <3>2, <3>3
  <2>2. definition' = [row EXCEPT !.enabled = on, !.nextRunAt = task["user"].next,
                                  !.iterationCount = definition.iterationCount, !.version = version]
    BY DEF Save
  <2> HIDE DEF row, kind, on, version
  <2> QED
    BY <2>1, <2>2 DEF Row
<1>5. Stamp(Now)
  BY DEF Save
<1>6. history' \in [restarts : Nat, late : Nat, stale : BOOLEAN, failed : BOOLEAN]
  <2>1. history \in [restarts : Nat, late : Nat, stale : BOOLEAN, failed : BOOLEAN]
    BY DEF IInv, RestTyped
  <2>2. PICK late \in Nat, stale \in BOOLEAN : history' = [history EXCEPT !.late = late, !.stale = stale]
    <3> DEFINE was == history.stale \/ definition #
                 [task["user"].row EXCEPT !.iterationCount = definition.iterationCount]
    <3>1. was \in BOOLEAN /\ history.late \in Nat /\ 0 \in Nat
      BY <2>1
    <3>2. \/ history' = [history EXCEPT !.late = history.late, !.stale = was]
          \/ history' = [history EXCEPT !.late = 0, !.stale = was]
      BY <2>1 DEF Save
    <3> HIDE DEF was
    <3> QED
      BY <3>1, <3>2
  <2> QED
    BY <2>1, <2>2
<1> QED
  BY <1>1, <1>2, <1>4, <1>5, <1>6, NowStep

LEMMA ReadStep ==
  ASSUME IInv, Read
  PROVE  IInv'
<1>1. RestTyped' /\ UNCHANGED <<settings, store, world, asked, updatedAt>>
  BY RequestTyped DEF Read, Request, checks
<1>2. PICK r \in Run : Becomes("user", [Idle EXCEPT !.at = "read", !.run = r,
                             !.plan = IF run[r].evaluated THEN "evaluated" ELSE "none"])
  BY DEF Read
<1> DEFINE k == [Idle EXCEPT !.at = "read", !.run = r,
                             !.plan = IF run[r].evaluated THEN "evaluated" ELSE "none"]
<1>3. "read" \in Steps /\ {"evaluated", "none"} \subseteq Plans /\ r \in Thread
  BY Numbers DEF Steps, Plans
<1>4. k \in TaskRow /\ k.at = "read" /\ k.left = {}
  BY <1>3, IdleTyped DEF TaskRow, Idle
<1>5. Becomes("user", k)
  BY <1>2
<1> HIDE DEF k
<1> QED
  BY <1>1, <1>4, <1>5, UserFiber, PlainStep

(* A write of what a stop check came to, by the check or with a mark of the
   user, leaves the run what it is. *)
LEMMA EvaluatedStep ==
  ASSUME IInv, NEW r, NEW e \in BOOLEAN, run' = [run EXCEPT ![r].evaluated = e],
         UNCHANGED <<settings, definition, world, asked, updatedAt>>
  PROVE  StateInv' /\ ChecksAreCurrent' /\ \A f : Keeps(f)
<1>1. run \in [Run -> RunRow] /\ run' \in [Run -> RunRow]
  BY DEF IInv, StateInv, RunsTyped, RunRow
<1>2. \A q \in Run : /\ run'[q].status = run[q].status /\ run'[q].threaded = run[q].threaded
                     /\ run'[q].version = run[q].version /\ run'[q].startedAt = run[q].startedAt
                     /\ run'[q].turn = run[q].turn
  BY <1>1 DEF RunRow
<1>3. RunsTyped' /\ WorldTyped' /\ CarriedBegan' /\ OwnUnlessCrossed' /\ RunTurns'
  <2>1. RunsTyped' /\ WorldTyped'
    BY <1>1 DEF IInv, StateInv, RunsTyped, WorldTyped, RowsTyped, world, rows
  <2>2. CarriedBegan' /\ OwnUnlessCrossed'
    BY DEF IInv, StateInv, CarriedBegan, OwnUnlessCrossed, Home, ThreadOf, Heartbeat, world, rows
  <2>3. RunTurns'
    BY <1>2 DEF IInv, StateInv, RunTurns, Heartbeat, world, rows
  <2> QED
    BY <2>1, <2>2, <2>3
<1>4. NothingBefore' /\ SkippedHasNone' /\ StartedHasThread'
  BY <1>2 DEF IInv, StateInv, NothingBefore, SkippedHasNone, StartedHasThread, world
<1>5. OneActivePerThread'
  BY <1>2 DEF IInv, StateInv, OneActivePerThread, IsActive, ThreadOf, Heartbeat
<1>6. StatusFollowsOwnTurn'
  BY <1>2 DEF IInv, StateInv, StatusFollowsOwnTurn, Heartbeat, world, rows
<1>7. ChecksAreCurrent'
  BY <1>2 DEF IInv, ChecksAreCurrent
<1>8. \A f : Keeps(f)
  BY <1>2 DEF Keeps, RowsStay, world, rows
<1> QED
  BY <1>3, <1>4, <1>5, <1>6, <1>7, <1>8 DEF StateInv

LEMMA WriteReadStep ==
  ASSUME IInv, WriteRead
  PROVE  IInv'
<1>1. UNCHANGED <<settings, definition, world, checks, queued, outside, history>>
  BY DEF WriteRead, outside
<1>2. StateInv' /\ ChecksAreCurrent' /\ Keeps("user")
  <2>1. (task["user"].plan = "evaluated") \in BOOLEAN
    OBVIOUS
  <2> QED
    BY <1>1, <2>1, EvaluatedStep DEF WriteRead, checks
<1>3. TasksInv'
  BY <1>2, UserFiber, ReturnStep DEF WriteRead, IInv
<1>4. RestTyped'
  BY <1>1 DEF IInv, RestTyped, outside, checks
<1> QED
  BY <1>2, <1>3, <1>4 DEF IInv

-----------------------------------------------------------------------------
(* Stop checks *)

(* A check is answered, and with it goes what it was asked about. *)
LEMMA Forgets ==
  ASSUME IInv, NEW r \in Run, asked' = [asked EXCEPT ![r] = NotAsked], run' = run,
         UNCHANGED <<definition, updatedAt>> \/ (updatedAt' \in Time /\ updatedAt' \notin Held)
  PROVE  /\ ChecksAreCurrent'
         /\ asked' \in [Run -> [time : {0} \cup Time, again : BOOLEAN]]
<1>1. NotAsked \in [time : {0} \cup Time, again : BOOLEAN] /\ NotAsked.time = 0
  BY DEF NotAsked
<1>2. asked \in [Run -> [time : {0} \cup Time, again : BOOLEAN]]
  BY DEF IInv, RestTyped
<1>3. asked' \in [Run -> [time : {0} \cup Time, again : BOOLEAN]]
  BY <1>1, <1>2
<1>4. \A s \in Run : asked'[s] = IF s = r THEN NotAsked ELSE asked[s]
  BY <1>2
<1>5. CASE UNCHANGED <<definition, updatedAt>>
  BY <1>1, <1>3, <1>4, <1>5 DEF IInv, ChecksAreCurrent
<1>6. CASE updatedAt' \in Time /\ updatedAt' \notin Held
  BY <1>1, <1>3, <1>4, <1>6 DEF IInv, ChecksAreCurrent, Held
<1> QED
  BY <1>5, <1>6

LEMMA CheckStep ==
  ASSUME IInv, NEW r \in Run, TakeCheck(r) \/ Evaluate(r)
  PROVE  IInv'
<1>1. UNCHANGED <<settings, store, world, task, queued, updatedAt, outside, history>>
  BY DEF TakeCheck, Evaluate, outside
<1>2. TasksInv'
  BY <1>1, StillKeeps, NoTaskStep DEF IInv, store, world
<1>3. check' \in [Run -> {"none", "queued", "evaluating", "stop", "record", "done"}]
  BY DEF TakeCheck, Evaluate, CheckGoes, IInv, RestTyped
<1>4. asked' = asked \/ asked' = [asked EXCEPT ![r] = NotAsked]
  BY DEF TakeCheck, Evaluate
<1>5. /\ ChecksAreCurrent'
      /\ asked' \in [Run -> [time : {0} \cup Time, again : BOOLEAN]]
  BY <1>1, <1>4, Forgets, ChecksStill DEF store, IInv, RestTyped
<1>6. RestTyped'
  BY <1>1, <1>3, <1>5 DEF IInv, RestTyped, outside
<1>7. StateInv'
  BY <1>1, StateStill DEF IInv, StateInv, RunsTyped, store
<1> QED
  BY <1>2, <1>5, <1>6, <1>7 DEF IInv

LEMMA StopLoopStep ==
  ASSUME IInv, NEW r \in Run, StopLoop(r)
  PROVE  IInv'
<1>1. UNCHANGED <<settings, run, world, task, queued, outside, history>>
  BY DEF StopLoop, outside
<1>2. TasksInv'
  BY <1>1, StillKeeps, NoTaskStep DEF IInv, world
<1>3. check' \in [Run -> {"none", "queued", "evaluating", "stop", "record", "done"}]
  BY DEF StopLoop, CheckGoes, IInv, RestTyped
<1>4. \/ UNCHANGED <<definition, updatedAt>>
      \/ /\ definition' = Disabled(definition)
         /\ updatedAt' \in Time /\ updatedAt' \notin Held
  BY NowIs DEF StopLoop
<1>5. /\ ChecksAreCurrent'
      /\ asked' \in [Run -> [time : {0} \cup Time, again : BOOLEAN]]
  BY <1>1, <1>4, Forgets DEF StopLoop
<1>6. RestTyped'
  BY <1>1, <1>3, <1>4, <1>5 DEF IInv, RestTyped, outside
<1>7. StateInv'
  <2>1. definition' \in Row
    BY <1>4, DisabledTyped DEF IInv, StateInv, RunsTyped
  <2> QED
    BY <1>1, <2>1, StateStill DEF IInv
<1> QED
  BY <1>2, <1>5, <1>6, <1>7 DEF IInv

LEMMA RecordStep ==
  ASSUME IInv, NEW r \in Run, Record(r)
  PROVE  IInv'
<1>1. UNCHANGED <<settings, definition, world, task, queued, asked, updatedAt, lease, clock, up, history>>
  BY DEF Record
<1>2. StateInv' /\ ChecksAreCurrent' /\ Keeps("none")
  <2>1. CASE run' = run
    BY <1>1, <2>1, StillKeeps, StateStill, ChecksStill DEF IInv, StateInv, RunsTyped, world
  <2>2. CASE run' = [run EXCEPT ![r].evaluated = TRUE]
    BY <1>1, <2>2, EvaluatedStep
  <2> QED
    BY <2>1, <2>2 DEF Record
<1>3. TasksInv'
  BY <1>1, <1>2, NoTaskStep DEF IInv
<1>4. RestTyped'
  <2>1. check' \in [Run -> {"none", "queued", "evaluating", "stop", "record", "done"}]
    BY DEF Record, CheckGoes, IInv, RestTyped
  <2>2. budget' \in Budget
    BY SpendTyped DEF Record, IInv, RestTyped
  <2> QED
    BY <1>1, <2>1, <2>2 DEF IInv, RestTyped
<1> QED
  BY <1>2, <1>3, <1>4 DEF IInv

LEMMA EndCheckStep ==
  ASSUME IInv, NEW r \in Run, EndCheck(r)
  PROVE  IInv'
<1> DEFINE found == {s \in Run : Pending(s) /\ (check[s] = "none" \/ s = r)}
<1>1. UNCHANGED <<settings, store, world, task, queued, updatedAt, outside, history>>
  BY DEF EndCheck, outside
<1>2. Ask(found)
  BY DEF EndCheck
<1>3. found \in SUBSET Run
      /\ \A s \in found : run[s].status # "none" /\ run[s].version = definition.version
  BY DEF Pending
<1>4. TasksInv'
  BY <1>1, StillKeeps, NoTaskStep DEF IInv, store, world
<1>5. check' \in [Run -> {"none", "queued", "evaluating", "stop", "record", "done"}]
  BY DEF EndCheck, IInv, RestTyped
<1> HIDE DEF found
<1>6. /\ ChecksAreCurrent'
      /\ asked' \in [Run -> [time : {0} \cup Time, again : BOOLEAN]]
  BY <1>1, <1>2, <1>3, AskIs DEF store
<1>7. RestTyped'
  BY <1>1, <1>5, <1>6 DEF IInv, RestTyped, outside
<1> QED
  BY <1>1, <1>4, <1>6, <1>7, StateStill DEF IInv, StateInv, RunsTyped, store

-----------------------------------------------------------------------------
(* The reactor *)

LEMMA TakeStep ==
  ASSUME IInv, NEW t \in Thread, Take(t)
  PROVE  IInv'
<1> DEFINE k == [Idle EXCEPT !.at = "look", !.back = "done", !.run = t, !.left = {t}]
<1>1. UNCHANGED <<settings, store, world, checks, queued, outside, history>>
  BY DEF Take, outside
<1>2. RestTyped'
  BY <1>1 DEF IInv, RestTyped, outside, checks
<1>3. "reactor" \in Fiber /\ Keeps("reactor")
  BY <1>1, StillKeeps DEF Fiber, store, world
<1>4. k \in TaskRow /\ k.at = "look"
  BY IdleTyped DEF TaskRow, Steps, Idle
<1>5. Becomes("reactor", k)
  BY DEF Take
<1> HIDE DEF k
<1>6. Put("reactor", k)
  BY <1>3, <1>4, <1>5, BecomesPuts DEF IInv, TasksInv
<1>7. Sound("reactor", task["reactor"])' /\ ~IsDispatch(task["reactor"])'
  BY <1>4, <1>6 DEF Put, Sound, ListsRuns, IsHeld, IsDispatch, Holding, Dispatching
<1>8. TasksInv'
  BY <1>3, <1>6, <1>7, TaskStep DEF IInv, Put
<1> QED
  BY <1>1, <1>2, <1>8, StillStep DEF checks

LEMMA DequeueStep ==
  ASSUME IInv, Dequeue
  PROVE  IInv'
<1>1. UNCHANGED <<settings, store, world, checks, outside, history>>
  BY DEF Dequeue, outside
<1>2. RestTyped'
  BY <1>1 DEF Dequeue, IInv, RestTyped, outside, checks
<1>3. "reactor" \in Fiber /\ Idle.at = "idle" /\ Idle.left = {}
  BY DEF Fiber, Idle
<1> QED
  BY <1>1, <1>2, <1>3, IdleTyped, PlainStep DEF Dequeue, checks

-----------------------------------------------------------------------------
(* Turns *)

(* A turn begins, with the message that is requested in its thread. *)
LEMMA BeginsRows ==
  ASSUME StateInv, NEW u \in Turn, NEW t \in Thread, t = Home(u)', guest' \in Thread,
         \A v \in Turn \ {u} : Home(v)' = Home(v),
         u \in Run => run[u].status # "none",
         Begins(u, t),
         \/ turn[u] \in {"pending", "promoted"} /\ t = Home(u) /\ crossed' = crossed
         \/ turn[u] = "none" /\ crossed' = (crossed \/ requested[t] # 0),
         UNCHANGED <<run, created, worktree>>
  PROVE  WorldGoesOn /\ \A v \in Turn \ {u} : turn'[v] = turn[v]
<1>1. WorldTyped /\ RowsTyped /\ CarriedBegan /\ OwnUnlessCrossed /\ NothingBefore
  BY DEF StateInv, WorldTyped
<1>2. /\ turn' = [turn EXCEPT ![u] = "running"]
      /\ carries' = [carries EXCEPT ![u] = requested[t]]
      /\ requested' = [requested EXCEPT ![t] = 0]
  BY DEF Begins
<1>3. turn' \in [Turn -> TurnStates] /\ turn'[u] = "running" /\ \A v \in Turn \ {u} : turn'[v] = turn[v]
  BY <1>1, <1>2 DEF WorldTyped, TurnStates, Began
<1>4. /\ carries' \in [Turn -> {0} \cup Turn] /\ carries'[u] = requested[t]
      /\ \A v \in Turn \ {u} : carries'[v] = carries[v]
      /\ requested' \in [Thread -> {0} \cup Turn]
      /\ \A s \in Thread \ {t} : requested'[s] = requested[s]
  BY <1>1, <1>2 DEF RowsTyped
<1>5. latest' \in [Thread -> {0} \cup Turn]
  <2>1. PICK l \in Latest(u, t) : latest' = [latest EXCEPT ![t] = l]
    BY DEF Begins
  <2>2. latest \in [Thread -> {0} \cup Turn] /\ l \in {u, latest[t]}
    BY <1>1, <2>1 DEF RowsTyped, Latest
  <2> QED
    BY <2>1, <2>2
<1>6. crossed' \in BOOLEAN /\ (crossed => crossed')
  BY <1>1 DEF RowsTyped
<1>7. WorldTyped'
  <2>1. RowsTyped'
    BY <1>4, <1>5, <1>6 DEF RowsTyped
  <2> QED
    BY <1>1, <1>3, <2>1 DEF WorldTyped
<1>8. NothingBefore'
  BY <1>1, <1>3, Numbers DEF NothingBefore
<1>9. carries[u] = 0 /\ turn[u] # "completed"
  BY <1>1 DEF CarriedBegan, Began, Ended
<1>10. CarriedBegan' /\ RowsStay
  BY <1>1, <1>3, <1>4, <1>9 DEF CarriedBegan, RowsStay, Began
<1>11. OwnUnlessCrossed'
  <2> SUFFICES ASSUME ~crossed', NEW v \in Turn
               PROVE  /\ carries'[v] \in {0, v}
                      /\ turn'[v] \in {"pending", "promoted"} => requested'[Home(v)'] = v
    BY DEF OwnUnlessCrossed
  <2>1. ~crossed
    BY <1>6
  <2>2. turn[u] = "none" => requested[t] = 0
    OBVIOUS
  <2>3. turn[u] # "none" => requested[t] = u
    BY <1>1, <2>1 DEF OwnUnlessCrossed
  <2>4. CASE v = u
    BY <1>3, <1>4, <2>2, <2>3, <2>4
  <2>5. CASE v # u
    <3>1. carries'[v] \in {0, v}
      BY <1>1, <1>4, <2>1, <2>5 DEF OwnUnlessCrossed
    <3> SUFFICES ASSUME turn[v] \in {"pending", "promoted"} PROVE requested'[Home(v)] = v
      BY <1>3, <2>5, <3>1
    <3>2. requested[Home(v)] = v /\ v # 0 /\ Home(v) \in Thread
      BY <1>1, <2>1, HomeIs, Numbers DEF OwnUnlessCrossed
    <3>3. Home(v) # t
      BY <2>2, <2>3, <2>5, <3>2
    <3> QED
      BY <1>4, <3>2, <3>3
  <2> QED
    BY <2>4, <2>5
<1> QED
  BY <1>3, <1>6, <1>7, <1>8, <1>10, <1>11 DEF WorldGoesOn

(* No dispatch is at a turn that is there, and no turn comes to be. *)
LEMMA TurnStep ==
  ASSUME IInv, WorldGoesOn, UNCHANGED <<settings, store, asked, updatedAt, task>>, RestTyped',
         \A r \in Run : turn[r] = "none" => turn'[r] = "none"
  PROVE  IInv'
<1>1. Keeps("none")
  BY DEF Keeps, WorldGoesOn, store
<1>2. TasksInv'
  BY <1>1, NoTaskStep DEF IInv
<1> QED
  BY <1>2, WorldStep

LEMMA ThereBefore ==
  ASSUME StateInv, NEW u \in Turn, turn[u] # "none"
  PROVE  u \in Run => run[u].status # "none"
BY DEF StateInv, NothingBefore

LEMMA StartTurnStep ==
  ASSUME IInv, NEW u \in Turn, StartTurn(u)
  PROVE  IInv'
<1>1. /\ UNCHANGED <<settings, store, guest, crossed, created, worktree, checks, task, outside, history>>
      /\ turn[u] \in {"pending", "promoted"} /\ Begins(u, Home(u))
  BY DEF StartTurn, outside
<1>2. PICK t \in Thread : t = Home(u)
  BY HomeIs DEF IInv
<1>3. /\ \A v \in Turn : Home(v)' = Home(v)
      /\ guest' \in Thread
  BY <1>1 DEF Home, ThreadOf, Heartbeat, IInv, StateInv, WorldTyped, RowsTyped
<1>4. WorldGoesOn /\ \A v \in Turn \ {u} : turn'[v] = turn[v]
  BY <1>1, <1>2, <1>3, ThereBefore, BeginsRows DEF IInv, store
<1>5. RestTyped'
  <2>1. queued' \subseteq Thread
    BY <1>1, <1>2, PublishTyped DEF Begins, IInv
  <2> QED
    BY <1>1, <2>1 DEF IInv, RestTyped, checks, outside
<1> QED
  BY <1>1, <1>4, <1>5, Numbers, TurnStep DEF checks

LEMMA RequestAgainStep ==
  ASSUME IInv, NEW u \in Turn, Requeue(u) \/ Promote(u)
  PROVE  IInv'
<1>1. /\ UNCHANGED <<settings, store, carries, latest, guest, created, worktree, checks, task, queued,
                     outside, history>>
      /\ turn[u] \in {"pending", "promoted", "queued"}
  BY DEF Requeue, Promote, rows, outside
<1>2. PICK t \in Thread : t = Home(u)
  BY HomeIs DEF IInv
<1>3. /\ \A v \in Turn : Home(v)' = Home(v)
      /\ guest' \in Thread
  BY <1>1 DEF Home, ThreadOf, Heartbeat, IInv, StateInv, WorldTyped, RowsTyped
<1>4. \/ \E how \in {"pending", "promoted"} : Requested(u, t, how)
      \/ turn' = [turn EXCEPT ![u] = "queued"] /\ UNCHANGED <<requested, crossed>>
  BY <1>2 DEF Requeue, Promote, rows
<1>5. WorldGoesOn /\ \A v \in Turn \ {u} : turn'[v] = turn[v]
  BY <1>1, <1>2, <1>3, <1>4, ThereBefore, RequestRows DEF IInv, store
<1>6. RestTyped'
  BY <1>1 DEF IInv, RestTyped, checks, outside
<1> QED
  BY <1>1, <1>5, <1>6, Numbers, TurnStep DEF checks

LEMMA UserTurnStep ==
  ASSUME IInv, NEW t \in Thread, UserSends(t) \/ GoalBegins(t)
  PROVE  IInv'
<1>1. /\ UNCHANGED <<settings, store, created, worktree, checks, task, lease, clock, up, history>>
      /\ budget.turns > 0 /\ budget' = [budget EXCEPT !.turns = @ - 1]
      /\ turn[UserTurn] = "none" /\ guest' = t
  BY DEF UserSends, GoalBegins, UserMay
<1>2. t = Home(UserTurn)' /\ \A v \in Turn \ {UserTurn} : Home(v)' = Home(v)
  BY <1>1 DEF Home, ThreadOf, Heartbeat
<1>3. WorldGoesOn /\ \A v \in Turn \ {UserTurn} : turn'[v] = turn[v]
  <2>1. CASE UserSends(t)
    <3>1. /\ UNCHANGED <<carries, latest>>
          /\ \/ \E how \in {"pending", "promoted"} : Requested(UserTurn, t, how)
             \/ turn' = [turn EXCEPT ![UserTurn] = "queued"] /\ UNCHANGED <<requested, crossed>>
      BY <2>1 DEF UserSends, Given
    <3> QED
      BY <1>1, <1>2, <3>1, Numbers, RequestRows DEF IInv, store
  <2>2. CASE GoalBegins(t)
    <3>1. Begins(UserTurn, t) /\ crossed' = (crossed \/ requested[t] # 0)
      BY <2>2 DEF GoalBegins
    <3> QED
      BY <1>1, <1>2, <3>1, Numbers, BeginsRows DEF IInv, store
  <2> QED
    BY <2>1, <2>2
<1>4. budget' \in Budget
  <2>1. budget \in Budget
    BY DEF IInv, RestTyped
  <2>2. budget.turns - 1 \in 0..1
    BY <1>1, <2>1 DEF Budget
  <2> QED
    BY <1>1, <2>1, <2>2 DEF Budget
<1>5. queued' \subseteq Thread
  <2>1. queued' = queued \/ Publish(t)
    BY DEF UserSends, GoalBegins, Begins
  <2> QED
    BY <2>1, PublishTyped DEF IInv, RestTyped
<1>6. RestTyped'
  BY <1>1, <1>4, <1>5 DEF IInv, RestTyped, checks
<1> QED
  BY <1>1, <1>3, <1>6, Numbers, TurnStep DEF checks

(* A turn that began goes on or ends. *)
LEMMA OnStep ==
  ASSUME IInv, NEW u \in Turn, AskUser(u) \/ Answer(u) \/ EndTurn(u)
  PROVE  IInv'
<1>1. /\ UNCHANGED <<settings, store, rows, created, worktree, checks, task, lease, clock, up, history>>
      /\ turn[u] \in {"running", "asking"}
  BY DEF AskUser, Answer, EndTurn, outside
<1>2. PICK s \in Began : turn' = [turn EXCEPT ![u] = s]
  BY DEF AskUser, Answer, EndTurn, Began
<1>3. StateInv /\ turn \in [Turn -> TurnStates]
  BY DEF IInv, StateInv, WorldTyped
<1>4. turn' \in [Turn -> TurnStates] /\ turn'[u] = s /\ \A v \in Turn \ {u} : turn'[v] = turn[v]
  BY <1>2, <1>3 DEF TurnStates
<1>5. budget' \in Budget
  BY DEF AskUser, Answer, EndTurn, outside, IInv, RestTyped, Budget
<1>6. queued' \subseteq Thread
  <2>1. queued' = queued \/ Publish(Home(u))
    BY DEF AskUser, Answer, EndTurn
  <2> QED
    BY <1>3, <2>1, HomeIs, PublishTyped DEF IInv, RestTyped
<1>7. RestTyped'
  BY <1>1, <1>5, <1>6 DEF IInv, RestTyped, checks
<1>8. WorldTyped'
  BY <1>1, <1>3, <1>4 DEF StateInv, WorldTyped, RowsTyped, rows
<1>9. NothingBefore'
  BY <1>1, <1>3, <1>4, Numbers DEF StateInv, NothingBefore, store
<1>10. CarriedBegan'
  BY <1>1, <1>3, <1>4 DEF StateInv, CarriedBegan, rows
<1>11. OwnUnlessCrossed'
  <2>1. \A v \in Turn : turn'[v] \in {"pending", "promoted"} => turn[v] = turn'[v]
    BY <1>4 DEF Began, Ended
  <2>2. \A v \in Turn : Home(v)' = Home(v)
    BY <1>1 DEF Home, ThreadOf, Heartbeat, rows
  <2> QED
    BY <1>1, <1>3, <2>1, <2>2 DEF StateInv, OwnUnlessCrossed, rows
<1>12. WorldGoesOn
  BY <1>1, <1>4, <1>8, <1>9, <1>10, <1>11 DEF WorldGoesOn, RowsStay, rows
<1> QED
  BY <1>1, <1>4, <1>7, <1>12, Numbers, TurnStep DEF checks

-----------------------------------------------------------------------------
(* Time, crash and start *)

LEMMA TimeStep ==
  ASSUME IInv, Tick \/ LeaseExpires \/ UNCHANGED vars
  PROVE  IInv'
<1>1. UNCHANGED <<settings, store, world, checks, task, queued, up, history>>
  BY DEF Tick, LeaseExpires, vars, store, world, rows, checks
<1>2. TasksInv'
  BY <1>1, StillKeeps, NoTaskStep DEF IInv, store, world
<1>3. RestTyped'
  <2>1. budget' \in Budget
    BY DEF Tick, LeaseExpires, vars, IInv, RestTyped, Budget
  <2>2. clock' \in Nat
    BY DEF Tick, LeaseExpires, vars, IInv, RestTyped
  <2>3. lease' \in BOOLEAN
    BY DEF Tick, LeaseExpires, vars, IInv, RestTyped
  <2> QED
    BY <1>1, <2>1, <2>2, <2>3 DEF IInv, RestTyped, checks
<1> QED
  BY <1>1, <1>2, <1>3, StillStep DEF checks

LEMMA CrashStep ==
  ASSUME IInv, Crash
  PROVE  IInv'
<1>1. /\ UNCHANGED <<settings, store, world, updatedAt, clock, history>> /\ queued' = {}
      /\ asked' = [r \in Run |-> NotAsked]
  BY DEF Crash
<1>2. TasksInv'
  <2>1. task' = [f \in Fiber |-> Idle]
    BY DEF Crash
  <2>2. task' \in [Fiber -> TaskRow]
    BY <2>1, IdleTyped
  <2>3. \A f \in Fiber : task'[f].at = "idle" /\ task'[f].left = {}
    BY <2>1 DEF Idle
  <2>4. \A f \in Fiber : Sound(f, task[f])' /\ ~IsDispatch(task[f])'
    BY <2>3 DEF Sound, ListsRuns, IsHeld, IsDispatch, Holding, Dispatching
  <2> QED
    BY <2>2, <2>4 DEF TasksInv, Apart
<1>3. RestTyped'
  <2>1. budget' \in Budget
    BY DEF Crash, IInv, RestTyped, Budget
  <2>2. check' \in [Run -> {"none", "queued", "evaluating", "stop", "record", "done"}]
    BY DEF Crash
  <2>3. lease' \in BOOLEAN /\ up' \in BOOLEAN
    BY DEF Crash
  <2> QED
    BY <1>1, <2>1, <2>2, <2>3, NoChecks DEF IInv, RestTyped
<1> QED
  BY <1>1, <1>2, <1>3, NoChecks, StateStill DEF IInv, StateInv, RunsTyped, store

LEMMA RestartedStep ==
  ASSUME IInv, Restarted
  PROVE  IInv'
<1>1. UNCHANGED <<settings, store, rows, created, worktree, updatedAt, queued, clock, lease, budget, history>>
  BY DEF Restarted
<1>2. ChecksAreCurrent' /\ RestTyped'
  BY <1>1, EnqueueKeeps DEF Restarted, IInv, RestTyped, store
<1>3. turn' = [u \in Turn |-> CASE turn[u] \in {"running", "asking"} -> "interrupted"
                               [] turn[u] \in {"pending", "promoted", "queued"} -> "lost"
                               [] OTHER -> turn[u]]
  BY DEF Restarted
<1>4. turn \in [Turn -> TurnStates] /\ StateInv
  BY DEF IInv, StateInv, WorldTyped
<1>5. \A u \in Turn : /\ turn'[u] \in TurnStates \ {"pending", "promoted"}
                      /\ turn[u] = "none" <=> turn'[u] = "none"
                      /\ turn[u] = "completed" => turn'[u] = "completed"
                      /\ turn[u] \in Began => turn'[u] \in Began
  <2> TAKE u \in Turn
  <2>1. CASE turn[u] \in {"running", "asking"}
    BY <1>3, <2>1 DEF TurnStates, Began, Ended
  <2>2. CASE turn[u] \in {"pending", "promoted", "queued"}
    BY <1>3, <2>2 DEF TurnStates, Began, Ended
  <2>3. CASE turn[u] \in {"none", "lost"} \cup Ended
    BY <1>3, <2>3 DEF TurnStates, Began, Ended
  <2> QED
    BY <1>4, <2>1, <2>2, <2>3 DEF TurnStates, Began
<1>6. turn' \in [Turn -> TurnStates]
  <2>1. turn' = [u \in Turn |-> turn'[u]]
    BY <1>3
  <2> QED
    BY <1>5, <2>1
<1>7. WorldTyped'
  BY <1>1, <1>4, <1>6 DEF StateInv, WorldTyped, RowsTyped, rows
<1>8. NothingBefore' /\ CarriedBegan' /\ OwnUnlessCrossed'
  BY <1>1, <1>4, <1>5, Numbers DEF StateInv, NothingBefore, CarriedBegan, OwnUnlessCrossed, rows, store
<1>9. WorldGoesOn
  BY <1>1, <1>5, <1>7, <1>8 DEF WorldGoesOn, RowsStay, rows
<1>10. StateInv'
  BY <1>1, <1>4, <1>9, StateGoesOn
<1>11. Keeps("scheduler")
  BY <1>1, <1>5, <1>9, Numbers DEF Keeps, WorldGoesOn, store
<1>12. TasksInv'
  BY <1>1, <1>11, ListStep DEF Restarted, store
<1> QED
  BY <1>2, <1>10, <1>12 DEF IInv

LEMMA RecoverNextStep ==
  ASSUME IInv, RecoverNext
  PROVE  IInv'
<1> DEFINE f == "scheduler"
           r == First(task[f].left)
           rest == [task[f] EXCEPT !.left = @ \ {r}, !.run = r]
           marks == [rest EXCEPT !.at = "mark", !.plan = "recover"]
           looks == [rest EXCEPT !.at = "look"]
<1>1. UNCHANGED <<settings, store, world, checks, queued, outside, history>>
  BY DEF RecoverNext, outside
<1>2. RestTyped'
  BY <1>1 DEF IInv, RestTyped, outside, checks
<1>3. f \in Fiber /\ f \in {"scheduler", "user"} /\ task[f].left # {}
  BY DEF Fiber, RecoverNext
<1>4. r \in Run /\ run[r].status # "none" /\ run[r].status # "skipped"
  BY <1>3, NextOfList
<1>5. Becomes(f, marks) \/ Becomes(f, looks)
  BY DEF RecoverNext
<1> HIDE DEF r
<1>6. task[f] \in TaskRow /\ r \in Thread
  BY <1>3, <1>4, Numbers DEF IInv, TasksInv
<1>7. {"mark", "look"} \subseteq Steps /\ "recover" \in Plans
  BY DEF Steps, Plans
<1>8. marks \in TaskRow /\ marks.at = "mark" /\ marks.plan = "recover" /\ marks.run = r
      /\ marks.left \subseteq task[f].left
  BY <1>6, <1>7 DEF TaskRow
<1>9. looks \in TaskRow /\ looks.at = "look" /\ looks.left \subseteq task[f].left
  BY <1>6, <1>7 DEF TaskRow
<1> HIDE DEF marks, looks, rest
<1>10. CASE Becomes(f, marks)
  <2>1. TasksInv'
    BY <1>1, <1>3, <1>4, <1>7, <1>8, <1>10, HoldStep DEF store, world
  <2> QED
    BY <1>1, <1>2, <2>1, StillStep DEF checks
<1>11. CASE Becomes(f, looks)
  BY <1>1, <1>2, <1>3, <1>9, <1>11, PlainStep DEF checks
<1> QED
  BY <1>5, <1>10, <1>11

LEMMA EndRecoveryStep ==
  ASSUME IInv, EndRecovery
  PROVE  IInv'
<1>1. UNCHANGED <<settings, store, world, updatedAt, queued, outside, history>>
  BY DEF EndRecovery, outside
<1>2. ChecksAreCurrent' /\ RestTyped'
  BY <1>1, EnqueueKeeps DEF EndRecovery, IInv, RestTyped, store, outside
<1>3. Idle.at = "idle" /\ Idle.left = {}
  BY DEF Idle
<1>4. TasksInv'
  BY <1>1, <1>3, IdleTyped, StillKeeps, IdleStep DEF EndRecovery, IInv, Fiber, store, world
<1> QED
  BY <1>1, <1>2, <1>4, StateStill DEF IInv, StateInv, RunsTyped, store

-----------------------------------------------------------------------------
(* The invariant *)

LEMMA InitHolds == Init => IInv
<1> SUFFICES ASSUME Init PROVE IInv
  OBVIOUS
<1>0. ChecksAreCurrent /\ asked \in [Run -> [time : {0} \cup Time, again : BOOLEAN]]
  <2>1. NotAsked \in [time : {0} \cup Time, again : BOOLEAN] /\ NotAsked.time = 0
    BY DEF NotAsked
  <2> QED
    BY <2>1 DEF Init, ChecksAreCurrent
<1>1. RestTyped
  <2>1. settings \in Settings /\ budget \in Budget
    BY ScenarioAssumption DEF Init
  <2>2. history \in [restarts : Nat, late : Nat, stale : BOOLEAN, failed : BOOLEAN]
    BY DEF Init
  <2>3. updatedAt \in Time
    BY RunsAssumption DEF Init, Time
  <2> QED
    BY <1>0, <2>1, <2>2, <2>3 DEF Init, RestTyped
<1>2. RunsTyped
  <2>1. NoRun \in RunRow
    BY DEF NoRun, RunRow, Statuses
  <2> QED
    BY <2>1 DEF Init, RunsTyped, NoRow, Row
<1>3. \A r \in Run : run[r].status = "none" /\ ~run[r].threaded /\ run[r].startedAt = 0 /\ run[r].turn = 0
  BY DEF Init, NoRun
<1>4. WorldTyped /\ NothingBefore
  BY Numbers DEF Init, WorldTyped, RowsTyped, TurnStates, NothingBefore
<1>5. SkippedHasNone /\ OneActivePerThread /\ StatusFollowsOwnTurn /\ StartedHasThread
  BY <1>3 DEF SkippedHasNone, OneActivePerThread, IsActive, Active, StatusFollowsOwnTurn,
              StartedHasThread
<1>6. CarriedBegan /\ OwnUnlessCrossed /\ RunTurns
  BY <1>3 DEF Init, CarriedBegan, OwnUnlessCrossed, RunTurns
<1>7. TasksInv
  <2>1. task \in [Fiber -> TaskRow]
    BY IdleTyped DEF Init
  <2>2. \A f \in Fiber : task[f].at = "idle" /\ task[f].left = {}
    BY DEF Init, Idle
  <2>3. \A f \in Fiber : Sound(f, task[f]) /\ ~IsDispatch(task[f])
    BY <2>2 DEF Sound, ListsRuns, IsHeld, IsDispatch, Holding, Dispatching
  <2> QED
    BY <2>1, <2>3 DEF TasksInv, Apart
<1> QED
  BY <1>0, <1>1, <1>2, <1>4, <1>5, <1>6, <1>7 DEF IInv, StateInv

LEMMA SettlesStep ==
  ASSUME IInv, NEW f \in Fiber, Settles(f)
  PROVE  IInv'
BY MarkStep, ResultStep, StopStep, DisableStep DEF Settles

LEMMA DispatchesStep ==
  ASSUME IInv, NEW f \in {"scheduler", "user"}, Dispatches(f)
  PROVE  IInv'
<1>1. f \in Fiber
  BY DEF Fiber
<1>2. CASE CheckWorktree(f) \/ CheckCreate(f) \/ CheckSend(f)
  BY <1>1, <1>2, CheckedStep DEF CheckWorktree, CheckCreate, CheckSend, Dispatching
<1>3. CASE CreateWorktree(f) \/ CreateThread(f) \/ CleanUp(f)
  BY <1>1, <1>3, CreateStep
<1> QED
  BY <1>1, <1>2, <1>3, InsertStep, NoneLeftStep, CountStep, StartStep, SendStep DEF Dispatches

LEMMA SchedulerStep ==
  ASSUME IInv, Scheduler
  PROVE  IInv'
<1>1. "scheduler" \in Fiber /\ "scheduler" \in {"scheduler", "user"}
  BY DEF Fiber
<1> QED
  BY <1>1, LookStep, SettlesStep, InterruptStep, DispatchesStep, BeginPassStep, EachStep,
     EndReconcileStep, DueStep, AskThreadStep, AdvanceStep, RecoverNextStep, EndRecoveryStep
     DEF Scheduler

LEMMA ReactorStep ==
  ASSUME IInv, Reactor
  PROVE  IInv'
<1>1. "reactor" \in Fiber
  BY DEF Fiber
<1> QED
  BY <1>1, LookStep, SettlesStep, DequeueStep, TakeStep DEF Reactor

LEMMA GoesOnStep ==
  ASSUME IInv, GoesOn
  PROVE  IInv'
BY UserFiber, SettlesStep, InterruptStep, DispatchesStep, RestartStep, DeleteNextStep, ArchiveStep,
   SaveStep, WriteReadStep DEF GoesOn

LEMMA AsksStep ==
  ASSUME IInv, Asks
  PROVE  IInv'
BY RunNowStep, CancelStep, DeleteStep, ReadStep, UpdateStep DEF Asks

LEMMA TurnsStep ==
  ASSUME IInv, Turns
  PROVE  IInv'
BY StartTurnStep, RequestAgainStep, UserTurnStep, OnStep DEF Turns

LEMMA ChecksStep ==
  ASSUME IInv, NEW r \in Run, Checks(r)
  PROVE  IInv'
BY CheckStep, StopLoopStep, RecordStep, EndCheckStep DEF Checks

LEMMA NextKeeps == IInv /\ [Next]_vars => IInv'
<1> SUFFICES ASSUME IInv, [Next]_vars PROVE IInv'
  OBVIOUS
<1>1. CASE Scheduler \/ Reactor \/ GoesOn \/ Asks \/ Turns
  BY <1>1, SchedulerStep, ReactorStep, GoesOnStep, AsksStep, TurnsStep
<1>2. ASSUME NEW r \in Run, Checks(r)
      PROVE  IInv'
  BY <1>2, ChecksStep
<1>3. ASSUME NEW f \in Fiber, DispatchFails(f) \/ Fails(f)
      PROVE  IInv'
  BY <1>3, DispatchFailsStep, FailsStep
<1>4. CASE Tick \/ LeaseExpires \/ UNCHANGED vars
  BY <1>4, TimeStep
<1>5. CASE Crash
  BY <1>5, CrashStep
<1>6. CASE Restarted
  BY <1>6, RestartedStep
<1> QED
  BY <1>1, <1>2, <1>3, <1>4, <1>5, <1>6 DEF Next

(* The inductive invariant holds: what a fiber is about to write follows from
   the run as it is, whatever the others wrote since the fiber looked. *)
THEOREM Invariant == Spec => []IInv
<1>1. Init => IInv
  BY InitHolds
<1>2. IInv /\ [Next]_vars => IInv'
  BY NextKeeps
<1> QED
  BY <1>1, <1>2, PTL DEF Spec

-----------------------------------------------------------------------------
(* Theorems *)

(* The rows, turns, worktrees and tasks of the automation service have their
   form, whatever fails and whenever the server dies. *)
THEOREM TypeCorrect == Spec => []AutomationTypeOK
<1>1. IInv => AutomationTypeOK
  <2> SUFFICES ASSUME IInv PROVE AutomationTypeOK
    OBVIOUS
  <2>1. task \in [Fiber -> TaskRow]
    BY DEF IInv, TasksInv
  <2>2. RestTyped /\ RunsTyped /\ WorldTyped /\ NothingBefore /\ SkippedHasNone
    BY DEF IInv, StateInv
  <2> QED
    BY <2>1, <2>2 DEF AutomationTypeOK, RestTyped, RunsTyped, WorldTyped, RowsTyped, NothingBefore,
                      SkippedHasNone, TaskRow, RunRow, Statuses, TurnStates, Began
<1> QED
  BY <1>1, Invariant, PTL

(* createRun inserts a run only in a thread without an active one, so that a
   thread carries one active run, although the scheduler and a user who asks
   for a run decide on their own. *)
THEOREM OneRunPerThread == Spec => []OneActivePerThread
<1>1. IInv => OneActivePerThread
  BY DEF IInv, StateInv
<1> QED
  BY <1>1, Invariant, PTL

(* resolveRunTurn: in a thread it shares with the user a run succeeds and waits by
   the turn whose row has its message, even when it is marked long after that was
   seen; and that is its own turn, unless a request was replaced in the one pending
   row of the thread, or taken by another turn, before its turn began. *)
THEOREM StatusIsOwn == Spec => []StatusFollowsOwnTurn
<1>1. IInv => StatusFollowsOwnTurn
  BY DEF IInv, StateInv
<1> QED
  BY <1>1, Invariant, PTL

(* The reactor, the scheduler, a recovery and a cancelling user race with what
   each of them read; the first outcome that is written stays. *)
THEOREM TerminalStays == Spec => TerminalIsFinal
<1>1. ASSUME IInv, Next, NEW r \in Run, run[r].status \in Terminal \cup {"skipped"}
      PROVE  run'[r].status = run[r].status
  <2>0. run \in [Run -> RunRow] /\ run[r].status # "none" /\ run[r].status # "pending"
        /\ run[r].status # "waiting-for-approval"
    BY <1>1 DEF IInv, StateInv, RunsTyped, Terminal
  <2>1. ASSUME NEW f \in Fiber, Mark(f)
        PROVE  run'[r].status = run[r].status
    <3>1. task[f].run = r \/ run'[r] = run[r]
      BY <1>1, <2>1, MarkWrites DEF Rewritten
    <3> QED
      BY <1>1, <2>1, <3>1, MarkWrites
  <2>2. ASSUME NEW f \in Fiber, Result(f)
        PROVE  run'[r].status = run[r].status
    BY <2>0, <2>2 DEF Result, RunRow
  <2>3. ASSUME NEW f \in Fiber, Start(f)
        PROVE  run'[r].status = run[r].status
    <3> DEFINE q == task[f].run
               m == Marked("start", run[q].status)
               at == IF m # run[q].status THEN clock ELSE run[q].startedAt
    <3>1. r = q => m = run[r].status
      BY <2>0 DEF Marked
    <3>2. run' = [run EXCEPT ![q].status = m, ![q].startedAt = at]
      BY <2>3 DEF Start
    <3> HIDE DEF m, at, q
    <3>3. r # q => run'[r] = run[r]
      BY <2>0, <3>2
    <3>4. r = q => run'[r].status = m
      BY <2>0, <3>2 DEF RunRow
    <3> QED
      BY <3>1, <3>3, <3>4
  <2>4. ASSUME NEW f \in Fiber, Insert(f)
        PROVE  run'[r].status = run[r].status
    <3>1. First(Unused) \in Unused
      BY <2>4, FirstIsIn, Numbers DEF Insert, Unused
    <3>2. First(Unused) # r
      BY <2>0, <3>1 DEF Unused
    <3> DEFINE q == First(Unused)
    <3> HIDE DEF q
    <3>3. run' = run \/ \E row : run' = [run EXCEPT ![q] = row]
      BY <2>4 DEF Insert, q
    <3> QED
      BY <2>0, <3>2, <3>3 DEF q
  <2>5. CASE WriteRead
    BY <2>0, <2>5 DEF WriteRead, RunRow
  <2>6. ASSUME NEW q \in Run, Record(q)
        PROVE  run'[r].status = run[r].status
    BY <2>0, <2>6 DEF Record, RunRow
  <2>7. ASSUME NEW f \in Fiber, Settles(f) \/ Dispatches(f) \/ Look(f) \/ Interrupt(f)
        PROVE  run'[r].status = run[r].status
    <3>1. CASE Stop(f) \/ Disable(f) \/ NoneLeft(f) \/ Count(f) \/ Look(f) \/ Interrupt(f)
      BY <3>1 DEF Stop, Disable, NoneLeft, Count, Look, Interrupt, store
    <3>2. CASE CheckWorktree(f) \/ CreateWorktree(f) \/ CheckCreate(f) \/ CreateThread(f)
               \/ CheckSend(f) \/ Send(f) \/ CleanUp(f)
      BY <3>2 DEF CheckWorktree, CreateWorktree, CheckCreate, CreateThread, CheckSend, Send,
                  CleanUp, Checked, store
    <3> QED
      BY <2>1, <2>2, <2>3, <2>4, <2>7, <3>1, <3>2 DEF Settles, Dispatches
  <2>8. {"scheduler", "reactor", "user"} \subseteq Fiber
    BY DEF Fiber
  <2>9. CASE Scheduler
    BY <2>7, <2>8, <2>9 DEF Scheduler, BeginPass, Each, EndReconcile, Due, AskThread, Advance,
                            RecoverNext, EndRecovery, store
  <2>10. CASE Reactor
    BY <2>7, <2>8, <2>10 DEF Reactor, Dequeue, Take, store
  <2>11. CASE GoesOn
    BY <2>5, <2>7, <2>8, <2>11 DEF GoesOn, Restart, DeleteNext, Archive, Save, store
  <2>12. CASE Asks
    BY <2>12 DEF Asks, RunNow, Cancel, Delete, Read, Update, Request, store
  <2>13. CASE Turns
    BY <2>13 DEF Turns, StartTurn, Requeue, Promote, UserSends, GoalBegins, AskUser, Answer, EndTurn, store
  <2>14. ASSUME NEW q \in Run, Checks(q)
         PROVE  run'[r].status = run[r].status
    BY <2>6, <2>14 DEF Checks, TakeCheck, Evaluate, StopLoop, EndCheck, store
  <2>15. ASSUME NEW f \in Fiber, DispatchFails(f) \/ Fails(f)
         PROVE  run'[r].status = run[r].status
    BY <2>15 DEF DispatchFails, Fails, store
  <2>16. CASE Tick \/ LeaseExpires \/ Crash \/ Restarted
    BY <2>16 DEF Tick, LeaseExpires, Crash, Restarted, store
  <2> QED
    BY <1>1, <2>9, <2>10, <2>11, <2>12, <2>13, <2>14, <2>15, <2>16 DEF Next
<1>2. IInv /\ [Next]_vars =>
        [\A r \in Run : run[r].status \in Terminal \cup {"skipped"}
                          => run'[r].status = run[r].status]_vars
  BY <1>1
<1> QED
  BY <1>2, Invariant, PTL DEF TerminalIsFinal, Spec

(* disableDefinitionIfUnchanged: a stop check that was asked under one policy
   does not stop the loop under another, however late its answer comes; unless a
   write that bears an earlier time gave the row the updated_at of then. *)
THEOREM OldPolicy == Spec => OldPolicyNeverStops
<1>1. ASSUME IInv, NEW r \in Run, StopLoop(r), definition' # definition
      PROVE  run[r].version = definition.version \/ asked[r].again
  <2>1. MayStop(r)
    BY <1>1 DEF StopLoop
  <2>2. updatedAt \in Time /\ asked[r].time = updatedAt
    BY <1>1, <2>1 DEF MayStop, Unchanged, IInv, RestTyped
  <2> QED
    BY <1>1, <2>2, Numbers DEF IInv, ChecksAreCurrent
<1>2. IInv => [\A r \in Run : StopLoop(r) /\ definition' # definition
                                => run[r].version = definition.version \/ asked[r].again]_vars
  BY <1>1
<1> QED
  BY <1>2, Invariant, PTL DEF OldPolicyNeverStops, Spec
=============================================================================
