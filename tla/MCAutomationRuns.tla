--------------------------- MODULE MCAutomationRuns ---------------------------
(* AutomationRuns on small automations, each in the surroundings that are hard
   for it. *)
EXTENDS AutomationRuns

Plain == [mode |-> "heartbeat", once |-> FALSE, ai |-> FALSE, stopOnError |-> FALSE,
          misfirePolicy |-> "coalesce", worktree |-> FALSE, maxIterations |-> 0, maxRuntime |-> 0]
Quiet == [ticks |-> 2, crashes |-> 0, faults |-> 0, asks |-> 0, turns |-> 0, requests |-> {}]

With(settled, around) == [settings |-> settled, budget |-> around]

(* A user who works in the thread the automation continues. *)
SharedThread == With(Plain, [Quiet EXCEPT !.ticks = 1, !.turns = 1, !.asks = 1])
Failing == With([Plain EXCEPT !.stopOnError = TRUE], [Quiet EXCEPT !.faults = 1])
Overrunning == With([Plain EXCEPT !.maxRuntime = 1], Quiet)
Crashing == With([Plain EXCEPT !.misfirePolicy = "run-latest"], [Quiet EXCEPT !.crashes = 1])
(* A request that is lost with the server, while its pending row stays. *)
LostRequest == With(Plain, [Quiet EXCEPT !.ticks = 1, !.crashes = 1, !.turns = 1])
PolicyChanged ==
  With([Plain EXCEPT !.ai = TRUE], [Quiet EXCEPT !.ticks = 1, !.requests = {"policy", "read"}])
CheckLost ==
  With([Plain EXCEPT !.ai = TRUE],
       [Quiet EXCEPT !.ticks = 1, !.crashes = 1, !.faults = 1, !.requests = {"read"}])
Bounded ==
  With([Plain EXCEPT !.maxIterations = 1, !.misfirePolicy = "skip"],
       [Quiet EXCEPT !.requests = {"run"}])
Deleted == With(Plain, [Quiet EXCEPT !.requests = {"delete"}])
Worktrees ==
  With([Plain EXCEPT !.mode = "standalone", !.worktree = TRUE],
       [Quiet EXCEPT !.ticks = 1, !.faults = 1, !.requests = {"cancel"}])
Once ==
  With([Plain EXCEPT !.mode = "standalone", !.once = TRUE, !.misfirePolicy = "run-latest"],
       [Quiet EXCEPT !.requests = {"enable"}])

(* The smallest in which a row gets back the time of a stop check; with more than a
   million states it is not one of Small. *)
OldTime ==
  With([Plain EXCEPT !.ai = TRUE], [Quiet EXCEPT !.requests = {"policy", "read"}])

(* Which turn of a shared thread is the latest matters only to who waits for the
   user, so not where no turn does and none is going to. *)
NobodyAsks ==
  /\ Heartbeat /\ budget.asks = 0
  /\ \A u \in Turn : turn[u] # "asking"
  /\ \A r \in Run : run[r].status # "waiting-for-approval"
  /\ \A f \in Fiber : task[f].plan # "wait"

(* When the row was written matters only to stop checks, and only an automation
   with a policy of the model has any. *)
Dated == settings.ai

View ==
  <<settings, store, turn, requested, carries, IF NobodyAsks THEN {} ELSE latest, guest, crossed, created,
    worktree, IF Dated THEN task ELSE [f \in Fiber |-> [task[f] EXCEPT !.now = 0]], queued,
    IF Dated THEN checks ELSE check, lease, clock, up, budget, history>>

Small == {SharedThread, Failing, Overrunning, Crashing, LostRequest, PolicyChanged, CheckLost,
          Bounded, Deleted, Worktrees, Once}
=============================================================================
