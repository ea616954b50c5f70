--------------------- MODULE ExecutionAdapterCoordinator ---------------------
(***************************************************************************)
(* Who runs a thread: the physical side of the authority.                  *)
(*                                                                         *)
(* TerminalAgentService and ExecutionAdapterCoordinator carry a thread     *)
(* from the structured provider runtime to a managed terminal process and  *)
(* back.  A job is one such operation: it takes the operation lock of its  *)
(* thread and, for its physical part, the one transition lock; between its *)
(* steps the provider, the terminal process, its hooks, the exit callback, *)
(* a crash of the server and the loss of any single write may intervene.   *)
(* The steps read and commit the thread's state through the operations of  *)
(* ExecutionAdapterAuthority.                                              *)
(*                                                                         *)
(* Left out: what is launched and where, retired runtime directories, the  *)
(* bridge that delivers hooks (a hook is a claim and a patch), and a       *)
(* snapshot that cannot be read (module ExecutionAdapterAuthority).        *)
(***************************************************************************)
EXTENDS ExecutionAdapterAuthority, FiniteSets

(* A process has one name here: what the terminal host calls its generation
   is also what the operating system knows it by, its process group and the
   start time of its leader, which are never reused. *)
ASSUME OneNamePerProcess == Pid = Generation

CONSTANT
  Watched        \* bound: the threads that clients attach to

ASSUME WatchedAssumption == Watched \subseteq Thread

VARIABLES
  job,          \* job[t]: what the holder of t's operation lock is doing
  session,      \* the structured provider session: none, idle or running a turn
  process,      \* process[t][g]: unborn, running, headless (its leader exited,
                \* some of its group did not) or gone
  host,         \* the process in the terminal host's session of t, or Null
  watch,        \* the revision its exit listener was registered under, or 0
  exits,        \* exit callbacks not reconciled yet
  owned,        \* TerminalAgentService has a runtime record of t
  deleted,      \* the thread was deleted in the event store
  unrecovered,  \* the state of t listed at startup, until t is recovered
  attaching     \* the revision of the last epoch clients attach to, or 0

world == <<session, process, host, watch, exits>>
books == <<owned, deleted, unrecovered, attaching>>
authority == <<states, claims, disk, available, marker>>
allVars == <<authority, job, world, books>>

NoJob ==
  [op |-> "none", at |-> "idle", then |-> "idle", revision |-> 0,
   generation |-> Null, found |-> FALSE, failing |-> FALSE, recovery |-> FALSE]

NoState == [adapter |-> "none"]

Live(t) == {g \in Generation : process[t][g] \in {"running", "headless"}}

HostAlive(t) == host[t] # Null /\ process[t][host[t]] = "running"

Fence(generation) == IF generation = Null THEN "any" ELSE generation

-----------------------------------------------------------------------------
(* Jobs *)

Become(t, j) == job' = [job EXCEPT ![t] = j]

(* One call of the authority.  The job goes on as ok, or as failed when the
   call is refused or its write fails. *)
Call(t, can, s, ok, failed) ==
  \/ can /\ Store(t, s) /\ Become(t, ok)
  \/ can /\ StoreFails(t, s) /\ Become(t, failed)
  \/ ~can /\ UNCHANGED authority /\ Become(t, failed)

(* A call whose failure nobody looks at. *)
Attempt(t, can, s) == IF can THEN Store(t, s) \/ StoreFails(t, s) ELSE UNCHANGED authority

To(j, at) == [j EXCEPT !.at = at]

Launching(j) == j.op \in {"start", "restart"}

(* What a job turns into when a step fails, and when its last step is done.
   A launch that fails is settled, a recovery that fails marks the thread. *)
GaveUp(j) ==
  IF j.recovery THEN To(j, IF Launching(j) THEN "failed" ELSE "missed") ELSE NoJob
Failed(j) == IF Launching(j) THEN To(j, "settle") ELSE GaveUp(j)
Done(j) == To(j, IF j.failing THEN "settle" ELSE "finish")

(* A failed start kills what it spawned and gives the thread back; a failed
   restart kills what it spawned and stays with the terminal.  Neither says
   under which generation. *)
Undone(j) ==
  [j EXCEPT !.at = "kill", !.failing = TRUE, !.generation = Null,
            !.then = IF j.op = "start" THEN "leave" ELSE "blocked"]

(* The transition lock is one for all threads.  A job is outside of it until
   it enters, and again once its launch has returned or failed. *)
Outside_NotWaiting(j) ==                                              \* mutant
  \/ j.at \in {"idle", "check", "abort", "settle", "finish", "mark",
              "failed", "missed"}
  \/ j.at \in {"verify", "quiesce"} /\ j.op # "stop"

Outside(j) ==
  \/ j.at \in {"idle", "enter", "check", "abort", "settle", "finish",
               "mark", "failed", "missed"}
  \/ j.at \in {"verify", "quiesce"} /\ j.op # "stop"

LockFree(t) == \A u \in Thread \ {t} : Outside(job[u])

(* Bound: a job starts only where it can raise the revision twice, as often as
   a start that fails does. *)
Free(t) == job[t] = NoJob /\ states[t].revision + 2 =< MaxRevision

(* Clients' commands wait until recovery is over; the deletion reactor, which
   starts before it, does not. *)
CommandReady == \A u \in Thread : unrecovered[u] = NoState

NewJob(t, op, at) ==
  /\ Become(t, [NoJob EXCEPT !.op = op, !.at = at])
  /\ UNCHANGED <<authority, world, books>>

BeginStart(t) ==
  /\ Free(t) /\ CommandReady /\ ~deleted[t]
  /\ IsStructured(states[t])
  /\ NewJob(t, "start", "enter")

BeginRestart(t) ==
  /\ Free(t) /\ CommandReady /\ ~deleted[t]
  /\ IsTerminal(states[t])
  /\ NewJob(t, "restart", "verify")

BeginChat(t) ==
  /\ Free(t) /\ CommandReady
  /\ IsTerminal(states[t])
  /\ NewJob(t, "chat", "verify")

BeginStop(t) == Free(t) /\ CommandReady /\ NewJob(t, "stop", "enter")

(* The reactor tears a deleted thread down, and again after each start. *)
BeginDelete(t) ==
  Free(t) /\ deleted[t] /\ ~Tombstone(states[t]) /\ NewJob(t, "delete", "verify")

-----------------------------------------------------------------------------
(* Processes *)

(* The leader of g is gone: the listener of the host's session is called. *)
Notify(t, g) ==
  IF host[t] = g /\ process[t][g] = "running" /\ watch[t] # 0
    THEN /\ exits' = exits \cup {[thread |-> t, revision |-> watch[t],
                                  generation |-> g, seen |-> "nothing"]}
         /\ watch' = [watch EXCEPT ![t] = 0]
    ELSE UNCHANGED <<exits, watch>>

Ends(t, g, how) ==
  /\ process' = [process EXCEPT ![t][g] = how]
  /\ Notify(t, g)

ProcessExits(t) ==
  /\ \E g \in Generation :
       \/ process[t][g] = "running" /\ Ends(t, g, "headless")
       \/ process[t][g] \in {"running", "headless"} /\ Ends(t, g, "gone")
  /\ UNCHANGED <<authority, job, session, host, books>>

(* A session whose process exited is torn down; a teardown that fails keeps
   the session, for whoever kills it next. *)
HostTearsDown(t) ==
  /\ host[t] # Null /\ ~HostAlive(t)
  /\ process' = [process EXCEPT ![t][host[t]] = "gone"]
  /\ host' = [host EXCEPT ![t] = Null]
  /\ watch' = [watch EXCEPT ![t] = 0]
  /\ UNCHANGED <<authority, job, session, exits, books>>

(* reconcileTerminalExit, first half: the state is read. *)
ReadExit(e) ==
  LET s == states[e.thread] IN
  /\ e.seen = "nothing"
  /\ exits' = (exits \ {e}) \cup
       IF \/ IsStructured(s) \/ s.revision # e.revision
          \/ s.generation \notin {Null, e.generation}
          \/ s.status \in {"stopping", "deleting", "stopped"}
         THEN {}
         ELSE {[e EXCEPT !.seen = IF s.generation = Null THEN "unborn" ELSE "born"]}
  /\ UNCHANGED <<authority, job, session, process, host, watch, books>>

(* Second half: the state is patched.  Claims in flight send it back to the
   first, for as long as they are there; so does a failed write, until it is
   given up after the third time. *)
PatchExit(e) ==
  LET t == e.thread
      exited == [states[t] EXCEPT !.status = "exited"]
      can == CanUpdateTerminal(states[t], e.revision,
               IF e.seen = "unborn" THEN "any" ELSE e.generation, exited)
      again == (exits \ {e}) \cup {[e EXCEPT !.seen = "nothing"]} IN
  /\ e.seen # "nothing"
  /\ \/ can /\ Drained(t) /\ Store(t, exited) /\ exits' = exits \ {e}
     \/ can /\ Drained(t) /\ StoreFails(t, exited) /\ exits' \in {again, exits \ {e}}
     \/ can /\ ~Drained(t) /\ UNCHANGED authority /\ exits' = again
     \/ ~can /\ UNCHANGED authority /\ exits' = exits \ {e}
  /\ UNCHANGED <<job, session, process, host, watch, books>>

-----------------------------------------------------------------------------
(* Before the transition *)

(* ensureDetachedOwnerExited: without a runtime record the process may be left
   over from an earlier server, and the persisted owner is what is known of it.
   Its group is killed and looked for again; without an owner nothing can be
   proved and the job fails, except for a thread that was stopped for good.  A
   recovery judges by the state that was listed when the server started. *)
Owner(t) == IF job[t].recovery THEN unrecovered[t] ELSE states[t]

NothingToVerify_NoPid(t) ==                                           \* mutant
  \/ ~job[t].recovery /\ (owned[t] \/ IsStructured(states[t]))
  \/ Owner(t).pid = Null

NothingToVerify(t) ==
  \/ ~job[t].recovery /\ (owned[t] \/ IsStructured(states[t]))
  \/ StoppedForGood(Owner(t))

InFlight(s) == IsTerminal(s) /\ (s.turn \/ s.status = "running")

(* Where a job goes once the owner is known to be gone. *)
Verified(t) ==
  LET j == job[t] IN
  IF j.recovery
    THEN To(j, IF Owner(t).status = "deleting" THEN "finish"
               ELSE IF Owner(t).status = "stopping" /\ j.op # "delete" THEN "mark"
               ELSE "enter")
  ELSE IF j.op \in {"restart", "chat"}
    THEN IF InFlight(states[t]) THEN GaveUp(j) ELSE To(j, "enter")
  ELSE To(j, "quiesce")

Verify(t) ==
  LET j == job[t]
      pid == Owner(t).pid IN
  /\ j.at = "verify"
  /\ \/ /\ NothingToVerify(t)
        /\ Become(t, Verified(t))
        /\ UNCHANGED <<process, exits, watch>>
     \/ /\ ~NothingToVerify(t) /\ pid # Null
        /\ Become(t, Verified(t))
        /\ Ends(t, pid, "gone")
     \/ /\ ~NothingToVerify(t)
        /\ Become(t, IF j.recovery THEN To(j, "failed") ELSE NoJob)
        /\ \/ UNCHANGED <<process, exits, watch>>
           \/ pid # Null /\ Ends(t, pid, "gone")
  /\ UNCHANGED <<authority, session, host, books>>

(* abortForTeardown: a turn of our own runtime is given up first. *)
Quiesce(t) ==
  LET s == states[t]
      given == [s EXCEPT !.turn = FALSE, !.status =
                  IF @ \in {"stopping", "stopped", "exited"} THEN @ ELSE "attention"]
      next == To(job[t], IF job[t].op = "stop" THEN "begin" ELSE "enter") IN
  /\ job[t].at = "quiesce"
  /\ IF owned[t] /\ InFlight(s)
       THEN Attempt(t, CanUpdateTerminal(s, s.revision, Fence(s.generation), given), given)
       ELSE UNCHANGED authority
  /\ Become(t, next)
  /\ UNCHANGED <<world, books>>

(* The transition lock is taken.  A restart may fail while its launch is
   still being prepared, before it asks for the lock. *)
Enter(t) ==
  LET j == job[t] IN
  /\ j.at = "enter"
  /\ \/ /\ LockFree(t)
        /\ Become(t, CASE j.op = "start" -> To(j, "lookup")
                       [] j.op = "stop" /\ IsTerminal(states[t]) -> To(j, "verify")
                       [] OTHER -> To(j, "begin"))
     \/ j.op = "restart" /\ Become(t, Failed(j))
  /\ UNCHANGED <<authority, world, books>>

-----------------------------------------------------------------------------
(* A launch: switchToTerminal and restartTerminal *)

(* The structured runtime is looked for before the authority is asked.  What
   is found is a list made some time ago, and no claim is held on it. *)
Lookup(t) ==
  LET j == job[t] IN
  /\ j.at = "lookup"
  /\ Become(t, IF session[t] = "running" THEN Failed(j)
               ELSE [j EXCEPT !.at = "begin", !.found = session[t] = "idle"])
  /\ UNCHANGED <<authority, world, books>>

BeginSwitch(t) ==
  LET j == job[t]
      starting == Starting(states[t].revision + 1) IN
  /\ j.at = "begin" /\ j.op = "start"
  /\ Call(t, ReadyForStructured(states[t]) /\ Drained(t), starting,
          [j EXCEPT !.at = IF j.found THEN "suspend" ELSE "prepare",
                    !.revision = starting.revision],
          Failed(j))
  /\ UNCHANGED <<world, books>>

(* Whatever runs in the session by now is stopped with it. *)
Suspend(t) ==
  LET j == job[t] IN
  /\ j.at = "suspend"
  /\ \/ session' = [session EXCEPT ![t] = "none"] /\ Become(t, To(j, "prepare"))
     \/ /\ session' \in {session, [session EXCEPT ![t] = "none"]}
        /\ Become(t, Undone([j EXCEPT !.found = FALSE]))
  /\ UNCHANGED <<authority, process, host, watch, exits, books>>

(* prepare, then the provider session is recorded. *)
Prepare(t) ==
  LET j == job[t]
      s == states[t] IN
  /\ j.at = "prepare"
  /\ \/ UNCHANGED authority /\ Become(t, Undone(j))
     \/ Call(t, CanUpdateTerminal(s, j.revision, "any", s), s, To(j, "spawn"), Undone(j))
  /\ UNCHANGED <<world, books>>

Fresh == {g \in Generation : \A t \in Thread : process[t][g] = "unborn"}

(* createOrAttach: a new process or none.  The host has no session to attach to
   when a launch gets here (KillsAlone).  A process whose group cannot be
   captured, or torn down after that, stays in a session that is dead. *)
Spawn(t) ==
  LET j == job[t] IN
  /\ j.at = "spawn"
  /\ \/ \E g \in IF host[t] = Null THEN Fresh ELSE {} :
          /\ host' = [host EXCEPT ![t] = g]
          /\ \/ /\ process' = [process EXCEPT ![t][g] = "running"]
                /\ Become(t, [j EXCEPT !.at = "adopt", !.generation = g])
             \/ /\ process' = [process EXCEPT ![t][g] = "headless"]
                /\ Become(t, Undone(j))
     \/ Become(t, Undone(j)) /\ UNCHANGED <<process, host>>
  /\ UNCHANGED <<authority, session, watch, exits, books>>

(* The owner is made durable before anything else is done with it. *)
Adopt(t) ==
  LET j == job[t]
      adopted == [states[t] EXCEPT !.pid = j.generation] IN
  /\ j.at = "adopt"
  /\ Call(t, CanUpdateTerminal(states[t], j.revision, "any", adopted), adopted,
          To(j, "listen"), Undone(j))
  /\ UNCHANGED <<world, books>>

Listen(t) ==
  LET j == job[t] IN
  /\ j.at = "listen"
  /\ IF HostAlive(t)
       THEN watch' = [watch EXCEPT ![t] = j.revision] /\ Become(t, To(j, "probe"))
       ELSE UNCHANGED watch /\ Become(t, Undone(j))
  /\ UNCHANGED <<authority, session, process, host, exits, books>>

(* isAlive, and the owner's identity, which may not be found. *)
Probe(t) ==
  LET j == job[t] IN
  /\ j.at = "probe"
  /\ \/ HostAlive(t) /\ Become(t, To(j, "complete"))
     \/ Become(t, Undone(j))
  /\ UNCHANGED <<authority, world, books>>

Complete(t) ==
  LET j == job[t]
      s == states[t] IN
  /\ j.at = "complete"
  /\ Call(t, CanCompleteTerminalStart(s, j.revision), Started(s, j.generation, j.generation),
          [j EXCEPT !.at = "check", !.found = FALSE], Undone(j))
  /\ UNCHANGED <<world, books>>

(* Outside of the transition lock, the new runtime waits for its session. *)
Check(t) ==
  LET j == job[t]
      checking == [states[t] EXCEPT !.status = "checking"] IN
  /\ j.at = "check"
  /\ Call(t, CanUpdateTerminal(states[t], j.revision, j.generation, checking), checking,
          Done(j), To(j, "abort"))
  /\ UNCHANGED <<world, books>>

(* The end of a launch that failed.  If the thread is at the terminal under
   this launch, it is marked and the runtime is kept; otherwise the previous
   runtime is kept, as far as it still owns the thread. *)
Settle(t) ==
  LET j == job[t]
      s == states[t]
      ours == IsTerminal(s) /\ s.revision = j.revision
      failed == [s EXCEPT !.status = "error"] IN
  /\ j.at = "settle"
  /\ Attempt(t, ours /\ CanUpdateTerminal(s, s.revision, Fence(s.generation), failed), failed)
  /\ owned' = [owned EXCEPT ![t] =
                 ours \/ (@ /\ IsTerminal(s) /\ s.generation # Null /\ HostAlive(t))]
  /\ Become(t, GaveUp(j))
  /\ UNCHANGED <<world, deleted, unrecovered, attaching>>

-----------------------------------------------------------------------------
(* Ending a terminal epoch *)

Killing(t, j, then) ==
  [j EXCEPT !.at = "kill", !.then = then, !.revision = states[t].revision,
            !.generation = states[t].generation]

CanBeginStop_NotDrained(t) == TerminalIdle(states[t])                 \* mutant

CanBeginStop(t) == TerminalIdle(states[t]) /\ Drained(t)

StopBegins(t, j, then) ==
  LET killing == [Killing(t, j, then) EXCEPT
                    !.revision = IF then = "renew" THEN 0 ELSE @] IN
  IF states[t].status = "stopping" /\ (then = "renew" \/ CanBeginStop(t))
    THEN UNCHANGED authority /\ Become(t, killing)
    ELSE Call(t, CanBeginStop(t), Stopping(states[t]), killing, Failed(j))

LeaveBegins(t, j) ==
  Call(t, CanBeginStop(t), Stopping(states[t]), Killing(t, j, "leave"), Failed(j))

BeginTransition(t) ==
  LET j == job[t] IN
  /\ j.at = "begin"
  /\ \/ j.op = "restart" /\ StopBegins(t, j, "renew")
     \/ j.op = "chat" /\ LeaveBegins(t, j)
     \/ j.op = "stop" /\ IsTerminal(states[t]) /\ StopBegins(t, j, "stopped")
  /\ UNCHANGED <<world, books>>

(* abortTerminalLaunch: the launch returned, but its runtime could not be
   marked as checking. *)
Abort(t) ==
  LET j == [job[t] EXCEPT !.failing = TRUE]
      s == states[t] IN
  /\ job[t].at = "abort" /\ LockFree(t)
  /\ IF IsTerminal(s) /\ s.revision = j.revision /\ s.generation = j.generation
       THEN IF j.op = "start" THEN LeaveBegins(t, j) ELSE StopBegins(t, j, "stopped")
       ELSE UNCHANGED authority /\ Become(t, Failed(j))
  /\ UNCHANGED <<world, books>>

Kill_Unchecked(t) ==                                                  \* mutant
  LET j == job[t] IN
  /\ j.at = "kill"
  /\ Become(t, To(j, j.then))
  /\ \/ /\ IF host[t] = Null THEN UNCHANGED <<process, exits, watch>>
                             ELSE Ends(t, host[t], "gone")
        /\ host' = [host EXCEPT ![t] = Null]
     \/ host[t] # Null /\ UNCHANGED <<process, host, exits, watch>>
  /\ UNCHANGED <<authority, session, books>>

(* TerminalHost.kill, which throws while anything of the group is left. *)
Kill(t) ==
  LET j == job[t] IN
  /\ j.at = "kill"
  /\ \/ /\ Become(t, To(j, j.then))
        /\ IF host[t] = Null THEN UNCHANGED <<process, exits, watch>>
                             ELSE Ends(t, host[t], "gone")
        /\ host' = [host EXCEPT ![t] = Null]
     \/ /\ host[t] # Null
        /\ Become(t, IF j.op = "delete" \/ (j.then = "leave" /\ j.generation = Null)
                       THEN Failed(j) ELSE To(j, "blocked"))
        /\ UNCHANGED <<process, host, exits, watch>>
  /\ UNCHANGED <<authority, session, books>>

(* The thread is marked and stays with the terminal, for a retry. *)
Blocked(t) ==
  LET j == job[t]
      s == states[t]
      failed == [s EXCEPT !.status = "error"] IN
  /\ j.at = "blocked"
  /\ Attempt(t, CanUpdateTerminal(s, s.revision, Fence(j.generation), failed), failed)
  /\ Become(t, Failed(j))
  /\ UNCHANGED <<world, books>>

Renew(t) ==
  LET j == job[t]
      s == states[t] IN
  /\ j.at = "renew"
  /\ Call(t, CanBeginStop(t) /\ s.status \notin {"starting", "checking"},
          Starting(s.revision + 1),
          [j EXCEPT !.at = "spawn", !.revision = s.revision + 1], Failed(j))
  /\ UNCHANGED <<world, books>>

StoppedPatch(s) == [s EXCEPT !.status = "stopped", !.turn = FALSE, !.pid = Null]

MarkStopped(t) ==
  LET j == job[t]
      s == states[t] IN
  /\ j.at = "stopped"
  /\ Call(t, CanUpdateTerminal(s, j.revision, Fence(j.generation), StoppedPatch(s)),
          StoppedPatch(s), Done(j), Failed(j))
  /\ UNCHANGED <<world, books>>

(* completeStructuredSwitch or restoreStructured, the resumption of a session
   that was suspended, and completeStructuredRestore. *)
Leave(t) ==
  LET j == job[t]
      s == states[t] IN
  /\ j.at = "leave"
  /\ Call(t, CanLeaveTerminal(s, j.revision), Restoring(s),
          [j EXCEPT !.at = IF j.found THEN "resume" ELSE "ready",
                    !.revision = s.revision + 1],
          Failed(j))
  /\ UNCHANGED <<world, books>>

Resume(t) ==
  /\ job[t].at = "resume"
  /\ session' \in {session, [session EXCEPT ![t] = "idle"]}
  /\ Become(t, To(job[t], "ready"))
  /\ UNCHANGED <<authority, process, host, watch, exits, books>>

MakeReady(t) ==
  LET j == job[t] IN
  /\ j.at = "ready"
  /\ Call(t, CanCompleteStructuredRestore(states[t], j.revision),
          Structured(j.revision, "ready"), Done(j), Failed(j))
  /\ UNCHANGED <<world, books>>

(* The operation returns and the records of the service follow. *)
Finish(t) ==
  LET j == job[t] IN
  /\ j.at = "finish"
  /\ owned' = [owned EXCEPT ![t] = IF j.op = "none" THEN @ ELSE Launching(j)]
  /\ unrecovered' = [unrecovered EXCEPT ![t] = IF j.recovery THEN NoState ELSE @]
  /\ Become(t, NoJob)
  /\ UNCHANGED <<authority, world, deleted, attaching>>

(* The exit monitor drops the record of a thread that is structured again. *)
DropRecord(t) ==
  /\ job[t] = NoJob /\ owned[t] /\ IsStructured(states[t])
  /\ owned' = [owned EXCEPT ![t] = FALSE]
  /\ UNCHANGED <<authority, job, world, deleted, unrecovered, attaching>>

(* The exit monitor again: a turn the process died in is given up. *)
FinalizeExit(t) ==
  LET s == states[t]
      given == [s EXCEPT !.turn = FALSE] IN
  /\ job[t] = NoJob /\ owned[t]
  /\ IsTerminal(s) /\ s.status = "exited" /\ s.turn
  /\ Attempt(t, CanUpdateTerminal(s, s.revision, s.generation, given), given)
  /\ UNCHANGED <<job, world, books>>

-----------------------------------------------------------------------------
(* The structured stop *)

BeginFence(t) ==
  LET j == job[t]
      fence == Structured(states[t].revision + 1, "stopping") IN
  /\ j.at = "begin" /\ j.op = "stop" /\ IsStructured(states[t])
  /\ Call(t, ReadyForStructured(states[t]), fence,
          [j EXCEPT !.at = "drain", !.revision = fence.revision], Failed(j))
  /\ UNCHANGED <<world, books>>

Drain_NoTimeout(t) ==                                                 \* mutant
  LET j == job[t] IN
  /\ j.at = "drain" /\ Drained(t)
  /\ Become(t, IF j.op = "stop" THEN To(j, "halt")
               ELSE IF IsStructured(states[t]) THEN Done(j)
               ELSE Killing(t, j, "entomb"))
  /\ UNCHANGED <<authority, world, books>>

(* awaitClaimsDrained, for ten seconds. *)
Drain(t) ==
  LET j == job[t] IN
  /\ j.at = "drain"
  /\ \/ /\ Drained(t)
        /\ Become(t, IF j.op = "stop" THEN To(j, "halt")
                     ELSE IF IsStructured(states[t]) THEN Done(j)
                     ELSE Killing(t, j, "entomb"))
     \/ /\ ~Drained(t)
        /\ Become(t, IF j.op = "stop" THEN To(j, "release") ELSE Failed(j))
  /\ UNCHANGED <<authority, world, books>>

StopSession(t) ==
  /\ job[t].at = "halt"
  /\ session' \in {session, [session EXCEPT ![t] = "none"]}
  /\ Become(t, To(job[t], "release"))
  /\ UNCHANGED <<authority, process, host, watch, exits, books>>

(* Whatever came of the stop, the barrier is taken down. *)
Release(t) ==
  LET j == job[t] IN
  /\ j.at = "release"
  /\ Call(t, CanCompleteStructuredStop(states[t], j.revision),
          Structured(j.revision, "ready"), NoJob, NoJob)
  /\ UNCHANGED <<world, books>>

-----------------------------------------------------------------------------
(* Deletion: teardownThread and, when the provider session has been stopped
   too, finalizeThreadDeletion *)

BeginDeletion(t) ==
  LET j == job[t]
      s == states[t] IN
  /\ j.at = "begin" /\ j.op = "delete"
  /\ IF s.status = "deleting"
       THEN UNCHANGED authority /\ Become(t, [j EXCEPT !.at = "drain", !.revision = s.revision])
       ELSE Call(t, CanBeginThreadDeletion(s), DeletionBegun(s),
                 [j EXCEPT !.at = "drain", !.revision = DeletionBegun(s).revision],
                 Failed(j))
  /\ UNCHANGED <<world, books>>

Entomb(t) ==
  LET j == job[t] IN
  /\ j.at = "entomb"
  /\ Call(t, CanCompleteTerminalDeletion(states[t], j.revision),
          Structured(j.revision + 1, "deleting"), Done(j), Failed(j))
  /\ UNCHANGED <<world, books>>

FinalizeDeletion(t) ==
  /\ deleted[t] /\ session[t] = "none"
  /\ \A u \in Thread : Outside(job[u])
  /\ Tombstone(states[t]) /\ Drained(t)
  /\ Store(t, DefaultState) \/ StoreFails(t, DefaultState)
  /\ UNCHANGED <<job, world, books>>

DeleteThread(t) ==
  /\ CommandReady /\ ~deleted[t]
  /\ deleted' = [deleted EXCEPT ![t] = TRUE]
  /\ UNCHANGED <<authority, job, world, owned, unrecovered, attaching>>

-----------------------------------------------------------------------------
(* Structured turns and terminal hooks *)

Held(t, c, adapter) == claims[t][c].adapter = adapter /\ claims[t][c].holders > 0

ClaimOnly == UNCHANGED <<job, world, books>>

SessionOnly(t, next) ==
  /\ session' = [session EXCEPT ![t] = next]
  /\ UNCHANGED <<authority, job, process, host, watch, exits, books>>

(* A turn is admitted with a reservation, and the provider reactor claims it;
   a reservation that is missing by then is made up for. *)
ReserveTurn(t, c) ==
  CommandReady /\ ~deleted[t] /\ ReserveStructuredStart(t, c) /\ ClaimOnly

TakeTurn(t, c) ==
  /\ CommandReady
  /\ \/ ClaimStructuredStart(t, c)
     \/ ~Pruned[t][c].turnStart /\ AcquireStructured(t, c)
  /\ ClaimOnly

OpenSession(t, c) == Held(t, c, "structured") /\ session[t] = "none" /\ SessionOnly(t, "idle")

SendTurn(t, c) == Held(t, c, "structured") /\ session[t] = "idle" /\ SessionOnly(t, "running")

(* The turn goes on after the reactor has released its claim. *)
TurnEnds(t) == session[t] = "running" /\ SessionOnly(t, "idle")

SessionCloses(t) == session[t] # "none" /\ SessionOnly(t, "none")

(* A hook is admitted under the revision and generation of its runtime. *)
Lease(t, c) ==
  /\ owned[t] /\ states[t].generation # Null
  /\ AcquireTerminal(t, c, states[t].revision, states[t].generation)
  /\ ClaimOnly

HookPatch(t, c) ==
  LET s == states[t]
      claim == claims[t][c] IN
  /\ Held(t, c, "terminal")
  /\ \E n \in {[s EXCEPT !.status = "running", !.turn = TRUE],
               [s EXCEPT !.status = "ready", !.turn = FALSE]} :
       /\ CanUpdateTerminal(s, claim.revision, claim.generation, n)
       /\ Store(t, n) \/ StoreFails(t, n)
  /\ UNCHANGED <<job, world, books>>

ReleaseLease(t, c) == ReleaseClaim(t, c) /\ ClaimOnly

(* A client attaches to a terminal that is in use.  It may do so more than
   once, and with others, so the attempt outlives its failure. *)
BeginAttach(t) ==
  /\ IsTerminal(states[t]) /\ states[t].generation # Null
  /\ AcceptsOperations(states[t].status)
  /\ t \in Watched /\ attaching[t] # states[t].revision
  /\ attaching' = [attaching EXCEPT ![t] = states[t].revision]
  /\ UNCHANGED <<authority, job, world, owned, deleted, unrecovered>>

(* The attempt fails, or brings back no snapshot, at any later time: the epoch
   is marked without a lease and without a lock, whatever is being done to it
   by then.  A stop in progress is marked too, and then admits hooks again. *)
AttachFails(t) ==
  LET s == states[t]
      failed == [s EXCEPT !.status = "error"] IN
  /\ attaching[t] = s.revision /\ s.generation # Null
  /\ CanUpdateTerminal(s, attaching[t], s.generation, failed)
  /\ Store(t, failed) \/ StoreFails(t, failed)
  /\ UNCHANGED <<job, world, books>>

ReservationExpires(t, c) == ~claims[t][c].leased /\ ClaimExpires(t, c) /\ ClaimOnly

-----------------------------------------------------------------------------
(* Crash and recovery *)

(* The server dies and starts again: what it held in memory is gone, what its
   terminals run goes on, and every state on disk is listed for recovery. *)
Crash ==
  /\ LoadSnapshot
  /\ claims' = NoClaims
  /\ job' = [t \in Thread |-> NoJob]
  /\ session' = [t \in Thread |-> "none"]
  /\ host' = [t \in Thread |-> Null]
  /\ watch' = [t \in Thread |-> 0]
  /\ exits' = {}
  /\ owned' = [t \in Thread |-> FALSE]
  /\ attaching' = [t \in Thread |-> 0]
  /\ unrecovered' = [t \in Thread |-> IF disk[t] = DefaultState THEN NoState ELSE disk[t]]
  /\ UNCHANGED <<process, deleted>>

Recovered(t) ==
  /\ unrecovered' = [unrecovered EXCEPT ![t] = NoState]
  /\ UNCHANGED <<owned, deleted, attaching>>

(* recoverStructuredAuthority, whose failure is ignored. *)
RecoverStructured(t) ==
  LET u == unrecovered[t]
      s == states[t] IN
  /\ Free(t) /\ u # NoState /\ IsStructured(u)
  /\ CASE u.status = "deleting" -> UNCHANGED authority
       [] u.status = "stopping" ->
            Attempt(t, CanCompleteStructuredStop(s, u.revision), Structured(u.revision, "ready"))
       [] u.status \in {"ready", "restoring"} /\ deleted[t] ->
            Attempt(t, CanBeginThreadDeletion(s), DeletionBegun(s))
       [] u.status = "restoring" /\ ~deleted[t] ->
            Attempt(t, CanCompleteStructuredRestore(s, u.revision), Structured(u.revision, "ready"))
       [] OTHER -> UNCHANGED authority
  /\ Recovered(t)
  /\ UNCHANGED <<job, world>>

(* recoverTerminalRuntime: what becomes of the thread depends on its state, on
   whether it was deleted, and on settings that allow a terminal or do not. *)
RecoveryOps(t, u) ==
  CASE u.status = "deleting" -> {"none"}
    [] u.status # "deleting" /\ deleted[t] -> {"delete"}
    [] u.status \in {"stopping", "stopped"} /\ ~deleted[t] -> {"none", "chat"}
    [] OTHER -> {"restart", "chat"}

WasInterrupted(u) ==
  /\ u.status \notin {"deleting", "stopping", "stopped"}
  /\ InFlight(u) \/ u.status \in {"starting", "checking"}

BeginRecovery(t) ==
  LET u == unrecovered[t] IN
  /\ Free(t) /\ u # NoState /\ IsTerminal(u)
  /\ \E op \in RecoveryOps(t, u) :
       Become(t, [NoJob EXCEPT !.op = op, !.recovery = TRUE, !.at =
                    CASE u.status = "stopped" /\ op = "none" -> "finish"
                      [] WasInterrupted(u) -> "mark"
                      [] OTHER -> "verify"])
  /\ UNCHANGED <<authority, world, books>>

(* An interrupted terminal is marked before its owner is looked for, a stop
   that was interrupted is completed after that. *)
Mark(t) ==
  LET j == job[t]
      u == unrecovered[t]
      s == states[t]
      marked == IF u.status = "stopping" THEN StoppedPatch(s)
                                         ELSE [s EXCEPT !.status = "exited", !.turn = FALSE]
      next == CASE u.status # "stopping" -> "verify"
                [] u.status = "stopping" /\ j.op = "none" -> "finish"
                [] OTHER -> "enter" IN
  /\ j.at = "mark"
  /\ Call(t, CanUpdateTerminal(s, u.revision, Fence(u.generation), marked), marked,
          To(j, next), To(j, "missed"))
  /\ UNCHANGED <<world, books>>

Interrupted(s) == [s EXCEPT !.status = "error", !.turn = FALSE]

(* A recovery whose verification or launch failed marks the thread as it is by
   then. *)
RecoveryFailed(t) ==
  LET s == states[t] IN
  /\ job[t].at = "failed"
  /\ Attempt(t, CanUpdateTerminal(s, s.revision, Fence(s.generation), Interrupted(s)),
             Interrupted(s))
  /\ Become(t, To(job[t], "missed"))
  /\ UNCHANGED <<world, books>>

(* onRecoveryFailure: the thread is marked as long as it is in the epoch that
   was listed. *)
MarkMissed(t) ==
  LET u == unrecovered[t]
      s == states[t] IN
  /\ Attempt(t, /\ IsTerminal(u)
                /\ CanUpdateTerminal(s, u.revision, Fence(s.generation), Interrupted(s)),
             Interrupted(s))
  /\ Recovered(t)
  /\ UNCHANGED world

RecoveryMissed(t) == job[t].at = "missed" /\ MarkMissed(t) /\ Become(t, NoJob)

(* A recovery has 30 seconds, all of them together have two minutes. *)
RecoveryTimesOut(t) ==
  /\ job[t].recovery /\ job[t].at \in {"verify", "mark", "enter"}
  /\ Become(t, To(job[t], "missed"))
  /\ UNCHANGED <<authority, world, books>>

RecoveryGivesUp(t) ==
  unrecovered[t] # NoState /\ ~job[t].recovery /\ MarkMissed(t) /\ UNCHANGED job

-----------------------------------------------------------------------------
JobStep(t) ==
  \/ Verify(t) \/ Quiesce(t) \/ Enter(t)
  \/ Lookup(t) \/ BeginSwitch(t) \/ Suspend(t) \/ Prepare(t)
  \/ Spawn(t) \/ Adopt(t) \/ Listen(t) \/ Probe(t) \/ Complete(t)
  \/ Check(t) \/ Abort(t) \/ Settle(t)
  \/ BeginTransition(t) \/ Kill(t) \/ Blocked(t)
  \/ Renew(t) \/ MarkStopped(t) \/ Leave(t) \/ Resume(t) \/ MakeReady(t)
  \/ BeginFence(t) \/ Drain(t) \/ StopSession(t) \/ Release(t)
  \/ BeginDeletion(t) \/ Entomb(t)
  \/ Mark(t) \/ RecoveryFailed(t) \/ RecoveryMissed(t) \/ Finish(t)

Begin(t) ==
  \/ BeginStart(t) \/ BeginRestart(t) \/ BeginChat(t) \/ BeginStop(t)
  \/ BeginDelete(t) \/ BeginRecovery(t) \/ RecoverStructured(t)

TurnStep(t, c) ==
  \/ ReserveTurn(t, c) \/ TakeTurn(t, c)
  \/ OpenSession(t, c) \/ SendTurn(t, c)
  \/ Lease(t, c) \/ HookPatch(t, c)
  \/ ReleaseLease(t, c) \/ ReservationExpires(t, c)

CoordinatorInit ==
  /\ Init
  /\ job = [t \in Thread |-> NoJob]
  /\ session = [t \in Thread |-> "none"]
  /\ process = [t \in Thread |-> [g \in Generation |-> "unborn"]]
  /\ host = [t \in Thread |-> Null]
  /\ watch = [t \in Thread |-> 0]
  /\ exits = {}
  /\ owned = [t \in Thread |-> FALSE]
  /\ deleted = [t \in Thread |-> FALSE]
  /\ unrecovered = [t \in Thread |-> NoState]
  /\ attaching = [t \in Thread |-> 0]

CoordinatorNext ==
  \/ \E t \in Thread :
       \/ JobStep(t) \/ Begin(t)
       \/ \E c \in ClaimId : TurnStep(t, c)
       \/ TurnEnds(t) \/ SessionCloses(t)
       \/ ProcessExits(t) \/ HostTearsDown(t)
       \/ DropRecord(t) \/ FinalizeExit(t)
       \/ BeginAttach(t) \/ AttachFails(t)
       \/ DeleteThread(t) \/ FinalizeDeletion(t)
       \/ RecoveryTimesOut(t) \/ RecoveryGivesUp(t)
  \/ \E e \in exits : ReadExit(e) \/ PatchExit(e)
  \/ Crash

CoordinatorSpec == CoordinatorInit /\ [][CoordinatorNext]_allVars

(* A job goes on as long as it can.  The transition lock is handed over in the
   order it was asked for, so who waits for it gets it. *)
FairSpec ==
  /\ CoordinatorSpec
  /\ \A t \in Thread : WF_allVars(JobStep(t)) /\ SF_allVars(Enter(t) \/ Abort(t))

-----------------------------------------------------------------------------
(* Properties *)

(* No process of a terminal epoch outlives it: a thread that is structured
   again, in memory or on disk, has no terminal process left, whatever failed
   on the way and however often the server crashed. *)
OneOwner ==
  \A t \in Thread :
    IsStructured(states[t]) \/ IsStructured(disk[t]) => Live(t) = {}

(* A restart never runs beside the process it replaces. *)
AtMostOneProcess == \A t \in Thread : Cardinality(Live(t)) =< 1

(* No process is ever lost: the next start will find the identity of every
   process that is alive on disk, or a terminal state without any, which it
   refuses to believe has exited. *)
AccountedFor ==
  \A t \in Thread : \A g \in Live(t) :
    \/ disk[t].pid = g
    \/ IsTerminal(disk[t]) /\ disk[t].pid = Null /\ disk[t].status # "stopped"

(* The epoch is open for hooks, and a client attached to it, whose failure may
   have opened it again. *)
Reopened(t) ==
  /\ attaching[t] = states[t].revision /\ states[t].generation # Null
  /\ states[t].status \notin {"stopping", "deleting"}

(* Nobody works with a process that is about to be killed, unless its epoch was
   reopened after the claims were drained, and never when the thread is being
   deleted.  And a process is spawned only where the host holds no other. *)
KillsAlone ==
  \A t \in Thread :
    /\ job[t].at = "kill" =>
         \/ \A c \in ClaimId : claims[t][c] = NoClaim
         \/ job[t].op # "delete" /\ Reopened(t)
    /\ job[t].at = "spawn" => host[t] = Null

(* An exit is never held against a runtime that did not exit: whatever callback
   of an earlier process comes late, as long as the host has a live process
   the epoch is not marked as exited. *)
ExitedIsTrue ==
  \A t \in Thread :
    IsTerminal(states[t]) /\ states[t].status = "exited" => ~HostAlive(t)

(* The authority is used through its operations only, each with what it checks:
   what it promises its callers (module ExecutionAdapterAuthority) it promises
   under this very caller. *)
ImplementsAuthority == Spec

(* Whoever waits for claims, for a process or for the lock, every operation
   returns: it gives its lock back, done or failed. *)
EveryJobEnds == \A t \in Thread : job[t] # NoJob ~> job[t] = NoJob

(* The plan: at any time only one of the two adapters executes a thread.  No
   structured turn is running while a terminal process is alive. *)
NoTurnBesideTerminal == \A t \in Thread : Live(t) # {} => session[t] # "running"
=============================================================================
