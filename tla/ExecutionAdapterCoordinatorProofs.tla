------------------ MODULE ExecutionAdapterCoordinatorProofs ------------------
(***************************************************************************)
(* The coordinator keeps what the authority promises, and no terminal      *)
(* process outlives its epoch, for any threads, claims and processes, any  *)
(* number of failed writes, spawns and kills, late exits, crashes and      *)
(* recoveries.                                                             *)
(***************************************************************************)
EXTENDS ExecutionAdapterCoordinator, ExecutionAdapterAuthorityProofs, FiniteSetTheorems

-----------------------------------------------------------------------------
(* What the variables hold *)

Op == {"none", "start", "restart", "chat", "stop", "delete"}

Launch == {"suspend", "prepare", "spawn", "adopt", "listen", "probe", "complete"}

Place ==
  Launch \cup
  {"idle", "verify", "quiesce", "enter", "lookup", "begin", "check", "abort", "settle", "kill",
   "blocked", "renew", "stopped", "leave", "resume", "ready", "drain", "halt", "release", "entomb",
   "mark", "failed", "missed", "finish"}

JobRow ==
  [op : Op, at : Place, then : Place, revision : Nat, generation : Generation \cup {Null},
   found : BOOLEAN, failing : BOOLEAN, recovery : BOOLEAN]

Exit ==
  [thread : Thread, revision : Nat, generation : Generation, seen : {"nothing", "unborn", "born"}]

CoordinatorType ==
  /\ job \in [Thread -> JobRow]
  /\ process \in [Thread -> [Generation -> {"unborn", "running", "headless", "gone"}]]
  /\ host \in [Thread -> Generation \cup {Null}]
  /\ watch \in [Thread -> Nat]
  /\ exits \subseteq Exit
  /\ owned \in [Thread -> BOOLEAN]
  /\ deleted \in [Thread -> BOOLEAN]
  /\ unrecovered \in [Thread -> ThreadState \cup {NoState}]
  /\ attaching \in [Thread -> Nat]

-----------------------------------------------------------------------------
(* What a job relies on *)

(* Which operation is where. *)
Shape(j) ==
  /\ j.at \in Launch \cup {"check", "abort", "settle", "renew"} => Launching(j)
  /\ j.at \in {"lookup", "suspend", "prepare"} => j.op = "start"
  /\ j.at = "renew" \/ j.then = "renew" => j.op = "restart"
  /\ j.at \in {"halt", "release"} => j.op = "stop"
  /\ j.at = "drain" => j.op \in {"stop", "delete"}
  /\ j.at = "entomb" => j.op = "delete"
  /\ j.at = "kill" => /\ j.then \in {"leave", "blocked", "renew", "stopped", "entomb"}
                      /\ j.op = "delete" <=> j.then = "entomb"
  /\ j.at = "mark" => j.recovery
  /\ j.failing => Launching(j)
  /\ j.recovery => j.op \in {"none", "restart", "chat", "delete"}
  /\ j.op = "none" => j.at \in {"idle", "verify", "mark", "finish", "failed", "missed"}
  /\ j.op = "none" => j.recovery \/ j = NoJob
  /\ j.at = "quiesce" => ~j.recovery /\ j.op \notin {"restart", "chat"}
  /\ j.at = "idle" => j = NoJob
  /\ ~j.recovery => j.at \notin {"failed", "missed"}

(* How often the job may still raise the revision. *)
Room(j) ==
  IF \/ j.at \in {"enter", "verify", "quiesce", "mark", "lookup", "begin", "renew"}
     \/ j.at = "kill" /\ j.then = "renew"
    THEN 2
  ELSE IF j.at \in Launch \cup {"check", "abort", "kill", "leave", "drain", "entomb"}
    THEN 1
  ELSE 0

HasRoom(t) ==
  states[t].revision + Room(job[t]) =< MaxRevision /\ disk[t].revision =< MaxRevision

(* Who is recovered, and by what. *)
Recovery(t) ==
  LET j == job[t]
      u == unrecovered[t] IN
  /\ j.recovery => u # NoState /\ IsTerminal(u)
  /\ j.op = "none" /\ j.at \in {"verify", "mark"} => u.status \in {"deleting", "stopping"}
  /\ u # NoState /\ ~j.recovery => j.op \in {"none", "delete"}
  /\ u # NoState /\ (~j.recovery \/ j.at \in {"verify", "mark", "enter", "begin"}) => host[t] = Null
  /\ u # NoState /\ IsTerminal(u) /\ ~deleted[t] /\ j = NoJob => IsTerminal(states[t])
  /\ j.op = "restart" /\ j.at \in {"verify", "mark", "enter", "begin"} => IsTerminal(states[t])

Deletion(t) ==
  LET j == job[t] IN
  /\ j.op = "delete" => deleted[t]
  /\ j.op = "delete" /\ j.at \in {"drain", "kill"} => states[t].status = "deleting"
  /\ Tombstone(states[t]) => deleted[t] /\ ~Launching(j)
  /\ Tombstone(disk[t]) => deleted[t]

-----------------------------------------------------------------------------
(* Claims *)

NoClaimOn(t) == \A c \in ClaimId : claims[t][c] = NoClaim

Closed(s) == s.generation = Null \/ s.status \in {"stopping", "deleting"}

Quiet(t) ==
  LET s == states[t] IN
  /\ IsTerminal(s) /\ (s.generation = Null \/ s.status = "stopping") => NoClaimOn(t)
  /\ job[t].at = "kill" =>
       /\ IsTerminal(s)
       /\ (Closed(s) /\ NoClaimOn(t)) \/ (job[t].op # "delete" /\ Reopened(t))
  /\ job[t].at \in Launch =>
       IsTerminal(s) /\ s.generation = Null /\ s.revision = job[t].revision

-----------------------------------------------------------------------------
(* Processes *)

(* What is alive and not in a session of the host: a crash leaves it. *)
Loose(t) == Live(t) \ {host[t]}

Knows(s, g) == s.pid = g \/ (IsTerminal(s) /\ s.pid = Null /\ s.status # "stopped")

Plain(s) == IsStructured(s) => s.pid = Null

Awaits(s) == IsTerminal(s) /\ s.pid = Null /\ s.status # "stopped"

(* Where a job has not yet made sure that nothing is left of an earlier server. *)
Unverified(t) ==
  LET j == job[t] IN
  \/ j.at \in {"idle", "verify", "failed", "missed"}
  \/ j.at = "enter" /\ j.op = "stop"
  \/ j.at = "mark" /\ unrecovered[t].status # "stopping"
  \/ j.at = "finish" /\ j.op = "none"

Known(t) ==
  /\ Plain(states[t]) /\ Plain(disk[t])
  /\ \A g \in Live(t) : Knows(states[t], g) /\ Knows(disk[t], g)
  /\ \A g \in Loose(t) : unrecovered[t] # NoState => Knows(unrecovered[t], g)
  /\ Loose(t) # {} => host[t] = Null /\ ~owned[t] /\ Unverified(t)
  /\ \A g, h \in Live(t) : g = h

(* When the host holds nothing, and what it holds while a launch goes on. *)
Hosted(t) ==
  LET j == job[t]
      s == states[t] IN
  /\ \/ IsStructured(s) \/ StoppedForGood(s)
     \/ j.at \in {"suspend", "prepare", "spawn", "renew", "leave", "resume", "ready", "stopped",
                  "entomb"}
     => host[t] = Null
  /\ j.at \in {"adopt", "listen", "probe", "complete"} =>
       j.generation \in Generation /\ host[t] \in {Null, j.generation}
  /\ j.at \in {"suspend", "prepare", "spawn"} =>
       Awaits(s) /\ Awaits(disk[t]) /\ s.status # "exited"
  /\ watch[t] # 0 => HostAlive(t)

(* Exits *)
Told(t) ==
  LET s == states[t] IN
  /\ watch[t] =< s.revision \/ (deleted[t] /\ ~Launching(job[t]))
  /\ IsTerminal(s) /\ s.status = "exited" => ~HostAlive(t)
  /\ \A e \in exits : e.thread = t =>
       /\ process[t][e.generation] \in {"headless", "gone"}
       /\ e.revision =< s.revision \/ (deleted[t] /\ ~Launching(job[t]))
       /\ job[t].at \in {"suspend", "prepare", "spawn"} => e.revision < s.revision
       /\ e.revision = s.revision /\ IsTerminal(s) => host[t] \in {Null, e.generation}

CoordinatorInv ==
  /\ Inv /\ CoordinatorType /\ available /\ ~marker
  /\ \A t \in Thread :
       /\ Shape(job[t]) /\ HasRoom(t) /\ Recovery(t) /\ Deletion(t)
       /\ Quiet(t) /\ Known(t) /\ Hosted(t) /\ Told(t)

-----------------------------------------------------------------------------
(* Jobs, field by field *)

(* The job goes on at another place. *)
Goes(j, k, at) ==
  /\ k \in JobRow
  /\ k.at = at /\ k.op = j.op /\ k.recovery = j.recovery /\ k.then = j.then
  /\ k.revision = j.revision /\ k.generation = j.generation
  /\ k.failing => j.failing \/ Launching(j)

(* The same, with the revision it has reached. *)
Rises(j, k, at, revision) ==
  /\ k \in JobRow
  /\ k.at = at /\ k.op = j.op /\ k.recovery = j.recovery /\ k.then = j.then
  /\ k.revision = revision /\ k.generation = j.generation
  /\ k.failing => j.failing \/ Launching(j)

(* The job has a process to kill, and knows what comes after that. *)
Kills(j, k, then) ==
  /\ k \in JobRow
  /\ k.at = "kill" /\ k.op = j.op /\ k.recovery = j.recovery
  /\ k.then = then
  /\ k.failing => j.failing \/ Launching(j)

GivesUp(j, k) ==
  \/ ~j.recovery /\ k = NoJob
  \/ j.recovery /\ Goes(j, k, IF Launching(j) THEN "failed" ELSE "missed")

Fails(j, k) ==
  \/ Launching(j) /\ Goes(j, k, "settle")
  \/ ~Launching(j) /\ GivesUp(j, k)

Undoes(j, k) == Kills(j, k, IF j.op = "start" THEN "leave" ELSE "blocked")

Returns(j, k) == Goes(j, k, IF j.failing THEN "settle" ELSE "finish")

(* One call of the authority, with what becomes of the job. *)
Calls(t, can, s, ok, failed) ==
  \/ can /\ Store(t, s) /\ ok
  \/ can /\ StoreFails(t, s) /\ failed
  \/ ~can /\ UNCHANGED authority /\ failed

Stops(t, j, k, then) ==
  IF states[t].status = "stopping" /\ (then = "renew" \/ CanBeginStop(t))
    THEN UNCHANGED authority /\ Kills(j, k, then)
    ELSE Calls(t, CanBeginStop(t), Stopping(states[t]), Kills(j, k, then), Fails(j, k))

LEMMA PlaceNames ==
  /\ {"suspend", "prepare", "spawn", "adopt", "listen", "probe", "complete"} \subseteq Place
  /\ {"idle", "verify", "quiesce", "enter", "lookup", "begin", "check", "abort", "settle",
      "kill"} \subseteq Place
  /\ {"blocked", "renew", "stopped", "leave", "resume", "ready", "drain", "halt", "release",
      "entomb"} \subseteq Place
  /\ {"mark", "failed", "missed", "finish"} \subseteq Place
BY DEF Place, Launch

(* A job that does not run is well typed. *)
LEMMA NoJobRow == NoJob \in JobRow
BY PlaceNames DEF NoJob, JobRow, Op

(* To changes the place and nothing else. *)
LEMMA ToGoes ==
  ASSUME NEW j \in JobRow, NEW p \in Place PROVE Goes(j, To(j, p), p)
BY DEF Goes, To, JobRow

LEMMA GaveUpGivesUp ==
  ASSUME NEW j \in JobRow PROVE GivesUp(j, GaveUp(j))
BY ToGoes, PlaceNames, Zenon DEF GivesUp, GaveUp

LEMMA FailedFails ==
  ASSUME NEW j \in JobRow PROVE Fails(j, Failed(j))
BY ToGoes, GaveUpGivesUp, PlaceNames, Zenon DEF Fails, Failed

LEMMA DoneReturns ==
  ASSUME NEW j \in JobRow
  PROVE  Returns(j, Done(j))
BY ToGoes, PlaceNames, Zenon DEF Returns, Done

LEMMA UndoneKills ==
  ASSUME NEW j \in JobRow, NEW f \in BOOLEAN, Launching(j)
  PROVE  Undoes(j, Undone(j)) /\ Undoes(j, Undone([j EXCEPT !.found = f]))
<1>1. {"kill", "leave", "blocked"} \subseteq Place
  BY PlaceNames
<1>2. \A i \in JobRow : Undoes(i, Undone(i)) \/ ~Launching(i)
  BY <1>1 DEF Undoes, Kills, Undone, JobRow
<1> DEFINE i == [j EXCEPT !.found = f]
<1>3. /\ i \in JobRow /\ i.op = j.op /\ i.recovery = j.recovery /\ i.failing = j.failing
  BY DEF JobRow
<1>4. QED
  BY <1>2, <1>3 DEF Undoes, Kills, Launching

LEMMA RaisesRises ==
  ASSUME NEW j \in JobRow, NEW p \in Place, NEW r \in Nat
  PROVE  Rises(j, [j EXCEPT !.at = p, !.revision = r], p, r)
BY DEF Rises, JobRow

LEMMA KillingKills ==
  ASSUME NEW t \in Thread, NEW j \in JobRow, NEW p \in Place, states[t] \in ThreadState
  PROVE  /\ Kills(j, Killing(t, j, p), p)
         /\ Kills(j, [Killing(t, j, p) EXCEPT !.revision = IF p = "renew" THEN 0 ELSE @], p)
<1>1. "kill" \in Place
  BY PlaceNames
<1>2. states[t].revision \in Nat /\ states[t].generation \in Generation \cup {Null}
  BY DEF ThreadState
<1>3. Killing(t, j, p) \in JobRow
  BY <1>1, <1>2 DEF Killing, JobRow
<1>4. QED
  BY <1>1, <1>2, <1>3 DEF Kills, Killing, JobRow

-----------------------------------------------------------------------------
(* What each step of a job makes of it: k is the job after the step, s the     *)
(* state of its thread before.                                                 *)

JobTyped(t) ==
  /\ job \in [Thread -> JobRow] /\ job[t] \in JobRow /\ Shape(job[t])
  /\ states[t] \in ThreadState

Checks(t, j, k) ==
  \/ j.recovery /\ Owner(t).status = "deleting" /\ Goes(j, k, "finish")
  \/ /\ j.recovery /\ Owner(t).status = "stopping" /\ j.op # "delete"
     /\ Goes(j, k, "mark")
  \/ /\ j.recovery /\ Owner(t).status # "deleting"
     /\ Owner(t).status = "stopping" => j.op = "delete"
     /\ Goes(j, k, "enter")
  \/ ~j.recovery /\ j.op \in {"restart", "chat"} /\ GivesUp(j, k)
  \/ ~j.recovery /\ j.op \in {"restart", "chat"} /\ Goes(j, k, "enter")
  \/ ~j.recovery /\ j.op \notin {"restart", "chat"} /\ Goes(j, k, "quiesce")

(* A step of a job leaves the jobs of the other threads alone. *)
LEMMA BecomesThat ==
  ASSUME NEW t \in Thread, job \in [Thread -> JobRow]
  PROVE  \A k : Become(t, k) => job'[t] = k
BY DEF Become

LEMMA VerifyMoves ==
  ASSUME NEW t \in Thread, JobTyped(t), Verify(t)
  PROVE  LET j == job[t]
             k == job'[t]
             s == states[t] IN
    /\ j.at = "verify"
    /\ UNCHANGED <<authority, session, host, books>>
    /\ \/ NothingToVerify(t) /\ Checks(t, j, k) /\ UNCHANGED <<process, exits, watch>>
       \/ /\ ~NothingToVerify(t) /\ Owner(t).pid # Null
          /\ Checks(t, j, k) /\ Ends(t, Owner(t).pid, "gone")
       \/ /\ ~NothingToVerify(t)
          /\ (j.recovery /\ Goes(j, k, "failed")) \/ (~j.recovery /\ k = NoJob)
          /\ \/ UNCHANGED <<process, exits, watch>>
             \/ Owner(t).pid # Null /\ Ends(t, Owner(t).pid, "gone")
<1> DEFINE j == job[t]
<1>1. j \in JobRow /\ Shape(j) /\ states[t] \in ThreadState
  BY DEF JobTyped
<1>2. \A i : Become(t, i) => job'[t] = i
  BY BecomesThat DEF JobTyped
<1>3. \A p \in Place : Goes(j, To(j, p), p)
  BY <1>1, ToGoes
<1>4. Fails(j, Failed(j)) /\ GivesUp(j, GaveUp(j)) /\ Returns(j, Done(j))
  BY <1>1, FailedFails, GaveUpGivesUp, DoneReturns
<1>5. /\ Goes(j, To(j, "finish"), "finish") /\ Goes(j, To(j, "mark"), "mark")
      /\ Goes(j, To(j, "enter"), "enter") /\ Goes(j, To(j, "quiesce"), "quiesce")
      /\ Goes(j, To(j, "failed"), "failed")
  BY <1>3, PlaceNames
<1>6. Checks(t, j, Verified(t))
  <2>0. j.recovery \in BOOLEAN
    BY <1>1 DEF JobRow
  <2>1. CASE j.recovery /\ Owner(t).status = "deleting"
    BY <1>5, <2>0, <2>1 DEF Checks, Verified
  <2>2. CASE j.recovery /\ Owner(t).status = "stopping" /\ j.op # "delete"
    BY <1>5, <2>0, <2>2 DEF Checks, Verified
  <2>3. CASE /\ j.recovery /\ Owner(t).status # "deleting"
             /\ Owner(t).status = "stopping" => j.op = "delete"
    BY <1>5, <2>0, <2>3 DEF Checks, Verified
  <2>4. CASE ~j.recovery /\ j.op \in {"restart", "chat"}
    BY <1>4, <1>5, <2>4 DEF Checks, Verified
  <2>5. CASE ~j.recovery /\ j.op \notin {"restart", "chat"}
    BY <1>5, <2>5 DEF Checks, Verified
  <2>6. QED
    BY <1>1, <2>1, <2>2, <2>3, <2>4, <2>5 DEF JobRow
<1>7. QED
  BY <1>1, <1>2, <1>5, <1>6, Verify(t) DEF Verify, JobRow

LEMMA QuiesceMoves ==
  ASSUME NEW t \in Thread, JobTyped(t), Quiesce(t)
  PROVE  LET j == job[t]
             k == job'[t]
             s == states[t] IN
    j.at = "quiesce" /\ Goes(j, k, IF j.op = "stop" THEN "begin" ELSE "enter")
<1> DEFINE j == job[t]
<1>1. j \in JobRow /\ Shape(j) /\ states[t] \in ThreadState
  BY DEF JobTyped
<1>2. \A i : Become(t, i) => job'[t] = i
  BY BecomesThat DEF JobTyped
<1>3. \A p \in Place : Goes(j, To(j, p), p)
  BY <1>1, ToGoes
<1>4. Fails(j, Failed(j)) /\ GivesUp(j, GaveUp(j)) /\ Returns(j, Done(j))
  BY <1>1, FailedFails, GaveUpGivesUp, DoneReturns
<1>5. QED
  BY <1>1, <1>2, <1>3, <1>4, PlaceNames, Quiesce(t) DEF Quiesce

LEMMA EnterMoves ==
  ASSUME NEW t \in Thread, JobTyped(t), Enter(t)
  PROVE  LET j == job[t]
             k == job'[t]
             s == states[t] IN
    /\ j.at = "enter"
    /\ \/ j.op = "start" /\ Goes(j, k, "lookup")
       \/ j.op = "stop" /\ IsTerminal(states[t]) /\ Goes(j, k, "verify")
       \/ /\ j.op # "start" /\ (j.op = "stop" => ~IsTerminal(states[t]))
          /\ Goes(j, k, "begin")
       \/ j.op = "restart" /\ Fails(j, k)
<1> DEFINE j == job[t]
<1>1. j \in JobRow /\ Shape(j) /\ states[t] \in ThreadState
  BY DEF JobTyped
<1>2. \A i : Become(t, i) => job'[t] = i
  BY BecomesThat DEF JobTyped
<1>3. \A p \in Place : Goes(j, To(j, p), p)
  BY <1>1, ToGoes
<1>4. Fails(j, Failed(j)) /\ GivesUp(j, GaveUp(j)) /\ Returns(j, Done(j))
  BY <1>1, FailedFails, GaveUpGivesUp, DoneReturns
<1>5. QED
  BY <1>1, <1>2, <1>3, <1>4, PlaceNames, Enter(t) DEF Enter

LEMMA LookupMoves ==
  ASSUME NEW t \in Thread, JobTyped(t), Lookup(t)
  PROVE  LET j == job[t]
             k == job'[t]
             s == states[t] IN
    j.at = "lookup" /\ (Goes(j, k, "begin") \/ Fails(j, k))
<1> DEFINE j == job[t]
<1>1. j \in JobRow /\ Shape(j) /\ states[t] \in ThreadState
  BY DEF JobTyped
<1>2. \A i : Become(t, i) => job'[t] = i
  BY BecomesThat DEF JobTyped
<1>3. \A p \in Place : Goes(j, To(j, p), p)
  BY <1>1, ToGoes
<1>4. Fails(j, Failed(j)) /\ GivesUp(j, GaveUp(j)) /\ Returns(j, Done(j))
  BY <1>1, FailedFails, GaveUpGivesUp, DoneReturns
<1>5. LET i == [j EXCEPT !.at = "begin", !.found = session[t] = "idle"] IN Goes(j, i, "begin")
  BY <1>1, PlaceNames DEF Goes, JobRow
<1>6. QED
  BY <1>1, <1>2, <1>3, <1>4, PlaceNames, Lookup(t), <1>5 DEF Lookup

LEMMA BeginSwitchMoves ==
  ASSUME NEW t \in Thread, JobTyped(t), BeginSwitch(t)
  PROVE  LET j == job[t]
             k == job'[t]
             s == states[t] IN
    /\ j.at = "begin" /\ j.op = "start"
    /\ Calls(t, ReadyForStructured(s) /\ Drained(t), Starting(s.revision + 1),
             \E p \in {"suspend", "prepare"} : Rises(j, k, p, s.revision + 1), Fails(j, k))
<1> DEFINE j == job[t]
<1>1. j \in JobRow /\ Shape(j) /\ states[t] \in ThreadState
  BY DEF JobTyped
<1>2. \A i : Become(t, i) => job'[t] = i
  BY BecomesThat DEF JobTyped
<1>3. \A p \in Place : Goes(j, To(j, p), p)
  BY <1>1, ToGoes
<1>4. Fails(j, Failed(j)) /\ GivesUp(j, GaveUp(j)) /\ Returns(j, Done(j))
  BY <1>1, FailedFails, GaveUpGivesUp, DoneReturns
<1>5. states[t].revision + 1 \in Nat
  BY <1>1 DEF ThreadState
<1>6. \A r \in Nat : LET i == [j EXCEPT !.at = IF j.found THEN "suspend" ELSE "prepare", !.revision = r] IN
        \E p \in {"suspend", "prepare"} : Rises(j, i, p, r)
  BY <1>1, PlaceNames DEF Rises, JobRow
<1>7. Starting(states[t].revision + 1).revision = states[t].revision + 1
  BY DEF Starting
<1>8. LET i == [j EXCEPT !.at = IF j.found THEN "suspend" ELSE "prepare",
                         !.revision = Starting(states[t].revision + 1).revision] IN
        \E p \in {"suspend", "prepare"} : Rises(j, i, p, states[t].revision + 1)
  BY <1>5, <1>6, <1>7, Zenon
<1>9. QED
  BY <1>1, <1>2, <1>3, <1>4, PlaceNames, BeginSwitch(t), <1>5, <1>6, <1>7, <1>8 DEF BeginSwitch, Call, Calls

LEMMA SuspendMoves ==
  ASSUME NEW t \in Thread, JobTyped(t), Suspend(t)
  PROVE  LET j == job[t]
             k == job'[t]
             s == states[t] IN
    j.at = "suspend" /\ (Goes(j, k, "prepare") \/ Undoes(j, k))
<1> DEFINE j == job[t]
<1>1. j \in JobRow /\ Shape(j) /\ states[t] \in ThreadState
  BY DEF JobTyped
<1>2. \A i : Become(t, i) => job'[t] = i
  BY BecomesThat DEF JobTyped
<1>3. \A p \in Place : Goes(j, To(j, p), p)
  BY <1>1, ToGoes
<1>4. Fails(j, Failed(j)) /\ GivesUp(j, GaveUp(j)) /\ Returns(j, Done(j))
  BY <1>1, FailedFails, GaveUpGivesUp, DoneReturns
<1>5. j.at = "suspend" => Undoes(j, Undone(j)) /\ \A f \in BOOLEAN : Undoes(j, Undone([j EXCEPT !.found = f]))
  BY <1>1, UndoneKills DEF Shape, Launch
<1>6. QED
  BY <1>1, <1>2, <1>3, <1>4, PlaceNames, Suspend(t), <1>5 DEF Suspend

LEMMA PrepareMoves ==
  ASSUME NEW t \in Thread, JobTyped(t), Prepare(t)
  PROVE  LET j == job[t]
             k == job'[t]
             s == states[t] IN
    /\ j.at = "prepare"
    /\ \/ UNCHANGED authority /\ Undoes(j, k)
       \/ Calls(t, CanUpdateTerminal(s, j.revision, "any", s), s, Goes(j, k, "spawn"),
                Undoes(j, k))
<1> DEFINE j == job[t]
<1>1. j \in JobRow /\ Shape(j) /\ states[t] \in ThreadState
  BY DEF JobTyped
<1>2. \A i : Become(t, i) => job'[t] = i
  BY BecomesThat DEF JobTyped
<1>3. \A p \in Place : Goes(j, To(j, p), p)
  BY <1>1, ToGoes
<1>4. Fails(j, Failed(j)) /\ GivesUp(j, GaveUp(j)) /\ Returns(j, Done(j))
  BY <1>1, FailedFails, GaveUpGivesUp, DoneReturns
<1>5. j.at = "prepare" => Undoes(j, Undone(j)) /\ \A f \in BOOLEAN : Undoes(j, Undone([j EXCEPT !.found = f]))
  BY <1>1, UndoneKills DEF Shape, Launch
<1>6. QED
  BY <1>1, <1>2, <1>3, <1>4, PlaceNames, Prepare(t), <1>5 DEF Prepare, Call, Calls

LEMMA SpawnMoves ==
  ASSUME NEW t \in Thread, JobTyped(t), Spawn(t)
  PROVE  LET j == job[t]
             k == job'[t]
             s == states[t] IN
    /\ j.at = "spawn"
    /\ \/ \E g \in Fresh :
            /\ host[t] = Null
            /\ host' = [host EXCEPT ![t] = g]
            /\ \/ /\ process' = [process EXCEPT ![t][g] = "running"]
                  /\ k \in JobRow /\ k.at = "adopt" /\ k.op = j.op /\ k.recovery = j.recovery
                  /\ k.then = j.then /\ k.revision = j.revision /\ k.generation = g
                  /\ k.failing = j.failing
               \/ process' = [process EXCEPT ![t][g] = "headless"] /\ Undoes(j, k)
       \/ Undoes(j, k) /\ UNCHANGED <<process, host>>
<1> DEFINE j == job[t]
<1>1. j \in JobRow /\ Shape(j) /\ states[t] \in ThreadState
  BY DEF JobTyped
<1>2. \A i : Become(t, i) => job'[t] = i
  BY BecomesThat DEF JobTyped
<1>3. \A p \in Place : Goes(j, To(j, p), p)
  BY <1>1, ToGoes
<1>4. Fails(j, Failed(j)) /\ GivesUp(j, GaveUp(j)) /\ Returns(j, Done(j))
  BY <1>1, FailedFails, GaveUpGivesUp, DoneReturns
<1>5. j.at = "spawn" => Undoes(j, Undone(j))
  BY <1>1, UndoneKills DEF Shape, Launch
<1>6. \A g \in Generation : LET i == [j EXCEPT !.at = "adopt", !.generation = g] IN
        /\ i \in JobRow /\ i.at = "adopt" /\ i.op = j.op /\ i.recovery = j.recovery
        /\ i.then = j.then /\ i.revision = j.revision /\ i.generation = g
        /\ i.failing = j.failing
  BY <1>1, PlaceNames DEF JobRow
<1>7. CASE Become(t, Undone(j)) /\ UNCHANGED <<process, host>>
  BY <1>1, <1>2, <1>5, <1>7, Spawn(t) DEF Spawn
<1>8. CASE \E g \in IF host[t] = Null THEN Fresh ELSE {} :
             /\ host' = [host EXCEPT ![t] = g]
             /\ \/ /\ process' = [process EXCEPT ![t][g] = "running"]
                   /\ Become(t, [j EXCEPT !.at = "adopt", !.generation = g])
                \/ /\ process' = [process EXCEPT ![t][g] = "headless"]
                   /\ Become(t, Undone(j))
  <2>1. PICK g \in Fresh :
          /\ host[t] = Null /\ host' = [host EXCEPT ![t] = g]
          /\ \/ /\ process' = [process EXCEPT ![t][g] = "running"]
                /\ Become(t, [j EXCEPT !.at = "adopt", !.generation = g])
             \/ /\ process' = [process EXCEPT ![t][g] = "headless"]
                /\ Become(t, Undone(j))
    BY <1>8
  <2>2. g \in Generation /\ j.at = "spawn"
    BY Spawn(t) DEF Spawn, Fresh
  <2>3. CASE process' = [process EXCEPT ![t][g] = "running"]
             /\ Become(t, [j EXCEPT !.at = "adopt", !.generation = g])
    <3>1. job'[t] = [j EXCEPT !.at = "adopt", !.generation = g]
      BY <1>2, <2>3
    <3>2. LET k == job'[t] IN
            /\ k \in JobRow /\ k.at = "adopt" /\ k.op = j.op /\ k.recovery = j.recovery
            /\ k.then = j.then /\ k.revision = j.revision /\ k.generation = g
            /\ k.failing = j.failing
      BY <1>1, <2>2, <3>1, PlaceNames DEF JobRow
    <3>3. QED
      BY <2>1, <2>2, <2>3, <3>2
  <2>4. CASE process' = [process EXCEPT ![t][g] = "headless"] /\ Become(t, Undone(j))
    BY <1>2, <1>5, <2>1, <2>2, <2>4
  <2>5. QED
    BY <2>1, <2>3, <2>4
<1>9. QED
  BY <1>7, <1>8, Spawn(t) DEF Spawn

LEMMA AdoptMoves ==
  ASSUME NEW t \in Thread, JobTyped(t), Adopt(t)
  PROVE  LET j == job[t]
             k == job'[t]
             s == states[t] IN
    /\ j.at = "adopt"
    /\ LET adopted == [s EXCEPT !.pid = j.generation] IN
         Calls(t, CanUpdateTerminal(s, j.revision, "any", adopted), adopted,
               Goes(j, k, "listen"), Undoes(j, k))
<1> DEFINE j == job[t]
<1>1. j \in JobRow /\ Shape(j) /\ states[t] \in ThreadState
  BY DEF JobTyped
<1>2. \A i : Become(t, i) => job'[t] = i
  BY BecomesThat DEF JobTyped
<1>3. \A p \in Place : Goes(j, To(j, p), p)
  BY <1>1, ToGoes
<1>4. Fails(j, Failed(j)) /\ GivesUp(j, GaveUp(j)) /\ Returns(j, Done(j))
  BY <1>1, FailedFails, GaveUpGivesUp, DoneReturns
<1>5. j.at = "adopt" => Undoes(j, Undone(j)) /\ \A f \in BOOLEAN : Undoes(j, Undone([j EXCEPT !.found = f]))
  BY <1>1, UndoneKills DEF Shape, Launch
<1>6. QED
  BY <1>1, <1>2, <1>3, <1>4, PlaceNames, Adopt(t), <1>5 DEF Adopt, Call, Calls

LEMMA ListenMoves ==
  ASSUME NEW t \in Thread, JobTyped(t), Listen(t)
  PROVE  LET j == job[t]
             k == job'[t]
             s == states[t] IN
    /\ j.at = "listen"
    /\ IF HostAlive(t) THEN watch' = [watch EXCEPT ![t] = j.revision] /\ Goes(j, k, "probe")
                       ELSE UNCHANGED watch /\ Undoes(j, k)
<1> DEFINE j == job[t]
<1>1. j \in JobRow /\ Shape(j) /\ states[t] \in ThreadState
  BY DEF JobTyped
<1>2. \A i : Become(t, i) => job'[t] = i
  BY BecomesThat DEF JobTyped
<1>3. \A p \in Place : Goes(j, To(j, p), p)
  BY <1>1, ToGoes
<1>4. Fails(j, Failed(j)) /\ GivesUp(j, GaveUp(j)) /\ Returns(j, Done(j))
  BY <1>1, FailedFails, GaveUpGivesUp, DoneReturns
<1>5. j.at = "listen" => Undoes(j, Undone(j)) /\ \A f \in BOOLEAN : Undoes(j, Undone([j EXCEPT !.found = f]))
  BY <1>1, UndoneKills DEF Shape, Launch
<1>6. QED
  BY <1>1, <1>2, <1>3, <1>4, PlaceNames, Listen(t), <1>5 DEF Listen

LEMMA ProbeMoves ==
  ASSUME NEW t \in Thread, JobTyped(t), Probe(t)
  PROVE  LET j == job[t]
             k == job'[t]
             s == states[t] IN
    j.at = "probe" /\ ((HostAlive(t) /\ Goes(j, k, "complete")) \/ Undoes(j, k))
<1> DEFINE j == job[t]
<1>1. j \in JobRow /\ Shape(j) /\ states[t] \in ThreadState
  BY DEF JobTyped
<1>2. \A i : Become(t, i) => job'[t] = i
  BY BecomesThat DEF JobTyped
<1>3. \A p \in Place : Goes(j, To(j, p), p)
  BY <1>1, ToGoes
<1>4. Fails(j, Failed(j)) /\ GivesUp(j, GaveUp(j)) /\ Returns(j, Done(j))
  BY <1>1, FailedFails, GaveUpGivesUp, DoneReturns
<1>5. j.at = "probe" => Undoes(j, Undone(j)) /\ \A f \in BOOLEAN : Undoes(j, Undone([j EXCEPT !.found = f]))
  BY <1>1, UndoneKills DEF Shape, Launch
<1>6. QED
  BY <1>1, <1>2, <1>3, <1>4, PlaceNames, Probe(t), <1>5 DEF Probe

LEMMA CompleteMoves ==
  ASSUME NEW t \in Thread, JobTyped(t), Complete(t)
  PROVE  LET j == job[t]
             k == job'[t]
             s == states[t] IN
    /\ j.at = "complete"
    /\ Calls(t, CanCompleteTerminalStart(s, j.revision), Started(s, j.generation, j.generation),
             Goes(j, k, "check"), Undoes(j, k))
<1> DEFINE j == job[t]
<1>1. j \in JobRow /\ Shape(j) /\ states[t] \in ThreadState
  BY DEF JobTyped
<1>2. \A i : Become(t, i) => job'[t] = i
  BY BecomesThat DEF JobTyped
<1>3. \A p \in Place : Goes(j, To(j, p), p)
  BY <1>1, ToGoes
<1>4. Fails(j, Failed(j)) /\ GivesUp(j, GaveUp(j)) /\ Returns(j, Done(j))
  BY <1>1, FailedFails, GaveUpGivesUp, DoneReturns
<1>5. j.at = "complete" => Undoes(j, Undone(j))
  BY <1>1, UndoneKills DEF Shape, Launch
<1>6. LET i == [j EXCEPT !.at = "check", !.found = FALSE] IN Goes(j, i, "check")
  BY <1>1, PlaceNames DEF Goes, JobRow
<1>7. QED
  BY <1>1, <1>2, <1>3, <1>4, PlaceNames, Complete(t), <1>5, <1>6 DEF Complete, Call, Calls

LEMMA CheckMoves ==
  ASSUME NEW t \in Thread, JobTyped(t), Check(t)
  PROVE  LET j == job[t]
             k == job'[t]
             s == states[t] IN
    /\ j.at = "check"
    /\ LET checking == [s EXCEPT !.status = "checking"] IN
         Calls(t, CanUpdateTerminal(s, j.revision, j.generation, checking), checking,
               Returns(j, k), Goes(j, k, "abort"))
<1> DEFINE j == job[t]
<1>1. j \in JobRow /\ Shape(j) /\ states[t] \in ThreadState
  BY DEF JobTyped
<1>2. \A i : Become(t, i) => job'[t] = i
  BY BecomesThat DEF JobTyped
<1>3. \A p \in Place : Goes(j, To(j, p), p)
  BY <1>1, ToGoes
<1>4. Fails(j, Failed(j)) /\ GivesUp(j, GaveUp(j)) /\ Returns(j, Done(j))
  BY <1>1, FailedFails, GaveUpGivesUp, DoneReturns
<1>5. QED
  BY <1>1, <1>2, <1>3, <1>4, PlaceNames, Check(t) DEF Check, Call, Calls

LEMMA SettleMoves ==
  ASSUME NEW t \in Thread, JobTyped(t), Settle(t)
  PROVE  LET j == job[t]
             k == job'[t]
             s == states[t] IN
    j.at = "settle" /\ GivesUp(j, k)
<1> DEFINE j == job[t]
<1>1. j \in JobRow /\ Shape(j) /\ states[t] \in ThreadState
  BY DEF JobTyped
<1>2. \A i : Become(t, i) => job'[t] = i
  BY BecomesThat DEF JobTyped
<1>3. \A p \in Place : Goes(j, To(j, p), p)
  BY <1>1, ToGoes
<1>4. Fails(j, Failed(j)) /\ GivesUp(j, GaveUp(j)) /\ Returns(j, Done(j))
  BY <1>1, FailedFails, GaveUpGivesUp, DoneReturns
<1>5. QED
  BY <1>1, <1>2, <1>3, <1>4, PlaceNames, Settle(t) DEF Settle

LEMMA BeginTransitionMoves ==
  ASSUME NEW t \in Thread, JobTyped(t), BeginTransition(t)
  PROVE  LET j == job[t]
             k == job'[t]
             s == states[t] IN
    /\ j.at = "begin"
    /\ \/ j.op = "restart" /\ Stops(t, j, k, "renew")
       \/ /\ j.op = "chat"
          /\ Calls(t, CanBeginStop(t), Stopping(s), Kills(j, k, "leave"), Fails(j, k))
       \/ j.op = "stop" /\ IsTerminal(s) /\ Stops(t, j, k, "stopped")
<1> DEFINE j == job[t]
<1>1. j \in JobRow /\ Shape(j) /\ states[t] \in ThreadState
  BY DEF JobTyped
<1>2. \A i : Become(t, i) => job'[t] = i
  BY BecomesThat DEF JobTyped
<1>3. \A p \in Place : Goes(j, To(j, p), p)
  BY <1>1, ToGoes
<1>4. Fails(j, Failed(j)) /\ GivesUp(j, GaveUp(j)) /\ Returns(j, Done(j))
  BY <1>1, FailedFails, GaveUpGivesUp, DoneReturns
<1>5. \A p \in Place : /\ Kills(j, Killing(t, j, p), p)
                         /\ Kills(j, [Killing(t, j, p) EXCEPT !.revision = IF p = "renew" THEN 0 ELSE @], p)
  BY <1>1, KillingKills
<1>6. QED
  BY <1>1, <1>2, <1>3, <1>4, PlaceNames, BeginTransition(t), <1>5 DEF BeginTransition, StopBegins, LeaveBegins, Stops, Call, Calls

LEMMA AbortMoves ==
  ASSUME NEW t \in Thread, JobTyped(t), Abort(t)
  PROVE  LET j == job[t]
             k == job'[t]
             s == states[t] IN
    /\ j.at = "abort"
    /\ \/ /\ IsTerminal(s) /\ s.revision = j.revision /\ j.op = "start"
          /\ Calls(t, CanBeginStop(t), Stopping(s), Kills(j, k, "leave"), Fails(j, k))
       \/ /\ IsTerminal(s) /\ s.revision = j.revision /\ j.op = "restart"
          /\ Stops(t, j, k, "stopped")
       \/ UNCHANGED authority /\ Fails(j, k)
<1> DEFINE j == job[t]
<1>1. j \in JobRow /\ Shape(j) /\ states[t] \in ThreadState
  BY DEF JobTyped
<1>2. \A i : Become(t, i) => job'[t] = i
  BY BecomesThat DEF JobTyped
<1>3. \A p \in Place : Goes(j, To(j, p), p)
  BY <1>1, ToGoes
<1>4. Fails(j, Failed(j)) /\ GivesUp(j, GaveUp(j)) /\ Returns(j, Done(j))
  BY <1>1, FailedFails, GaveUpGivesUp, DoneReturns
<1>5. \A p \in Place : /\ Kills(j, Killing(t, j, p), p)
                         /\ Kills(j, [Killing(t, j, p) EXCEPT !.revision = IF p = "renew" THEN 0 ELSE @], p)
  BY <1>1, KillingKills
<1> DEFINE i == [j EXCEPT !.failing = TRUE]
<1>6. j.at = "abort"
  BY Abort(t) DEF Abort
<1>7. /\ i \in JobRow /\ i.op = j.op /\ i.recovery = j.recovery /\ i.then = j.then
      /\ i.revision = j.revision /\ i.generation = j.generation /\ Launching(j)
  BY <1>1, <1>6 DEF JobRow, Shape
<1>8. \A k : Fails(i, k) => Fails(j, k)
  BY <1>7 DEF Fails, GivesUp, Goes, Launching
<1>9. \A k, p : Kills(i, k, p) => Kills(j, k, p)
  BY <1>7 DEF Kills, Launching
<1>10. Fails(j, Failed(i))
  BY <1>7, <1>8, FailedFails
<1>11. \A p \in Place :
         /\ Kills(i, Killing(t, i, p), p)
         /\ Kills(i, [Killing(t, i, p) EXCEPT !.revision = IF p = "renew" THEN 0 ELSE @], p)
  BY <1>1, <1>7, KillingKills
<1>12. /\ Kills(j, Killing(t, i, "leave"), "leave")
       /\ Kills(j, [Killing(t, i, "stopped") EXCEPT
                       !.revision = IF "stopped" = "renew" THEN 0 ELSE @], "stopped")
  BY <1>9, <1>11, PlaceNames
<1> HIDE DEF i
<1>13. /\ j.op \in {"start", "restart"}
       /\ IF IsTerminal(states[t]) /\ states[t].revision = i.revision
               /\ states[t].generation = i.generation
            THEN IF i.op = "start" THEN LeaveBegins(t, i) ELSE StopBegins(t, i, "stopped")
            ELSE UNCHANGED authority /\ Become(t, Failed(i))
  BY <1>7, Abort(t) DEF Abort, Launching, i
<1>14. LeaveBegins(t, i) =>
         Calls(t, CanBeginStop(t), Stopping(states[t]), Kills(j, job'[t], "leave"), Fails(j, job'[t]))
  BY <1>2, <1>10, <1>12 DEF LeaveBegins, Call, Calls
<1>15. StopBegins(t, i, "stopped") => Stops(t, j, job'[t], "stopped")
  BY <1>2, <1>10, <1>12 DEF StopBegins, Stops, Call, Calls
<1>16. QED
  BY <1>2, <1>6, <1>7, <1>10, <1>13, <1>14, <1>15

LEMMA KillMoves ==
  ASSUME NEW t \in Thread, JobTyped(t), Kill(t)
  PROVE  LET j == job[t]
             k == job'[t]
             s == states[t] IN
    /\ j.at = "kill"
    /\ UNCHANGED <<authority, session, books>>
    /\ \/ /\ Goes(j, k, j.then)
          /\ IF host[t] = Null THEN UNCHANGED <<process, exits, watch>>
                               ELSE Ends(t, host[t], "gone")
          /\ host' = [host EXCEPT ![t] = Null]
       \/ /\ host[t] # Null
          /\ Fails(j, k) \/ (j.op # "delete" /\ Goes(j, k, "blocked"))
          /\ UNCHANGED <<process, host, exits, watch>>
<1> DEFINE j == job[t]
<1>1. j \in JobRow /\ Shape(j) /\ states[t] \in ThreadState
  BY DEF JobTyped
<1>2. \A i : Become(t, i) => job'[t] = i
  BY BecomesThat DEF JobTyped
<1>3. \A p \in Place : Goes(j, To(j, p), p)
  BY <1>1, ToGoes
<1>4. Fails(j, Failed(j)) /\ GivesUp(j, GaveUp(j)) /\ Returns(j, Done(j))
  BY <1>1, FailedFails, GaveUpGivesUp, DoneReturns
<1>5. j.then \in Place
  BY <1>1 DEF JobRow
<1>6. QED
  BY <1>1, <1>2, <1>3, <1>4, PlaceNames, Kill(t), <1>5 DEF Kill

LEMMA BlockedMoves ==
  ASSUME NEW t \in Thread, JobTyped(t), Blocked(t)
  PROVE  LET j == job[t]
             k == job'[t]
             s == states[t] IN
    j.at = "blocked" /\ Fails(j, k)
<1> DEFINE j == job[t]
<1>1. j \in JobRow /\ Shape(j) /\ states[t] \in ThreadState
  BY DEF JobTyped
<1>2. \A i : Become(t, i) => job'[t] = i
  BY BecomesThat DEF JobTyped
<1>3. \A p \in Place : Goes(j, To(j, p), p)
  BY <1>1, ToGoes
<1>4. Fails(j, Failed(j)) /\ GivesUp(j, GaveUp(j)) /\ Returns(j, Done(j))
  BY <1>1, FailedFails, GaveUpGivesUp, DoneReturns
<1>5. QED
  BY <1>1, <1>2, <1>3, <1>4, PlaceNames, Blocked(t) DEF Blocked

LEMMA RenewMoves ==
  ASSUME NEW t \in Thread, JobTyped(t), Renew(t)
  PROVE  LET j == job[t]
             k == job'[t]
             s == states[t] IN
    /\ j.at = "renew"
    /\ Calls(t, CanBeginStop(t) /\ s.status \notin {"starting", "checking"},
             Starting(s.revision + 1), Rises(j, k, "spawn", s.revision + 1), Fails(j, k))
<1> DEFINE j == job[t]
<1>1. j \in JobRow /\ Shape(j) /\ states[t] \in ThreadState
  BY DEF JobTyped
<1>2. \A i : Become(t, i) => job'[t] = i
  BY BecomesThat DEF JobTyped
<1>3. \A p \in Place : Goes(j, To(j, p), p)
  BY <1>1, ToGoes
<1>4. Fails(j, Failed(j)) /\ GivesUp(j, GaveUp(j)) /\ Returns(j, Done(j))
  BY <1>1, FailedFails, GaveUpGivesUp, DoneReturns
<1>5. states[t].revision + 1 \in Nat
  BY <1>1 DEF ThreadState
<1>6. \A r \in Nat : Rises(j, [j EXCEPT !.at = "spawn", !.revision = r], "spawn", r)
  BY <1>1, PlaceNames DEF Rises, JobRow
<1>7. Rises(j, [j EXCEPT !.at = "spawn", !.revision = states[t].revision + 1],
            "spawn", states[t].revision + 1)
  BY <1>5, <1>6, <1>6, Zenon
<1>8. QED
  BY <1>1, <1>2, <1>3, <1>4, PlaceNames, Renew(t), <1>5, <1>6, <1>7 DEF Renew, Call, Calls

LEMMA MarkStoppedMoves ==
  ASSUME NEW t \in Thread, JobTyped(t), MarkStopped(t)
  PROVE  LET j == job[t]
             k == job'[t]
             s == states[t] IN
    /\ j.at = "stopped"
    /\ Calls(t, CanUpdateTerminal(s, j.revision, Fence(j.generation), StoppedPatch(s)),
             StoppedPatch(s), Returns(j, k), Fails(j, k))
<1> DEFINE j == job[t]
<1>1. j \in JobRow /\ Shape(j) /\ states[t] \in ThreadState
  BY DEF JobTyped
<1>2. \A i : Become(t, i) => job'[t] = i
  BY BecomesThat DEF JobTyped
<1>3. \A p \in Place : Goes(j, To(j, p), p)
  BY <1>1, ToGoes
<1>4. Fails(j, Failed(j)) /\ GivesUp(j, GaveUp(j)) /\ Returns(j, Done(j))
  BY <1>1, FailedFails, GaveUpGivesUp, DoneReturns
<1>5. QED
  BY <1>1, <1>2, <1>3, <1>4, PlaceNames, MarkStopped(t) DEF MarkStopped, Call, Calls

LEMMA LeaveMoves ==
  ASSUME NEW t \in Thread, JobTyped(t), Leave(t)
  PROVE  LET j == job[t]
             k == job'[t]
             s == states[t] IN
    /\ j.at = "leave"
    /\ Calls(t, CanLeaveTerminal(s, j.revision), Restoring(s),
             \E p \in {"resume", "ready"} : Rises(j, k, p, s.revision + 1), Fails(j, k))
<1> DEFINE j == job[t]
<1>1. j \in JobRow /\ Shape(j) /\ states[t] \in ThreadState
  BY DEF JobTyped
<1>2. \A i : Become(t, i) => job'[t] = i
  BY BecomesThat DEF JobTyped
<1>3. \A p \in Place : Goes(j, To(j, p), p)
  BY <1>1, ToGoes
<1>4. Fails(j, Failed(j)) /\ GivesUp(j, GaveUp(j)) /\ Returns(j, Done(j))
  BY <1>1, FailedFails, GaveUpGivesUp, DoneReturns
<1>5. states[t].revision + 1 \in Nat
  BY <1>1 DEF ThreadState
<1>6. \A r \in Nat : LET i == [j EXCEPT !.at = IF j.found THEN "resume" ELSE "ready", !.revision = r] IN
        \E p \in {"resume", "ready"} : Rises(j, i, p, r)
  BY <1>1, PlaceNames DEF Rises, JobRow
<1>7. LET i == [j EXCEPT !.at = IF j.found THEN "resume" ELSE "ready",
                         !.revision = states[t].revision + 1] IN
        \E p \in {"resume", "ready"} : Rises(j, i, p, states[t].revision + 1)
  BY <1>5, <1>6, <1>6, Zenon
<1>8. QED
  BY <1>1, <1>2, <1>3, <1>4, PlaceNames, Leave(t), <1>5, <1>6, <1>7 DEF Leave, Call, Calls

LEMMA ResumeMoves ==
  ASSUME NEW t \in Thread, JobTyped(t), Resume(t)
  PROVE  LET j == job[t]
             k == job'[t]
             s == states[t] IN
    j.at = "resume" /\ Goes(j, k, "ready")
<1> DEFINE j == job[t]
<1>1. j \in JobRow /\ Shape(j) /\ states[t] \in ThreadState
  BY DEF JobTyped
<1>2. \A i : Become(t, i) => job'[t] = i
  BY BecomesThat DEF JobTyped
<1>3. \A p \in Place : Goes(j, To(j, p), p)
  BY <1>1, ToGoes
<1>4. Fails(j, Failed(j)) /\ GivesUp(j, GaveUp(j)) /\ Returns(j, Done(j))
  BY <1>1, FailedFails, GaveUpGivesUp, DoneReturns
<1>5. QED
  BY <1>1, <1>2, <1>3, <1>4, PlaceNames, Resume(t) DEF Resume

LEMMA MakeReadyMoves ==
  ASSUME NEW t \in Thread, JobTyped(t), MakeReady(t)
  PROVE  LET j == job[t]
             k == job'[t]
             s == states[t] IN
    /\ j.at = "ready"
    /\ Calls(t, CanCompleteStructuredRestore(s, j.revision), Structured(j.revision, "ready"),
             Returns(j, k), Fails(j, k))
<1> DEFINE j == job[t]
<1>1. j \in JobRow /\ Shape(j) /\ states[t] \in ThreadState
  BY DEF JobTyped
<1>2. \A i : Become(t, i) => job'[t] = i
  BY BecomesThat DEF JobTyped
<1>3. \A p \in Place : Goes(j, To(j, p), p)
  BY <1>1, ToGoes
<1>4. Fails(j, Failed(j)) /\ GivesUp(j, GaveUp(j)) /\ Returns(j, Done(j))
  BY <1>1, FailedFails, GaveUpGivesUp, DoneReturns
<1>5. QED
  BY <1>1, <1>2, <1>3, <1>4, PlaceNames, MakeReady(t) DEF MakeReady, Call, Calls

LEMMA BeginFenceMoves ==
  ASSUME NEW t \in Thread, JobTyped(t), BeginFence(t)
  PROVE  LET j == job[t]
             k == job'[t]
             s == states[t] IN
    /\ j.at = "begin" /\ j.op = "stop" /\ IsStructured(s)
    /\ Calls(t, ReadyForStructured(s), Structured(s.revision + 1, "stopping"),
             Rises(j, k, "drain", s.revision + 1), Fails(j, k))
<1> DEFINE j == job[t]
<1>1. j \in JobRow /\ Shape(j) /\ states[t] \in ThreadState
  BY DEF JobTyped
<1>2. \A i : Become(t, i) => job'[t] = i
  BY BecomesThat DEF JobTyped
<1>3. \A p \in Place : Goes(j, To(j, p), p)
  BY <1>1, ToGoes
<1>4. Fails(j, Failed(j)) /\ GivesUp(j, GaveUp(j)) /\ Returns(j, Done(j))
  BY <1>1, FailedFails, GaveUpGivesUp, DoneReturns
<1>5. states[t].revision + 1 \in Nat
  BY <1>1 DEF ThreadState
<1>6. \A r \in Nat : Rises(j, [j EXCEPT !.at = "drain", !.revision = r], "drain", r)
  BY <1>1, PlaceNames DEF Rises, JobRow
<1>7. Structured(states[t].revision + 1, "stopping").revision = states[t].revision + 1
  BY DEF Structured
<1>8. Rises(j, [j EXCEPT !.at = "drain", !.revision = Structured(states[t].revision + 1, "stopping").revision],
            "drain", states[t].revision + 1)
  BY <1>5, <1>6, <1>7, Zenon
<1>9. QED
  BY <1>1, <1>2, <1>3, <1>4, PlaceNames, BeginFence(t), <1>5, <1>6, <1>7, <1>8 DEF BeginFence, Call, Calls

LEMMA DrainMoves ==
  ASSUME NEW t \in Thread, JobTyped(t), Drain(t)
  PROVE  LET j == job[t]
             k == job'[t]
             s == states[t] IN
    /\ j.at = "drain"
    /\ UNCHANGED <<authority, world, books>>
    /\ \/ /\ Drained(t)
          /\ \/ j.op = "stop" /\ Goes(j, k, "halt")
             \/ j.op # "stop" /\ IsStructured(s) /\ Returns(j, k)
             \/ j.op # "stop" /\ ~IsStructured(s) /\ Kills(j, k, "entomb")
       \/ j.op = "stop" /\ Goes(j, k, "release")
       \/ j.op # "stop" /\ Fails(j, k)
<1> DEFINE j == job[t]
<1>1. j \in JobRow /\ Shape(j) /\ states[t] \in ThreadState
  BY DEF JobTyped
<1>2. \A i : Become(t, i) => job'[t] = i
  BY BecomesThat DEF JobTyped
<1>3. \A p \in Place : Goes(j, To(j, p), p)
  BY <1>1, ToGoes
<1>4. Fails(j, Failed(j)) /\ GivesUp(j, GaveUp(j)) /\ Returns(j, Done(j))
  BY <1>1, FailedFails, GaveUpGivesUp, DoneReturns
<1>5. \A p \in Place : /\ Kills(j, Killing(t, j, p), p)
                         /\ Kills(j, [Killing(t, j, p) EXCEPT !.revision = IF p = "renew" THEN 0 ELSE @], p)
  BY <1>1, KillingKills
<1>6. j.at = "drain" /\ UNCHANGED <<authority, world, books>>
  BY Drain(t) DEF Drain
<1>7. Kills(j, Killing(t, j, "entomb"), "entomb")
  BY <1>5, PlaceNames
<1>8. CASE Drained(t) /\ j.op = "stop"
  <2>1. Goes(j, To(j, "halt"), "halt")
    BY <1>3, PlaceNames
  <2>2. Become(t, To(j, "halt"))
    BY <1>8, Drain(t) DEF Drain
  <2>3. QED
    BY <1>2, <1>6, <1>8, <2>1, <2>2
<1>9. CASE Drained(t) /\ j.op # "stop" /\ IsStructured(states[t])
  BY <1>2, <1>4, <1>6, <1>9, Drain(t) DEF Drain
<1>10. CASE Drained(t) /\ j.op # "stop" /\ ~IsStructured(states[t])
  BY <1>2, <1>6, <1>7, <1>10, Drain(t) DEF Drain
<1>11. CASE ~Drained(t) /\ j.op = "stop"
  BY <1>2, <1>3, <1>6, <1>11, PlaceNames, Drain(t) DEF Drain
<1>12. CASE ~Drained(t) /\ j.op # "stop"
  BY <1>2, <1>4, <1>6, <1>12, Drain(t) DEF Drain
<1>13. QED
  BY <1>8, <1>9, <1>10, <1>11, <1>12

LEMMA StopSessionMoves ==
  ASSUME NEW t \in Thread, JobTyped(t), StopSession(t)
  PROVE  LET j == job[t]
             k == job'[t]
             s == states[t] IN
    j.at = "halt" /\ Goes(j, k, "release")
<1> DEFINE j == job[t]
<1>1. j \in JobRow /\ Shape(j) /\ states[t] \in ThreadState
  BY DEF JobTyped
<1>2. \A i : Become(t, i) => job'[t] = i
  BY BecomesThat DEF JobTyped
<1>3. \A p \in Place : Goes(j, To(j, p), p)
  BY <1>1, ToGoes
<1>4. Fails(j, Failed(j)) /\ GivesUp(j, GaveUp(j)) /\ Returns(j, Done(j))
  BY <1>1, FailedFails, GaveUpGivesUp, DoneReturns
<1>5. QED
  BY <1>1, <1>2, <1>3, <1>4, PlaceNames, StopSession(t) DEF StopSession

LEMMA ReleaseMoves ==
  ASSUME NEW t \in Thread, JobTyped(t), Release(t)
  PROVE  LET j == job[t]
             k == job'[t]
             s == states[t] IN
    /\ j.at = "release" /\ k = NoJob
    /\ Calls(t, CanCompleteStructuredStop(s, j.revision), Structured(j.revision, "ready"),
             TRUE, TRUE)
<1> DEFINE j == job[t]
<1>1. j \in JobRow /\ Shape(j) /\ states[t] \in ThreadState
  BY DEF JobTyped
<1>2. \A i : Become(t, i) => job'[t] = i
  BY BecomesThat DEF JobTyped
<1>3. \A p \in Place : Goes(j, To(j, p), p)
  BY <1>1, ToGoes
<1>4. Fails(j, Failed(j)) /\ GivesUp(j, GaveUp(j)) /\ Returns(j, Done(j))
  BY <1>1, FailedFails, GaveUpGivesUp, DoneReturns
<1>5. QED
  BY <1>1, <1>2, <1>3, <1>4, PlaceNames, Release(t) DEF Release, Call, Calls

LEMMA BeginDeletionMoves ==
  ASSUME NEW t \in Thread, JobTyped(t), BeginDeletion(t)
  PROVE  LET j == job[t]
             k == job'[t]
             s == states[t] IN
    /\ j.at = "begin" /\ j.op = "delete"
    /\ IF s.status = "deleting"
         THEN UNCHANGED authority /\ Rises(j, k, "drain", s.revision)
         ELSE Calls(t, CanBeginThreadDeletion(s), DeletionBegun(s),
                    Rises(j, k, "drain", DeletionBegun(s).revision), Fails(j, k))
<1> DEFINE j == job[t]
<1>1. j \in JobRow /\ Shape(j) /\ states[t] \in ThreadState
  BY DEF JobTyped
<1>2. \A i : Become(t, i) => job'[t] = i
  BY BecomesThat DEF JobTyped
<1>3. \A p \in Place : Goes(j, To(j, p), p)
  BY <1>1, ToGoes
<1>4. Fails(j, Failed(j)) /\ GivesUp(j, GaveUp(j)) /\ Returns(j, Done(j))
  BY <1>1, FailedFails, GaveUpGivesUp, DoneReturns
<1>5. states[t].revision \in Nat /\ DeletionBegun(states[t]).revision \in Nat
  BY <1>1 DEF DeletionBegun, Structured, ThreadState
<1>6. \A r \in Nat : Rises(j, [j EXCEPT !.at = "drain", !.revision = r], "drain", r)
  BY <1>1, PlaceNames DEF Rises, JobRow
<1>7. /\ Rises(j, [j EXCEPT !.at = "drain", !.revision = states[t].revision],
               "drain", states[t].revision)
      /\ Rises(j, [j EXCEPT !.at = "drain", !.revision = DeletionBegun(states[t]).revision],
               "drain", DeletionBegun(states[t]).revision)
  BY <1>5, <1>6, Zenon
<1>8. QED
  BY <1>1, <1>2, <1>3, <1>4, PlaceNames, BeginDeletion(t), <1>5, <1>6, <1>7 DEF BeginDeletion, Call, Calls

LEMMA EntombMoves ==
  ASSUME NEW t \in Thread, JobTyped(t), Entomb(t)
  PROVE  LET j == job[t]
             k == job'[t]
             s == states[t] IN
    /\ j.at = "entomb"
    /\ Calls(t, CanCompleteTerminalDeletion(s, j.revision),
             Structured(j.revision + 1, "deleting"), Returns(j, k), Fails(j, k))
<1> DEFINE j == job[t]
<1>1. j \in JobRow /\ Shape(j) /\ states[t] \in ThreadState
  BY DEF JobTyped
<1>2. \A i : Become(t, i) => job'[t] = i
  BY BecomesThat DEF JobTyped
<1>3. \A p \in Place : Goes(j, To(j, p), p)
  BY <1>1, ToGoes
<1>4. Fails(j, Failed(j)) /\ GivesUp(j, GaveUp(j)) /\ Returns(j, Done(j))
  BY <1>1, FailedFails, GaveUpGivesUp, DoneReturns
<1>5. QED
  BY <1>1, <1>2, <1>3, <1>4, PlaceNames, Entomb(t) DEF Entomb, Call, Calls

LEMMA MarkMoves ==
  ASSUME NEW t \in Thread, JobTyped(t), Mark(t)
  PROVE  LET j == job[t]
             k == job'[t]
             s == states[t] IN
    /\ j.at = "mark"
    /\ LET u == unrecovered[t]
           marked == IF u.status = "stopping" THEN StoppedPatch(s)
                     ELSE [s EXCEPT !.status = "exited", !.turn = FALSE] IN
         Calls(t, CanUpdateTerminal(s, u.revision, Fence(u.generation), marked), marked,
               Goes(j, k, IF u.status # "stopping" THEN "verify"
                          ELSE IF j.op = "none" THEN "finish" ELSE "enter"),
               Goes(j, k, "missed"))
<1> DEFINE j == job[t]
<1>1. j \in JobRow /\ Shape(j) /\ states[t] \in ThreadState
  BY DEF JobTyped
<1>2. \A i : Become(t, i) => job'[t] = i
  BY BecomesThat DEF JobTyped
<1>3. \A p \in Place : Goes(j, To(j, p), p)
  BY <1>1, ToGoes
<1>4. Fails(j, Failed(j)) /\ GivesUp(j, GaveUp(j)) /\ Returns(j, Done(j))
  BY <1>1, FailedFails, GaveUpGivesUp, DoneReturns
<1>5. QED
  BY <1>1, <1>2, <1>3, <1>4, PlaceNames, Mark(t) DEF Mark, Call, Calls

LEMMA RecoveryFailedMoves ==
  ASSUME NEW t \in Thread, JobTyped(t), RecoveryFailed(t)
  PROVE  LET j == job[t]
             k == job'[t]
             s == states[t] IN
    j.at = "failed" /\ Goes(j, k, "missed")
<1> DEFINE j == job[t]
<1>1. j \in JobRow /\ Shape(j) /\ states[t] \in ThreadState
  BY DEF JobTyped
<1>2. \A i : Become(t, i) => job'[t] = i
  BY BecomesThat DEF JobTyped
<1>3. \A p \in Place : Goes(j, To(j, p), p)
  BY <1>1, ToGoes
<1>4. Fails(j, Failed(j)) /\ GivesUp(j, GaveUp(j)) /\ Returns(j, Done(j))
  BY <1>1, FailedFails, GaveUpGivesUp, DoneReturns
<1>5. QED
  BY <1>1, <1>2, <1>3, <1>4, PlaceNames, RecoveryFailed(t) DEF RecoveryFailed

LEMMA RecoveryMissedMoves ==
  ASSUME NEW t \in Thread, JobTyped(t), RecoveryMissed(t)
  PROVE  LET j == job[t]
             k == job'[t]
             s == states[t] IN
    j.at = "missed" /\ k = NoJob
<1> DEFINE j == job[t]
<1>1. j \in JobRow /\ Shape(j) /\ states[t] \in ThreadState
  BY DEF JobTyped
<1>2. \A i : Become(t, i) => job'[t] = i
  BY BecomesThat DEF JobTyped
<1>3. \A p \in Place : Goes(j, To(j, p), p)
  BY <1>1, ToGoes
<1>4. Fails(j, Failed(j)) /\ GivesUp(j, GaveUp(j)) /\ Returns(j, Done(j))
  BY <1>1, FailedFails, GaveUpGivesUp, DoneReturns
<1>5. QED
  BY <1>1, <1>2, <1>3, <1>4, PlaceNames, RecoveryMissed(t) DEF RecoveryMissed

LEMMA FinishMoves ==
  ASSUME NEW t \in Thread, JobTyped(t), Finish(t)
  PROVE  LET j == job[t]
             k == job'[t]
             s == states[t] IN
    j.at = "finish" /\ k = NoJob
<1> DEFINE j == job[t]
<1>1. j \in JobRow /\ Shape(j) /\ states[t] \in ThreadState
  BY DEF JobTyped
<1>2. \A i : Become(t, i) => job'[t] = i
  BY BecomesThat DEF JobTyped
<1>3. \A p \in Place : Goes(j, To(j, p), p)
  BY <1>1, ToGoes
<1>4. Fails(j, Failed(j)) /\ GivesUp(j, GaveUp(j)) /\ Returns(j, Done(j))
  BY <1>1, FailedFails, GaveUpGivesUp, DoneReturns
<1>5. QED
  BY <1>1, <1>2, <1>3, <1>4, PlaceNames, Finish(t) DEF Finish

-----------------------------------------------------------------------------
(* The authority under its caller: every step is one of its operations, or     *)
(* leaves it alone                                                             *)

(* What the invariant says of a thread and the job on it, ready to be cited. *)
LEMMA Holds ==
  ASSUME CoordinatorInv, NEW t \in Thread
  PROVE  /\ JobTyped(t) /\ available /\ ~marker
         /\ states[t] \in ThreadState /\ disk[t] \in ThreadState
         /\ claims \in [Thread -> [ClaimId -> Claim]]
         /\ states[t].revision \in Nat /\ states[t].revision =< MaxRevision
         /\ states[t].revision \in Revision
         /\ HasRoom(t) /\ Recovery(t) /\ Deletion(t) /\ Quiet(t)
         /\ Known(t) /\ Hosted(t) /\ Told(t)
<1>1. /\ states[t] \in ThreadState /\ disk[t] \in ThreadState
      /\ claims \in [Thread -> [ClaimId -> Claim]]
      /\ job \in [Thread -> JobRow]
  BY DEF CoordinatorInv, Inv, TypeOK, CoordinatorType
<1>2. states[t].revision \in Nat
  BY <1>1 DEF ThreadState
<1>3. states[t].revision =< MaxRevision
  BY <1>2, BoundAssumption DEF CoordinatorInv, HasRoom, Room
<1>4. QED
  BY <1>1, <1>2, <1>3, BoundAssumption DEF CoordinatorInv, JobTyped, Revision

LEMMA FenceIs ==
  ASSUME NEW g \in Generation \cup {Null} PROVE Fence(g) \in Generation \cup {Null, "any"}
BY DEF Fence

(* A patch that is stored or not is an update of the authority. *)
LEMMA PatchIsUpdate ==
  ASSUME NEW t \in Thread, available, states[t].revision \in Revision
  PROVE  \A n \in Patched(states[t]), r \in Nat, g \in Generation \cup {Null, "any"} :
           CanUpdateTerminal(states[t], r, g, n) /\ (Store(t, n) \/ StoreFails(t, n)) =>
             TerminalStep(t)
<1> SUFFICES ASSUME NEW n \in Patched(states[t]), NEW r \in Nat,
                    NEW g \in Generation \cup {Null, "any"},
                    CanUpdateTerminal(states[t], r, g, n),
                    Store(t, n) \/ StoreFails(t, n)
             PROVE  TerminalStep(t)
  OBVIOUS
<1>1. r \in Revision
  BY DEF CanUpdateTerminal
<1>2. UpdateTerminal(t, r, g, FALSE, n)
  BY DEF UpdateTerminal, Commit
<1>3. QED
  BY <1>1, <1>2 DEF TerminalStep

(* What the callers patch with. *)
LEMMA Patches ==
  ASSUME NEW s \in ThreadState
  PROVE  /\ s \in Patched(s)
         /\ [s EXCEPT !.turn = FALSE] \in Patched(s)
         /\ [s EXCEPT !.status = "error"] \in Patched(s)
         /\ [s EXCEPT !.status = "checking"] \in Patched(s)
         /\ [s EXCEPT !.status = "exited"] \in Patched(s)
         /\ [s EXCEPT !.status = "exited", !.turn = FALSE] \in Patched(s)
         /\ [s EXCEPT !.status = "running", !.turn = TRUE] \in Patched(s)
         /\ [s EXCEPT !.status = "ready", !.turn = FALSE] \in Patched(s)
         /\ StoppedPatch(s) \in Patched(s)
         /\ Interrupted(s) \in Patched(s)
         /\ \A p \in Pid : [s EXCEPT !.pid = p] \in Patched(s)
         /\ [s EXCEPT !.turn = FALSE, !.status =
               IF @ \in {"stopping", "stopped", "exited"} THEN @ ELSE "attention"] \in Patched(s)
<1>1. [s EXCEPT !.turn = FALSE, !.status =
         IF @ \in {"stopping", "stopped", "exited"} THEN @ ELSE "attention"]
      \in {[s EXCEPT !.turn = FALSE], [s EXCEPT !.status = "attention", !.turn = FALSE]}
  BY DEF ThreadState
<1>2. QED
  BY <1>1 DEF Patched, StoppedPatch, Interrupted

Touches(t) ==
  \/ \E c \in ClaimId : ClaimStep(t, c)
  \/ TerminalStep(t)
  \/ StructuredStep(t)
  \/ UNCHANGED authority

(* The two ways an epoch of the terminal begins to end. *)
LEMMA StopIsAStep ==
  ASSUME NEW t \in Thread, available
  PROVE  /\ CanBeginStop(t) /\ (Store(t, Stopping(states[t])) \/ StoreFails(t, Stopping(states[t]))) =>
              TerminalStep(t)
         /\ \A j, k, then : Stops(t, j, k, then) => Touches(t)
<1>1. CanBeginStop(t) /\ (Store(t, Stopping(states[t])) \/ StoreFails(t, Stopping(states[t]))) =>
        TerminalStep(t)
  BY DEF CanBeginStop, TerminalStep, BeginStructuredSwitch, Commit
<1>2. QED
  BY <1>1 DEF Stops, Calls, Touches

(* The steps of a launch. *)
LEMMA LaunchTouches ==
  ASSUME CoordinatorInv, NEW t \in Thread,
         \/ BeginSwitch(t) \/ Prepare(t) \/ Adopt(t) \/ Complete(t) \/ Check(t) \/ Settle(t)
  PROVE  Touches(t)
<1> DEFINE s == states[t]
<1>1. /\ JobTyped(t) /\ available /\ s \in ThreadState /\ s.revision \in Revision
      /\ HasRoom(t) /\ Hosted(t) /\ s.revision \in Nat
  BY Holds
<1>2. /\ job[t].revision \in Nat /\ job[t].generation \in Generation \cup {Null}
  BY <1>1 DEF JobTyped, JobRow
<1>3. CASE BeginSwitch(t)
  <2>0. job[t].at = "begin"
    BY <1>1, <1>3, BeginSwitchMoves
  <2>1. CanRise(t)
    BY <1>1, <2>0, BoundAssumption DEF HasRoom, Room, CanRise
  <2>2. QED
    BY <1>1, <1>3, <2>1, BeginSwitchMoves
       DEF Calls, Touches, TerminalStep, BeginTerminalSwitch, Commit
<1>4. CASE Prepare(t)
  BY <1>1, <1>2, <1>4, PrepareMoves, PatchIsUpdate, Patches DEF Calls, Touches
<1>5. CASE Adopt(t)
  <2>1. job[t].generation \in Pid
    BY <1>1, <1>5, AdoptMoves, OneNamePerProcess DEF Hosted
  <2>2. [s EXCEPT !.pid = job[t].generation] \in Patched(s)
    BY <1>1, <2>1, Patches
  <2>3. QED
    BY <1>1, <1>2, <1>5, <2>2, AdoptMoves, PatchIsUpdate DEF Calls, Touches
<1>6. CASE Complete(t)
  <2>1. job[t].generation \in Generation /\ job[t].generation \in Pid
    BY <1>1, <1>6, CompleteMoves, OneNamePerProcess DEF Hosted
  <2>2. CanCompleteTerminalStart(s, job[t].revision) => job[t].revision \in Revision
    BY <1>1 DEF CanCompleteTerminalStart
  <2>3. QED
    BY <1>1, <1>6, <2>1, <2>2, CompleteMoves
       DEF Calls, Touches, TerminalStep, CompleteTerminalStart, Commit
<1>7. CASE Check(t)
  <2>1. [s EXCEPT !.status = "checking"] \in Patched(s)
    BY <1>1, Patches
  <2>2. QED
    BY <1>1, <1>2, <1>7, <2>1, CheckMoves, PatchIsUpdate DEF Calls, Touches
<1>8. CASE Settle(t)
  <2>1. [s EXCEPT !.status = "error"] \in Patched(s) /\ Fence(s.generation) \in Generation \cup {Null, "any"}
    BY <1>1, Patches, FenceIs DEF ThreadState
  <2>2. QED
    BY <1>1, <1>8, <2>1, PatchIsUpdate DEF Settle, Attempt, Touches
<1>9. QED
  BY <1>3, <1>4, <1>5, <1>6, <1>7, <1>8

(* The steps that end an epoch. *)
LEMMA EndTouches ==
  ASSUME CoordinatorInv, NEW t \in Thread,
         \/ BeginTransition(t) \/ Abort(t) \/ Blocked(t) \/ Renew(t) \/ MarkStopped(t)
         \/ Leave(t) \/ MakeReady(t) \/ BeginFence(t) \/ Release(t) \/ BeginDeletion(t)
         \/ Entomb(t) \/ Quiesce(t)
  PROVE  Touches(t)
<1> DEFINE s == states[t]
<1>1. /\ JobTyped(t) /\ available /\ s \in ThreadState /\ s.revision \in Revision
      /\ HasRoom(t) /\ s.revision \in Nat
  BY Holds
<1>2. /\ job[t].revision \in Nat /\ job[t].generation \in Generation \cup {Null}
      /\ Fence(job[t].generation) \in Generation \cup {Null, "any"}
      /\ Fence(s.generation) \in Generation \cup {Null, "any"}
  BY <1>1, FenceIs DEF JobTyped, JobRow, ThreadState
<1>3. CASE BeginTransition(t)
  BY <1>1, <1>3, BeginTransitionMoves, StopIsAStep DEF Calls, Touches
<1>4. CASE Abort(t)
  BY <1>1, <1>4, AbortMoves, StopIsAStep DEF Calls, Touches
<1>5. CASE Blocked(t)
  <2>1. [s EXCEPT !.status = "error"] \in Patched(s)
    BY <1>1, Patches
  <2>2. QED
    BY <1>1, <1>2, <1>5, <2>1, PatchIsUpdate DEF Blocked, Attempt, Touches
<1>6. CASE Renew(t)
  <2>1. CanRise(t)
    BY <1>1, <1>6, BoundAssumption, RenewMoves DEF HasRoom, Room, CanRise
  <2>2. QED
    BY <1>1, <1>6, <2>1, RenewMoves
       DEF Calls, Touches, TerminalStep, BeginTerminalRestart, Commit, CanBeginStop
<1>7. CASE MarkStopped(t)
  <2>1. StoppedPatch(s) \in Patched(s)
    BY <1>1, Patches
  <2>2. QED
    BY <1>1, <1>2, <1>7, <2>1, MarkStoppedMoves, PatchIsUpdate DEF Calls, Touches
<1>8. CASE Leave(t)
  <2>0. job[t].at = "leave"
    BY <1>1, <1>8, LeaveMoves
  <2>1. CanRise(t)
    BY <1>1, <2>0, BoundAssumption DEF HasRoom, Room, CanRise
  <2>2. CanLeaveTerminal(s, job[t].revision) => job[t].revision \in Revision
    BY <1>1 DEF CanLeaveTerminal
  <2>3. QED
    BY <1>1, <1>8, <2>1, <2>2, LeaveMoves DEF Calls, Touches, TerminalStep, ToStructured, Commit
<1>9. CASE MakeReady(t)
  <2>1. CanCompleteStructuredRestore(s, job[t].revision) => job[t].revision \in Revision
    BY <1>1 DEF CanCompleteStructuredRestore
  <2>2. QED
    BY <1>1, <1>9, <2>1, MakeReadyMoves
       DEF Calls, Touches, StructuredStep, CompleteStructuredRestore, Commit
<1>10. CASE BeginFence(t)
  <2>1. CanRise(t)
    BY <1>1, <1>10, BoundAssumption, BeginFenceMoves DEF HasRoom, Room, CanRise
  <2>2. QED
    BY <1>1, <1>10, <2>1, BeginFenceMoves
       DEF Calls, Touches, StructuredStep, BeginStructuredStop, Commit
<1>11. CASE Release(t)
  <2>1. CanCompleteStructuredStop(s, job[t].revision) => job[t].revision \in Revision
    BY <1>1 DEF CanCompleteStructuredStop
  <2>2. QED
    BY <1>1, <1>11, <2>1, ReleaseMoves
       DEF Calls, Touches, StructuredStep, CompleteStructuredStop, Commit
<1>12. CASE BeginDeletion(t)
  <2>0. job[t].at = "begin"
    BY <1>1, <1>12, BeginDeletionMoves
  <2>1. DeletionBegun(s).revision =< MaxRevision
    <3>1. s.revision + 2 =< MaxRevision
      BY <1>1, <2>0 DEF HasRoom, Room
    <3>2. DeletionBegun(s).revision \in {s.revision, s.revision + 1}
      BY <1>1 DEF DeletionBegun, Structured, ThreadState
    <3>3. QED
      BY <1>1, <3>1, <3>2, BoundAssumption
  <2>2. QED
    BY <1>1, <1>12, <2>1, BeginDeletionMoves
       DEF Calls, Touches, StructuredStep, BeginThreadDeletion, Commit
<1>13. CASE Entomb(t)
  <2>1. CanRise(t)
    BY <1>1, <1>13, BoundAssumption, EntombMoves DEF HasRoom, Room, CanRise, Launch
  <2>2. CanCompleteTerminalDeletion(s, job[t].revision) => job[t].revision \in Revision
    BY <1>1 DEF CanCompleteTerminalDeletion
  <2>3. QED
    BY <1>1, <1>13, <2>1, <2>2, EntombMoves
       DEF Calls, Touches, StructuredStep, CompleteTerminalDeletion, Commit
<1>14. CASE Quiesce(t)
  <2> DEFINE given == [s EXCEPT !.turn = FALSE, !.status =
                         IF @ \in {"stopping", "stopped", "exited"} THEN @ ELSE "attention"]
  <2>1. given \in Patched(s)
    BY <1>1, Patches
  <2>2. \/ UNCHANGED authority
        \/ /\ CanUpdateTerminal(s, s.revision, Fence(s.generation), given)
           /\ Store(t, given) \/ StoreFails(t, given)
    BY <1>14 DEF Quiesce, Attempt
  <2>3. QED
    BY <1>1, <1>2, <2>1, <2>2, PatchIsUpdate DEF Touches
<1>15. QED
  BY <1>3, <1>4, <1>5, <1>6, <1>7, <1>8, <1>9, <1>10, <1>11, <1>12, <1>13, <1>14

(* The steps of a recovery. *)
LEMMA RecoveryTouches ==
  ASSUME CoordinatorInv, NEW t \in Thread,
         \/ Mark(t) \/ RecoveryFailed(t) \/ RecoveryMissed(t) \/ RecoveryGivesUp(t)
         \/ RecoverStructured(t)
  PROVE  Touches(t)
<1> DEFINE s == states[t]
           u == unrecovered[t]
<1>1. /\ JobTyped(t) /\ available /\ s \in ThreadState /\ s.revision \in Revision
      /\ HasRoom(t) /\ s.revision \in Nat /\ Recovery(t)
  BY Holds
<1>2. Fence(s.generation) \in Generation \cup {Null, "any"} /\ Interrupted(s) \in Patched(s)
  BY <1>1, FenceIs, Patches DEF ThreadState
<1>3. u \in ThreadState \cup {NoState}
  BY DEF CoordinatorInv, CoordinatorType
<1>4. CASE Mark(t)
  <2>1. u \in ThreadState
    BY <1>1, <1>3, <1>4, MarkMoves DEF Recovery, JobTyped, Shape
  <2>2. u.revision \in Nat /\ Fence(u.generation) \in Generation \cup {Null, "any"}
    BY <2>1, FenceIs DEF ThreadState
  <2>3. /\ StoppedPatch(s) \in Patched(s)
        /\ [s EXCEPT !.status = "exited", !.turn = FALSE] \in Patched(s)
    BY <1>1, Patches
  <2>4. CASE u.status = "stopping"
    BY <1>1, <1>4, <2>2, <2>3, <2>4, MarkMoves, PatchIsUpdate DEF Calls, Touches
  <2>5. CASE u.status # "stopping"
    BY <1>1, <1>4, <2>2, <2>3, <2>5, MarkMoves, PatchIsUpdate DEF Calls, Touches
  <2>6. QED
    BY <2>4, <2>5
<1>5. CASE RecoveryFailed(t)
  BY <1>1, <1>2, <1>5, PatchIsUpdate DEF RecoveryFailed, Attempt, Touches
<1>6. CASE RecoveryMissed(t) \/ RecoveryGivesUp(t)
  <2>1. MarkMissed(t)
    BY <1>6 DEF RecoveryMissed, RecoveryGivesUp
  <2>2. IsTerminal(u) => u.revision \in Nat
    BY <1>3 DEF IsTerminal, NoState, ThreadState
  <2>3. QED
    BY <1>1, <1>2, <2>1, <2>2, PatchIsUpdate DEF MarkMissed, Attempt, Touches
<1>7. CASE RecoverStructured(t)
  <2>1. /\ u # NoState /\ IsStructured(u) /\ s.revision + 2 =< MaxRevision
    BY <1>7 DEF RecoverStructured, Free
  <2>2. u \in ThreadState
    BY <1>3, <2>1
  <2>3. u.revision \in Nat
    BY <2>2 DEF ThreadState
  <2>4. /\ CanCompleteStructuredStop(s, u.revision) => u.revision \in Revision
        /\ CanCompleteStructuredRestore(s, u.revision) => u.revision \in Revision
    BY <1>1 DEF CanCompleteStructuredStop, CanCompleteStructuredRestore
  <2>5. DeletionBegun(s).revision =< MaxRevision
    <3>1. DeletionBegun(s).revision \in {s.revision, s.revision + 1}
      BY <1>1 DEF DeletionBegun, Structured, ThreadState
    <3>2. QED
      BY <1>1, <2>1, <3>1, BoundAssumption
  <2>6. \/ UNCHANGED authority
        \/ /\ CanCompleteStructuredStop(s, u.revision)
           /\ \/ Store(t, Structured(u.revision, "ready"))
              \/ StoreFails(t, Structured(u.revision, "ready"))
        \/ /\ CanBeginThreadDeletion(s)
           /\ Store(t, DeletionBegun(s)) \/ StoreFails(t, DeletionBegun(s))
        \/ /\ CanCompleteStructuredRestore(s, u.revision)
           /\ \/ Store(t, Structured(u.revision, "ready"))
              \/ StoreFails(t, Structured(u.revision, "ready"))
    <3>1. CASE u.status = "deleting"
      BY <1>7, <3>1 DEF RecoverStructured
    <3>2. CASE u.status = "stopping"
      BY <1>7, <3>2 DEF RecoverStructured, Attempt
    <3>3. CASE u.status \in {"ready", "restoring"} /\ deleted[t]
      BY <1>7, <3>3 DEF RecoverStructured, Attempt
    <3>4. CASE u.status = "restoring" /\ ~deleted[t]
      BY <1>7, <3>4 DEF RecoverStructured, Attempt
    <3>5. CASE /\ u.status \notin {"deleting", "stopping", "restoring"}
               /\ ~(u.status = "ready" /\ deleted[t])
      BY <1>7, <3>5 DEF RecoverStructured
    <3>6. QED
      BY <3>1, <3>2, <3>3, <3>4, <3>5
  <2>7. QED
    BY <1>1, <2>4, <2>5, <2>6
       DEF Touches, StructuredStep, CompleteStructuredStop, CompleteStructuredRestore,
           BeginThreadDeletion, Commit
<1>8. QED
  BY <1>4, <1>5, <1>6, <1>7

(* What happens beside the jobs. *)
LEMMA OtherTouches ==
  ASSUME CoordinatorInv, NEW t \in Thread,
         \/ \E c \in ClaimId : TurnStep(t, c)
         \/ FinalizeExit(t) \/ FinalizeDeletion(t) \/ AttachFails(t)
         \/ \E e \in exits : e.thread = t /\ PatchExit(e)
  PROVE  Touches(t)
<1> DEFINE s == states[t]
<1>1. /\ available /\ s \in ThreadState /\ s.revision \in Revision /\ s.revision \in Nat
      /\ claims \in [Thread -> [ClaimId -> Claim]]
      /\ s.generation \in Generation \cup {Null}
  BY Holds DEF ThreadState
<1>2. ASSUME NEW c \in ClaimId, TurnStep(t, c) PROVE Touches(t)
  <2>1. CASE ReserveTurn(t, c) \/ TakeTurn(t, c) \/ ReleaseLease(t, c) \/ ReservationExpires(t, c)
    BY <2>1 DEF ReserveTurn, TakeTurn, ReleaseLease, ReservationExpires, ClaimStep, Touches
  <2>2. CASE Lease(t, c)
    BY <1>1, <2>2 DEF Lease, ClaimStep, Touches
  <2>3. CASE OpenSession(t, c) \/ SendTurn(t, c)
    BY <2>3 DEF OpenSession, SendTurn, SessionOnly, Touches
  <2>4. CASE HookPatch(t, c)
    <3>1. /\ [s EXCEPT !.status = "running", !.turn = TRUE] \in Patched(s)
          /\ [s EXCEPT !.status = "ready", !.turn = FALSE] \in Patched(s)
      BY <1>1, Patches
    <3>2. claims[t][c].revision \in Nat /\ claims[t][c].generation \in Generation \cup {Null}
      BY <1>1 DEF Claim
    <3>3. QED
      BY <1>1, <2>4, <3>1, <3>2, PatchIsUpdate DEF HookPatch, Touches
  <2>5. QED
    BY <1>2, <2>1, <2>2, <2>3, <2>4 DEF TurnStep
<1>3. CASE FinalizeExit(t)
  <2>1. [s EXCEPT !.turn = FALSE] \in Patched(s)
    BY <1>1, Patches
  <2>2. QED
    BY <1>1, <1>3, <2>1, PatchIsUpdate DEF FinalizeExit, Attempt, Touches
<1>4. CASE FinalizeDeletion(t)
  BY <1>1, <1>4 DEF FinalizeDeletion, Touches, StructuredStep, ForgetThread, Commit
<1>5. ASSUME NEW e \in exits, e.thread = t, PatchExit(e) PROVE Touches(t)
  <2>1. e.revision \in Nat /\ e.generation \in Generation
    BY DEF CoordinatorInv, CoordinatorType, Exit
  <2>2. [s EXCEPT !.status = "exited"] \in Patched(s)
    BY <1>1, Patches
  <2>3. QED
    BY <1>1, <1>5, <2>1, <2>2, PatchIsUpdate DEF PatchExit, Touches
<1>6. CASE AttachFails(t)
  <2>1. [s EXCEPT !.status = "error"] \in Patched(s)
    BY <1>1, Patches
  <2>2. QED
    BY <1>1, <1>6, <2>1, PatchIsUpdate DEF AttachFails, Touches
<1>7. QED
  BY <1>2, <1>3, <1>4, <1>5, <1>6

(* One step of one thread, and of whoever works for it. *)
Moves(t) ==
  \/ JobStep(t) \/ Begin(t)
  \/ \E c \in ClaimId : TurnStep(t, c)
  \/ TurnEnds(t) \/ SessionCloses(t)
  \/ ProcessExits(t) \/ HostTearsDown(t)
  \/ DropRecord(t) \/ FinalizeExit(t)
  \/ BeginAttach(t) \/ AttachFails(t)
  \/ DeleteThread(t) \/ FinalizeDeletion(t)
  \/ RecoveryTimesOut(t) \/ RecoveryGivesUp(t)
  \/ \E e \in exits : e.thread = t /\ (ReadExit(e) \/ PatchExit(e))

LEMMA NextMoves ==
  ASSUME CoordinatorType, CoordinatorNext PROVE Crash \/ \E t \in Thread : Moves(t)
<1>1. \A e \in exits : e.thread \in Thread
  BY DEF CoordinatorType, Exit
<1>2. QED
  BY <1>1, CoordinatorNext DEF CoordinatorNext, Moves

(* Whatever a thread does, the authority goes on by one of its operations on
   that thread, or stays as it is. *)
LEMMA MovesTouch ==
  ASSUME CoordinatorInv, NEW t \in Thread, Moves(t) PROVE Touches(t)
<1>1. CASE JobStep(t)
  <2>1. CASE \/ Verify(t) \/ Enter(t) \/ Lookup(t) \/ Suspend(t) \/ Spawn(t) \/ Listen(t) \/ Probe(t)
             \/ Kill(t) \/ Resume(t) \/ Drain(t) \/ StopSession(t) \/ Finish(t)
    BY <2>1 DEF Verify, Enter, Lookup, Suspend, Spawn, Listen, Probe, Kill, Resume, Drain,
                StopSession, Finish, Touches
  <2>2. QED
    BY <1>1, <2>1, LaunchTouches, EndTouches, RecoveryTouches DEF JobStep
<1>2. CASE Begin(t)
  BY <1>2, RecoveryTouches
     DEF Begin, BeginStart, BeginRestart, BeginChat, BeginStop, BeginDelete, BeginRecovery, NewJob,
         Touches
<1>3. CASE \/ TurnEnds(t) \/ SessionCloses(t) \/ ProcessExits(t) \/ HostTearsDown(t) \/ DropRecord(t)
           \/ DeleteThread(t) \/ RecoveryTimesOut(t) \/ BeginAttach(t)
           \/ \E e \in exits : ReadExit(e)
  BY <1>3 DEF TurnEnds, SessionCloses, SessionOnly, ProcessExits, HostTearsDown, DropRecord,
              DeleteThread, RecoveryTimesOut, BeginAttach, ReadExit, Touches
<1>4. QED
  BY <1>1, <1>2, <1>3, OtherTouches, RecoveryTouches, Moves(t) DEF Moves

(* Every step of the coordinator is a step of the authority, or a stutter. *)
LEMMA StepsOfAuthority ==
  ASSUME CoordinatorInv, [CoordinatorNext]_allVars PROVE [Next]_vars
<1>1. CASE UNCHANGED allVars
  BY <1>1 DEF allVars, authority, vars
<1>2. CASE Crash
  BY <1>2 DEF Crash, Next, Restart, CoordinatorInv
<1>3. CASE \E t \in Thread : Moves(t)
  <2>1. PICK t \in Thread : Moves(t)
    BY <1>3
  <2>2. Touches(t)
    BY <2>1, MovesTouch
  <2>3. QED
    BY <2>2 DEF Touches, Next, authority, vars
<1>4. QED
  BY <1>1, <1>2, <1>3, NextMoves DEF CoordinatorInv

-----------------------------------------------------------------------------
(* What a step leaves alone *)

(* The other threads are where they were; a write by t brings to disk what
   memory has of them, and takes expired reservations off their claims. *)
Elsewhere(t) ==
  \A u \in Thread \ {t} :
    /\ states'[u] = states[u] /\ disk'[u] \in {disk[u], states[u]}
    /\ \A c \in ClaimId : claims[u][c] = NoClaim => claims'[u][c] = NoClaim

(* What a write makes of its thread, whether it is stored or fails. *)
LEMMA WritesAt ==
  ASSUME TypeOK, NEW t \in Thread
  PROVE  \A m :
           /\ Store(t, m) =>
                /\ states'[t] = m /\ disk'[t] = m
                /\ \A c \in ClaimId : claims'[t][c] = Kept(claims[t][c])
           /\ StoreFails(t, m) =>
                /\ states'[t] = states[t] /\ disk'[t] \in {disk[t], m}
                /\ claims' = claims
BY DEF TypeOK, Store, StoreFails, Persisted, Pruned

LEMMA KeptNone == Kept(NoClaim) = NoClaim
BY DEF Kept

LEMMA WritesElsewhere ==
  ASSUME TypeOK, NEW t \in Thread
  PROVE  \A m : Commit(t, m) => Elsewhere(t) /\ available' = available /\ marker' = marker
<1> SUFFICES ASSUME NEW m, Commit(t, m)
             PROVE  Elsewhere(t) /\ available' = available /\ marker' = marker
  OBVIOUS
<1>1. \A u \in Thread, c \in ClaimId : claims[u][c] = NoClaim => Pruned[u][c] = NoClaim
  BY KeptNone DEF Pruned
<1>2. \A u \in Thread \ {t} : Persisted(t, m)[u] = states[u]
  BY DEF TypeOK, Persisted
<1>3. CASE Store(t, m)
  BY <1>1, <1>2, <1>3 DEF Store, Elsewhere
<1>4. CASE StoreFails(t, m)
  BY <1>2, <1>4 DEF StoreFails, Elsewhere
<1>5. QED
  BY <1>3, <1>4 DEF Commit

LEMMA TouchesElsewhere ==
  ASSUME TypeOK, NEW t \in Thread, Touches(t)
  PROVE  Elsewhere(t) /\ available' = available /\ marker' = marker
<1>1. ASSUME NEW c \in ClaimId, ClaimStep(t, c)
      PROVE  Elsewhere(t) /\ available' = available /\ marker' = marker
  <2>1. \A u \in Thread, b \in ClaimId : Pruned[u][b] = Kept(claims[u][b])
    BY DEF Pruned
  <2>2. ASSUME NEW claim, SetClaim(t, c, claim)
        PROVE  Elsewhere(t) /\ available' = available /\ marker' = marker
    BY <2>2, KeptNone DEF SetClaim, Pruned, Elsewhere
  <2>3. CASE ReleaseClaim(t, c) \/ ClaimExpires(t, c)
    BY <2>3 DEF ReleaseClaim, ClaimExpires, TypeOK, Elsewhere
  <2>4. QED
    BY <1>1, <2>2, <2>3
       DEF ClaimStep, AcquireStructured, ReserveStructuredStart, ClaimStructuredStart, AcquireTerminal
<1>2. CASE TerminalStep(t)
  <2>1. \E m : Commit(t, m)
    BY <1>2 DEF TerminalStep, BeginTerminalSwitch, BeginTerminalRestart, BeginTerminalStop,
                BeginStructuredSwitch, CompleteTerminalStart, UpdateTerminal, ToStructured
  <2>2. QED
    BY <2>1, WritesElsewhere
<1>3. CASE StructuredStep(t)
  <2>1. \E m : Commit(t, m)
    BY <1>3 DEF StructuredStep, BeginStructuredStop, BeginThreadDeletion, ForgetThread,
                CompleteStructuredRestore, CompleteStructuredStop, CompleteTerminalDeletion
  <2>2. QED
    BY <2>1, WritesElsewhere
<1>4. CASE UNCHANGED authority
  BY <1>4 DEF authority, Elsewhere
<1>5. QED
  BY <1>1, <1>2, <1>3, <1>4 DEF Touches

(* The physical world changes in these steps only. *)
LEMMA WorldFrame ==
  ASSUME NEW t \in Thread, Moves(t)
  PROVE  \/ UNCHANGED <<process, host, watch, exits>>
         \/ Verify(t) \/ Spawn(t) \/ Listen(t) \/ Kill(t) \/ ProcessExits(t) \/ HostTearsDown(t)
         \/ \E e \in exits : e.thread = t /\ (ReadExit(e) \/ PatchExit(e))
<1>1. CASE JobStep(t)
  BY <1>1
     DEF JobStep, Quiesce, Enter, Lookup, BeginSwitch, Suspend, Prepare, Adopt, Probe,
         Complete, Check, Abort, Settle, BeginTransition, Blocked, Renew, MarkStopped, Leave, Resume,
         MakeReady, BeginFence, Drain, StopSession, Release, BeginDeletion, Entomb, Mark,
         RecoveryFailed, RecoveryMissed, MarkMissed, Finish, world
<1>2. CASE Begin(t)
  BY <1>2 DEF Begin, BeginStart, BeginRestart, BeginChat, BeginStop, BeginDelete, BeginRecovery,
              NewJob, RecoverStructured, world
<1>3. CASE \E c \in ClaimId : TurnStep(t, c)
  BY <1>3 DEF TurnStep, ReserveTurn, TakeTurn, OpenSession, SendTurn, SessionOnly, Lease, HookPatch,
              ReleaseLease, ReservationExpires, ClaimOnly, world
<1>4. CASE \/ TurnEnds(t) \/ SessionCloses(t) \/ DropRecord(t) \/ FinalizeExit(t)
           \/ DeleteThread(t) \/ FinalizeDeletion(t) \/ RecoveryTimesOut(t) \/ RecoveryGivesUp(t)
           \/ BeginAttach(t) \/ AttachFails(t)
  BY <1>4 DEF TurnEnds, SessionCloses, SessionOnly, DropRecord, FinalizeExit, DeleteThread,
              FinalizeDeletion, RecoveryTimesOut, RecoveryGivesUp, MarkMissed, BeginAttach,
              AttachFails, world
<1>5. QED
  BY <1>1, <1>2, <1>3, <1>4, Moves(t) DEF Moves

(* So do the books of the service. *)
LEMMA BooksFrame ==
  ASSUME NEW t \in Thread, Moves(t)
  PROVE  \/ UNCHANGED books
         \/ Settle(t) \/ Finish(t) \/ DropRecord(t) \/ DeleteThread(t) \/ RecoverStructured(t)
         \/ RecoveryMissed(t) \/ RecoveryGivesUp(t) \/ BeginAttach(t)
<1>1. CASE JobStep(t)
  BY <1>1
     DEF JobStep, Verify, Quiesce, Enter, Lookup, BeginSwitch, Suspend, Prepare, Spawn, Adopt, Listen,
         Probe, Complete, Check, Abort, BeginTransition, Kill, Blocked, Renew, MarkStopped, Leave,
         Resume, MakeReady, BeginFence, Drain, StopSession, Release, BeginDeletion, Entomb, Mark,
         RecoveryFailed
<1>2. CASE Begin(t)
  BY <1>2 DEF Begin, BeginStart, BeginRestart, BeginChat, BeginStop, BeginDelete, BeginRecovery,
              NewJob
<1>3. CASE \E c \in ClaimId : TurnStep(t, c)
  BY <1>3 DEF TurnStep, ReserveTurn, TakeTurn, OpenSession, SendTurn, SessionOnly, Lease, HookPatch,
              ReleaseLease, ReservationExpires, ClaimOnly
<1>4. CASE \/ TurnEnds(t) \/ SessionCloses(t) \/ ProcessExits(t) \/ HostTearsDown(t)
           \/ FinalizeExit(t) \/ FinalizeDeletion(t) \/ RecoveryTimesOut(t) \/ AttachFails(t)
           \/ \E e \in exits : ReadExit(e) \/ PatchExit(e)
  BY <1>4 DEF TurnEnds, SessionCloses, SessionOnly, ProcessExits, HostTearsDown, FinalizeExit,
              FinalizeDeletion, RecoveryTimesOut, AttachFails, ReadExit, PatchExit
<1>5. QED
  BY <1>1, <1>2, <1>3, <1>4, Moves(t) DEF Moves

(* What is known of the clients changes only when one attaches. *)
LEMMA AttachFrame ==
  ASSUME NEW t \in Thread, Moves(t) PROVE UNCHANGED attaching \/ BeginAttach(t)
BY BooksFrame
   DEF books, Settle, Finish, DropRecord, DeleteThread, RecoverStructured, RecoveryMissed,
       RecoveryGivesUp, MarkMissed, Recovered

(* And a job is touched by its own steps, and when it begins. *)
LEMMA JobFrame ==
  ASSUME NEW t \in Thread, Moves(t)
  PROVE  \/ UNCHANGED job
         \/ JobStep(t) \/ RecoveryTimesOut(t)
         \/ BeginStart(t) \/ BeginRestart(t) \/ BeginChat(t) \/ BeginStop(t) \/ BeginDelete(t)
         \/ BeginRecovery(t)
<1>1. CASE Begin(t)
  BY <1>1 DEF Begin, RecoverStructured
<1>2. CASE \E c \in ClaimId : TurnStep(t, c)
  BY <1>2 DEF TurnStep, ReserveTurn, TakeTurn, OpenSession, SendTurn, SessionOnly, Lease, HookPatch,
              ReleaseLease, ReservationExpires, ClaimOnly
<1>3. CASE \/ TurnEnds(t) \/ SessionCloses(t) \/ ProcessExits(t) \/ HostTearsDown(t) \/ DropRecord(t)
           \/ FinalizeExit(t) \/ DeleteThread(t) \/ FinalizeDeletion(t) \/ RecoveryGivesUp(t)
           \/ BeginAttach(t) \/ AttachFails(t)
           \/ \E e \in exits : ReadExit(e) \/ PatchExit(e)
  BY <1>3 DEF TurnEnds, SessionCloses, SessionOnly, ProcessExits, HostTearsDown, DropRecord,
              FinalizeExit, DeleteThread, FinalizeDeletion, RecoveryGivesUp, BeginAttach, AttachFails,
              ReadExit, PatchExit
<1>4. QED
  BY <1>1, <1>2, <1>3, Moves(t) DEF Moves

-----------------------------------------------------------------------------
(* Jobs stay well typed, and where their operations get                        *)

LEMMA NoJobShape == Shape(NoJob)
BY DEF NoJob, Shape, Launch, Launching

(* A step of a job leaves a job whose operation is one that gets there. *)
LEMMA JobStepShapes ==
  ASSUME NEW t \in Thread, JobTyped(t), Recovery(t), JobStep(t)
  PROVE  job'[t] \in JobRow /\ Shape(job'[t])
<1> DEFINE j == job[t]
<1>1. j \in JobRow /\ Shape(j) /\ NoJob \in JobRow /\ Shape(NoJob)
  BY NoJobRow, NoJobShape DEF JobTyped
<1>2. CASE Verify(t)
  <2>1. job'[t] \in JobRow
    BY <1>1, <1>2, VerifyMoves DEF Goes, Checks, GivesUp
  <2>2. j.at = "verify" /\ (j.op = "none" => j.recovery /\ Owner(t).status \in {"deleting", "stopping"})
    BY <1>1, <1>2, VerifyMoves, Recovery(t) DEF Recovery, Owner, Shape, NoJob
  <2>3. Checks(t, j, job'[t]) \/ (Goes(j, job'[t], "failed") /\ j.recovery) \/ job'[t] = NoJob
    BY <1>1, <1>2, VerifyMoves
  <2>4. CASE Checks(t, j, job'[t])
    BY <1>1, <2>2, <2>4 DEF Checks, GivesUp, Goes, Shape, Launching, Launch
  <2>5. CASE Goes(j, job'[t], "failed") /\ j.recovery
    BY <1>1, <2>2, <2>5 DEF Goes, Shape, Launching, Launch
  <2>6. QED
    BY <1>1, <2>1, <2>3, <2>4, <2>5
<1>3. CASE Quiesce(t)
  <2>1. job'[t] \in JobRow
    BY <1>1, <1>3, QuiesceMoves DEF Goes
  <2>2. Shape(job'[t])
    BY <1>1, <1>3, QuiesceMoves DEF Goes, Launching, Launch, Shape
  <2>3. QED
    BY <2>1, <2>2
<1>4. CASE Enter(t)
  <2>1. job'[t] \in JobRow
    BY <1>1, <1>4, EnterMoves DEF Goes, Fails, GivesUp
  <2>2. Shape(job'[t])
    BY <1>1, <1>4, EnterMoves DEF Goes, Launching, Launch, Shape, Fails, GivesUp
  <2>3. QED
    BY <2>1, <2>2
<1>5. CASE Lookup(t)
  <2>1. job'[t] \in JobRow
    BY <1>1, <1>5, LookupMoves DEF Goes, Fails, GivesUp
  <2>2. Shape(job'[t])
    BY <1>1, <1>5, LookupMoves DEF Goes, Launching, Launch, Shape, Fails, GivesUp
  <2>3. QED
    BY <2>1, <2>2
<1>6. CASE BeginSwitch(t)
  <2>1. job'[t] \in JobRow
    BY <1>1, <1>6, BeginSwitchMoves DEF Goes, Calls, Rises, Fails, GivesUp
  <2>2. Shape(job'[t])
    BY <1>1, <1>6, BeginSwitchMoves DEF Goes, Launching, Launch, Shape, Calls, Rises, Fails, GivesUp
  <2>3. QED
    BY <2>1, <2>2
<1>7. CASE Suspend(t)
  <2>1. job'[t] \in JobRow
    BY <1>1, <1>7, SuspendMoves DEF Goes, Undoes, Kills
  <2>2. Shape(job'[t])
    BY <1>1, <1>7, SuspendMoves DEF Goes, Launching, Launch, Shape, Undoes, Kills
  <2>3. QED
    BY <2>1, <2>2
<1>8. CASE Prepare(t)
  <2>1. job'[t] \in JobRow
    BY <1>1, <1>8, PrepareMoves DEF Goes, Calls, Undoes, Kills
  <2>2. Shape(job'[t])
    BY <1>1, <1>8, PrepareMoves DEF Goes, Launching, Launch, Shape, Calls, Undoes, Kills
  <2>3. QED
    BY <2>1, <2>2
<1>9. CASE Spawn(t)
  <2>1. job'[t] \in JobRow
    BY <1>1, <1>9, SpawnMoves DEF Goes, Undoes, Kills
  <2>2. Shape(job'[t])
    BY <1>1, <1>9, SpawnMoves DEF Goes, Launching, Launch, Shape, Undoes, Kills
  <2>3. QED
    BY <2>1, <2>2
<1>10. CASE Adopt(t)
  <2>1. job'[t] \in JobRow
    BY <1>1, <1>10, AdoptMoves DEF Goes, Calls, Undoes, Kills
  <2>2. Shape(job'[t])
    BY <1>1, <1>10, AdoptMoves DEF Goes, Launching, Launch, Shape, Calls, Undoes, Kills
  <2>3. QED
    BY <2>1, <2>2
<1>11. CASE Listen(t)
  <2>1. job'[t] \in JobRow
    BY <1>1, <1>11, ListenMoves DEF Goes, Undoes, Kills
  <2>2. Shape(job'[t])
    BY <1>1, <1>11, ListenMoves DEF Goes, Launching, Launch, Shape, Undoes, Kills
  <2>3. QED
    BY <2>1, <2>2
<1>12. CASE Probe(t)
  <2>1. job'[t] \in JobRow
    BY <1>1, <1>12, ProbeMoves DEF Goes, Undoes, Kills
  <2>2. Shape(job'[t])
    BY <1>1, <1>12, ProbeMoves DEF Goes, Launching, Launch, Shape, Undoes, Kills
  <2>3. QED
    BY <2>1, <2>2
<1>13. CASE Complete(t)
  <2>1. job'[t] \in JobRow
    BY <1>1, <1>13, CompleteMoves DEF Goes, Calls, Undoes, Kills
  <2>2. Shape(job'[t])
    BY <1>1, <1>13, CompleteMoves DEF Goes, Launching, Launch, Shape, Calls, Undoes, Kills
  <2>3. QED
    BY <2>1, <2>2
<1>14. CASE Check(t)
  <2>1. job'[t] \in JobRow
    BY <1>1, <1>14, CheckMoves DEF Goes, Calls, Returns
  <2>2. Shape(job'[t])
    BY <1>1, <1>14, CheckMoves DEF Goes, Launching, Launch, Shape, Calls, Returns
  <2>3. QED
    BY <2>1, <2>2
<1>15. CASE Settle(t)
  <2>1. job'[t] \in JobRow
    BY <1>1, <1>15, SettleMoves DEF Goes, GivesUp
  <2>2. Shape(job'[t])
    BY <1>1, <1>15, SettleMoves DEF Goes, Launching, Launch, Shape, GivesUp
  <2>3. QED
    BY <2>1, <2>2
<1>16. CASE BeginTransition(t)
  <2>1. job'[t] \in JobRow
    BY <1>1, <1>16, BeginTransitionMoves DEF Goes, Stops, Calls, Kills, Fails, GivesUp
  <2>2. Shape(job'[t])
    BY <1>1, <1>16, BeginTransitionMoves DEF Goes, Launching, Launch, Shape, Stops, Calls, Kills, Fails, GivesUp
  <2>3. QED
    BY <2>1, <2>2
<1>17. CASE Abort(t)
  <2>1. job'[t] \in JobRow
    BY <1>1, <1>17, AbortMoves DEF Goes, Stops, Calls, Kills, Fails, GivesUp
  <2>2. Shape(job'[t])
    BY <1>1, <1>17, AbortMoves DEF Goes, Launching, Launch, Shape, Stops, Calls, Kills, Fails, GivesUp
  <2>3. QED
    BY <2>1, <2>2
<1>18. CASE Kill(t)
  <2>1. job'[t] \in JobRow
    BY <1>1, <1>18, KillMoves DEF Goes, Fails, GivesUp
  <2>2. Shape(job'[t])
    BY <1>1, <1>18, KillMoves DEF Goes, Launching, Launch, Shape, Fails, GivesUp
  <2>3. QED
    BY <2>1, <2>2
<1>19. CASE Blocked(t)
  <2>1. job'[t] \in JobRow
    BY <1>1, <1>19, BlockedMoves DEF Goes, Fails, GivesUp
  <2>2. Shape(job'[t])
    BY <1>1, <1>19, BlockedMoves DEF Goes, Launching, Launch, Shape, Fails, GivesUp
  <2>3. QED
    BY <2>1, <2>2
<1>20. CASE Renew(t)
  <2>1. job'[t] \in JobRow
    BY <1>1, <1>20, RenewMoves DEF Goes, Calls, Rises, Fails, GivesUp
  <2>2. Shape(job'[t])
    BY <1>1, <1>20, RenewMoves DEF Goes, Launching, Launch, Shape, Calls, Rises, Fails, GivesUp
  <2>3. QED
    BY <2>1, <2>2
<1>21. CASE MarkStopped(t)
  <2>1. job'[t] \in JobRow
    BY <1>1, <1>21, MarkStoppedMoves DEF Goes, Calls, Returns, Fails, GivesUp
  <2>2. Shape(job'[t])
    BY <1>1, <1>21, MarkStoppedMoves DEF Goes, Launching, Launch, Shape, Calls, Returns, Fails, GivesUp
  <2>3. QED
    BY <2>1, <2>2
<1>22. CASE Leave(t)
  <2>1. job'[t] \in JobRow
    BY <1>1, <1>22, LeaveMoves DEF Goes, Calls, Rises, Fails, GivesUp
  <2>2. Shape(job'[t])
    BY <1>1, <1>22, LeaveMoves DEF Goes, Launching, Launch, Shape, Calls, Rises, Fails, GivesUp
  <2>3. QED
    BY <2>1, <2>2
<1>23. CASE Resume(t)
  <2>1. job'[t] \in JobRow
    BY <1>1, <1>23, ResumeMoves DEF Goes
  <2>2. Shape(job'[t])
    BY <1>1, <1>23, ResumeMoves DEF Goes, Launching, Launch, Shape
  <2>3. QED
    BY <2>1, <2>2
<1>24. CASE MakeReady(t)
  <2>1. job'[t] \in JobRow
    BY <1>1, <1>24, MakeReadyMoves DEF Goes, Calls, Returns, Fails, GivesUp
  <2>2. Shape(job'[t])
    BY <1>1, <1>24, MakeReadyMoves DEF Goes, Launching, Launch, Shape, Calls, Returns, Fails, GivesUp
  <2>3. QED
    BY <2>1, <2>2
<1>25. CASE BeginFence(t)
  <2>1. job'[t] \in JobRow
    BY <1>1, <1>25, BeginFenceMoves DEF Goes, Calls, Rises, Fails, GivesUp
  <2>2. Shape(job'[t])
    BY <1>1, <1>25, BeginFenceMoves DEF Goes, Launching, Launch, Shape, Calls, Rises, Fails, GivesUp
  <2>3. QED
    BY <2>1, <2>2
<1>26. CASE Drain(t)
  <2>1. job'[t] \in JobRow
    BY <1>1, <1>26, DrainMoves DEF Goes, Returns, Kills, Fails, GivesUp
  <2>2. Shape(job'[t])
    BY <1>1, <1>26, DrainMoves DEF Goes, Launching, Launch, Shape, Returns, Kills, Fails, GivesUp
  <2>3. QED
    BY <2>1, <2>2
<1>27. CASE StopSession(t)
  <2>1. job'[t] \in JobRow
    BY <1>1, <1>27, StopSessionMoves DEF Goes
  <2>2. Shape(job'[t])
    BY <1>1, <1>27, StopSessionMoves DEF Goes, Launching, Launch, Shape
  <2>3. QED
    BY <2>1, <2>2
<1>28. CASE Release(t)
  <2>1. job'[t] \in JobRow
    BY <1>1, <1>28, ReleaseMoves DEF Goes, Calls
  <2>2. Shape(job'[t])
    BY <1>1, <1>28, ReleaseMoves DEF Goes, Launching, Launch, Shape, Calls
  <2>3. QED
    BY <2>1, <2>2
<1>29. CASE BeginDeletion(t)
  <2>1. job'[t] \in JobRow
    BY <1>1, <1>29, BeginDeletionMoves DEF Goes, Calls, Rises, Fails, GivesUp
  <2>2. Shape(job'[t])
    BY <1>1, <1>29, BeginDeletionMoves DEF Goes, Launching, Launch, Shape, Calls, Rises, Fails, GivesUp
  <2>3. QED
    BY <2>1, <2>2
<1>30. CASE Entomb(t)
  <2>1. job'[t] \in JobRow
    BY <1>1, <1>30, EntombMoves DEF Goes, Calls, Returns, Fails, GivesUp
  <2>2. Shape(job'[t])
    BY <1>1, <1>30, EntombMoves DEF Goes, Launching, Launch, Shape, Calls, Returns, Fails, GivesUp
  <2>3. QED
    BY <2>1, <2>2
<1>31. CASE Mark(t)
  <2>1. job'[t] \in JobRow
    BY <1>1, <1>31, MarkMoves DEF Goes, Calls
  <2>2. Shape(job'[t])
    BY <1>1, <1>31, MarkMoves DEF Goes, Launching, Launch, Shape, Calls
  <2>3. QED
    BY <2>1, <2>2
<1>32. CASE RecoveryFailed(t)
  <2>1. job'[t] \in JobRow
    BY <1>1, <1>32, RecoveryFailedMoves DEF Goes
  <2>2. Shape(job'[t])
    BY <1>1, <1>32, RecoveryFailedMoves DEF Goes, Launching, Launch, Shape
  <2>3. QED
    BY <2>1, <2>2
<1>33. CASE RecoveryMissed(t)
  <2>1. job'[t] \in JobRow
    BY <1>1, <1>33, RecoveryMissedMoves DEF Goes
  <2>2. Shape(job'[t])
    BY <1>1, <1>33, RecoveryMissedMoves DEF Goes, Launching, Launch, Shape
  <2>3. QED
    BY <2>1, <2>2
<1>34. CASE Finish(t)
  <2>1. job'[t] \in JobRow
    BY <1>1, <1>34, FinishMoves DEF Goes
  <2>2. Shape(job'[t])
    BY <1>1, <1>34, FinishMoves DEF Goes, Launching, Launch, Shape
  <2>3. QED
    BY <2>1, <2>2
<1>35. QED
  BY <1>2, <1>3, <1>4, <1>5, <1>6, <1>7, <1>8, <1>9, <1>10, <1>11, <1>12, <1>13, <1>14, <1>15, <1>16, <1>17, <1>18, <1>19, <1>20, <1>21, <1>22, <1>23, <1>24, <1>25, <1>26, <1>27, <1>28, <1>29, <1>30, <1>31, <1>32, <1>33, <1>34, JobStep(t) DEF JobStep

(* The record of a job that begins. *)
LEMMA NewRow ==
  ASSUME NEW op \in Op, NEW p \in Place, NEW k
  PROVE  /\ k = [NoJob EXCEPT !.op = op, !.at = p] =>
              /\ k \in JobRow /\ k.op = op /\ k.at = p /\ k.then = "idle"
              /\ ~k.recovery /\ ~k.failing
         /\ k = [NoJob EXCEPT !.op = op, !.recovery = TRUE, !.at = p] =>
              /\ k \in JobRow /\ k.op = op /\ k.at = p /\ k.then = "idle"
              /\ k.recovery /\ ~k.failing
<1>1. NoJob \in JobRow /\ NoJob.then = "idle" /\ NoJob.recovery = FALSE /\ NoJob.failing = FALSE
  BY NoJobRow DEF NoJob
<1>2. \A j \in JobRow : LET i == [j EXCEPT !.op = op, !.at = p] IN
        i \in JobRow /\ i.op = op /\ i.at = p /\ i.then = j.then /\ i.recovery = j.recovery
          /\ i.failing = j.failing
  BY DEF JobRow
<1>3. \A j \in JobRow : LET i == [j EXCEPT !.op = op, !.recovery = TRUE, !.at = p] IN
        i \in JobRow /\ i.op = op /\ i.at = p /\ i.then = j.then /\ i.recovery = TRUE
          /\ i.failing = j.failing
  BY DEF JobRow
<1>4. QED
  BY <1>1, <1>2, <1>3

(* How a job begins. *)
LEMMA BeginMoves ==
  ASSUME NEW t \in Thread, job \in [Thread -> JobRow]
  PROVE  LET k == job'[t] IN
         /\ \A op \in Op, p \in Place : NewJob(t, op, p) =>
              k \in JobRow /\ k.op = op /\ k.at = p /\ k.then = "idle" /\ ~k.recovery /\ ~k.failing
         /\ BeginRecovery(t) =>
              /\ job[t] = NoJob /\ unrecovered[t] # NoState /\ IsTerminal(unrecovered[t])
              /\ k \in JobRow /\ k.op \in RecoveryOps(t, unrecovered[t])
              /\ k.then = "idle" /\ k.recovery /\ ~k.failing
              /\ k.at = IF unrecovered[t].status = "stopped" /\ k.op = "none" THEN "finish"
                        ELSE IF WasInterrupted(unrecovered[t]) THEN "mark" ELSE "verify"
<1>1. \A k : Become(t, k) => job'[t] = k
  BY BecomesThat
<1>2. ASSUME BeginRecovery(t)
      PROVE  LET k == job'[t] IN
             /\ job[t] = NoJob /\ unrecovered[t] # NoState /\ IsTerminal(unrecovered[t])
             /\ k \in JobRow /\ k.op \in RecoveryOps(t, unrecovered[t])
             /\ k.then = "idle" /\ k.recovery /\ ~k.failing
             /\ k.at = IF unrecovered[t].status = "stopped" /\ k.op = "none" THEN "finish"
                       ELSE IF WasInterrupted(unrecovered[t]) THEN "mark" ELSE "verify"
  <2> DEFINE u == unrecovered[t]
             at(op) == IF u.status = "stopped" /\ op = "none" THEN "finish"
                       ELSE IF WasInterrupted(u) THEN "mark" ELSE "verify"
  <2>1. job[t] = NoJob /\ u # NoState /\ IsTerminal(u)
    BY <1>2 DEF BeginRecovery, Free
  <2>2. PICK op \in RecoveryOps(t, u) :
          Become(t, [NoJob EXCEPT !.op = op, !.recovery = TRUE, !.at = at(op)])
    <3>1. PICK op \in RecoveryOps(t, u) :
            Become(t, [NoJob EXCEPT !.op = op, !.recovery = TRUE, !.at =
                         CASE u.status = "stopped" /\ op = "none" -> "finish"
                           [] WasInterrupted(u) -> "mark"
                           [] OTHER -> "verify"])
      BY <1>2 DEF BeginRecovery
    <3>2. at(op) = CASE u.status = "stopped" /\ op = "none" -> "finish"
                     [] WasInterrupted(u) -> "mark"
                     [] OTHER -> "verify"
      BY DEF WasInterrupted
    <3>3. QED
      BY <3>1, <3>2
  <2>3. op \in Op /\ at(op) \in Place
    BY PlaceNames DEF RecoveryOps, Op
  <2>4. job'[t] = [NoJob EXCEPT !.op = op, !.recovery = TRUE, !.at = at(op)]
    BY <1>1, <2>2
  <2>5. /\ job'[t] \in JobRow /\ job'[t].op = op /\ job'[t].at = at(op) /\ job'[t].then = "idle"
        /\ job'[t].recovery /\ ~job'[t].failing
    <3>1. \A p \in Place : p = at(op) =>
            /\ job'[t] \in JobRow /\ job'[t].op = op /\ job'[t].at = p /\ job'[t].then = "idle"
            /\ job'[t].recovery /\ ~job'[t].failing
      <4>1. TAKE p \in Place
      <4>2. HAVE p = at(op)
      <4>3. job'[t] = [NoJob EXCEPT !.op = op, !.recovery = TRUE, !.at = p]
        BY <2>4, <4>2, Zenon
      <4>4. QED
        BY <2>3, <4>3, NewRow
    <3>2. QED
      BY <2>3, <3>1, Zenon
  <2>6. QED
    BY <2>1, <2>2, <2>5
<1>3. ASSUME NEW op \in Op, NEW p \in Place, NewJob(t, op, p)
      PROVE  LET k == job'[t] IN
             k \in JobRow /\ k.op = op /\ k.at = p /\ k.then = "idle" /\ ~k.recovery /\ ~k.failing
  <2>1. job'[t] = [NoJob EXCEPT !.op = op, !.at = p]
    BY <1>1, <1>3 DEF NewJob
  <2>2. /\ job'[t] \in JobRow /\ job'[t].op = op /\ job'[t].at = p /\ job'[t].then = "idle"
        /\ ~job'[t].recovery /\ ~job'[t].failing
    BY <2>1, NewRow
  <2>3. QED
    BY <2>2
<1>4. QED
  BY <1>2, <1>3, Zenon

LEMMA BeginShapes ==
  ASSUME NEW t \in Thread, JobTyped(t),
         \/ BeginStart(t) \/ BeginRestart(t) \/ BeginChat(t) \/ BeginStop(t) \/ BeginDelete(t)
         \/ BeginRecovery(t)
  PROVE  job'[t] \in JobRow /\ Shape(job'[t])
<1>1. CASE BeginRecovery(t)
  <2>1. job'[t].op \in {"none", "restart", "chat", "delete"}
    BY <1>1, BeginMoves DEF JobTyped, RecoveryOps
  <2>2. WasInterrupted(unrecovered[t]) =>
          unrecovered[t].status \notin {"deleting", "stopping", "stopped"}
    BY DEF WasInterrupted
  <2>3. job'[t] \in JobRow
    BY <1>1, BeginMoves DEF JobTyped
  <2>4. QED
    BY <1>1, <2>1, <2>2, <2>3, BeginMoves DEF JobTyped, Shape, Launch, Launching
<1>2. CASE BeginStart(t) \/ BeginRestart(t) \/ BeginChat(t) \/ BeginStop(t) \/ BeginDelete(t)
  <2>1. \E op \in {"start", "restart", "chat", "stop", "delete"}, p \in {"enter", "verify"} :
          NewJob(t, op, p)
    BY <1>2 DEF BeginStart, BeginRestart, BeginChat, BeginStop, BeginDelete
  <2>2. PICK op \in {"start", "restart", "chat", "stop", "delete"}, p \in {"enter", "verify"} :
          NewJob(t, op, p)
    BY <2>1
  <2>3. op \in Op /\ p \in Place
    BY PlaceNames DEF Op
  <2>4. LET k == job'[t] IN
          k \in JobRow /\ k.op = op /\ k.at = p /\ k.then = "idle" /\ ~k.recovery /\ ~k.failing
    BY <2>2, <2>3, BeginMoves DEF JobTyped
  <2>5. QED
    BY <2>4 DEF Shape, Launch, Launching
<1>3. QED
  BY <1>1, <1>2

(* Whoever moves, every job stays in its shape. *)
LEMMA JobMoves ==
  ASSUME CoordinatorInv, NEW t \in Thread, Moves(t)
  PROVE  /\ job' \in [Thread -> JobRow]
         /\ \A u \in Thread : Shape(job'[u])
         /\ \A u \in Thread \ {t} : job'[u] = job[u]
<1>1. JobTyped(t) /\ Recovery(t) /\ job \in [Thread -> JobRow]
  BY Holds DEF JobTyped
<1>2. \A u \in Thread : Shape(job[u])
  BY DEF CoordinatorInv
<1>3. UNCHANGED job \/ \E k : Become(t, k)
  <2>1. CASE JobStep(t)
    BY <2>1 DEF JobStep, Verify, Quiesce, Enter, Lookup, BeginSwitch, Suspend, Prepare, Spawn, Adopt,
         Listen, Probe, Complete, Check, Abort, Settle, BeginTransition, StopBegins, LeaveBegins, Kill,
         Blocked, Renew, MarkStopped, Leave, Resume, MakeReady, BeginFence, Drain, StopSession,
         Release, BeginDeletion, Entomb, Mark, RecoveryFailed, RecoveryMissed, Finish, Call
  <2>2. CASE \/ BeginStart(t) \/ BeginRestart(t) \/ BeginChat(t) \/ BeginStop(t) \/ BeginDelete(t)
             \/ BeginRecovery(t) \/ RecoveryTimesOut(t)
    BY <2>2 DEF BeginStart, BeginRestart, BeginChat, BeginStop, BeginDelete, NewJob, BeginRecovery,
         RecoveryTimesOut
  <2>3. QED
    BY <2>1, <2>2, JobFrame
<1>4. \A u \in Thread \ {t} : job'[u] = job[u]
  BY <1>1, <1>3 DEF Become
<1>5. job'[t] \in JobRow /\ Shape(job'[t])
  <2>1. CASE JobStep(t)
    BY <1>1, <2>1, JobStepShapes
  <2>2. CASE RecoveryTimesOut(t)
    <3>1. Goes(job[t], job'[t], "missed") /\ job[t].recovery
      BY <1>1, <2>2, BecomesThat, ToGoes, PlaceNames DEF RecoveryTimesOut, JobTyped
    <3>2. QED
      BY <1>1, <3>1 DEF JobTyped, Goes, Shape, Launch, Launching
  <2>3. CASE UNCHANGED job
    BY <1>1, <2>3 DEF JobTyped
  <2>4. QED
    BY <1>1, <2>1, <2>2, <2>3, BeginShapes, JobFrame
<1>6. job' \in [Thread -> JobRow]
  <2>1. job' = [u \in Thread |-> job'[u]]
    BY <1>1, <1>3 DEF Become
  <2>2. \A u \in Thread : job'[u] \in JobRow
    BY <1>1, <1>4, <1>5
  <2>3. QED
    BY <2>1, <2>2
<1>7. QED
  BY <1>2, <1>4, <1>5, <1>6

(* What a step does to the world and to the books of the other threads:
   nothing. *)
LEMMA EndsApart ==
  ASSUME CoordinatorType, NEW t \in Thread, NEW g \in Generation, NEW how \in {"headless", "gone"},
         Ends(t, g, how)
  PROVE  /\ process' \in [Thread -> [Generation -> {"unborn", "running", "headless", "gone"}]]
         /\ watch' \in [Thread -> Nat] /\ exits' \subseteq Exit
         /\ \A u \in Thread \ {t} : process'[u] = process[u] /\ watch'[u] = watch[u]
         /\ \A e \in exits' : e.thread # t => e \in exits
<1>1. process' = [process EXCEPT ![t][g] = how] /\ Notify(t, g)
  BY DEF Ends
<1>2. /\ process' \in [Thread -> [Generation -> {"unborn", "running", "headless", "gone"}]]
      /\ \A u \in Thread \ {t} : process'[u] = process[u]
  BY <1>1 DEF CoordinatorType
<1>3. [thread |-> t, revision |-> watch[t], generation |-> g, seen |-> "nothing"] \in Exit
  BY DEF CoordinatorType, Exit
<1>4. watch \in [Thread -> Nat] /\ exits \subseteq Exit
  BY DEF CoordinatorType
<1>5. /\ watch' \in [Thread -> Nat] /\ exits' \subseteq Exit
      /\ \A u \in Thread \ {t} : watch'[u] = watch[u]
      /\ \A e \in exits' : e.thread # t => e \in exits
  BY <1>1, <1>3, <1>4 DEF Notify
<1>6. QED
  BY <1>2, <1>5

(* The world stays well typed, and nothing happens in it to another thread. *)
LEMMA WorldMoves ==
  ASSUME CoordinatorInv, NEW t \in Thread, Moves(t)
  PROVE  /\ process' \in [Thread -> [Generation -> {"unborn", "running", "headless", "gone"}]]
         /\ host' \in [Thread -> Generation \cup {Null}]
         /\ watch' \in [Thread -> Nat] /\ exits' \subseteq Exit
         /\ \A u \in Thread \ {t} :
              process'[u] = process[u] /\ host'[u] = host[u] /\ watch'[u] = watch[u]
         /\ \A e \in exits' : e.thread # t => e \in exits
<1> DEFINE Typed ==
             /\ process' \in [Thread -> [Generation -> {"unborn", "running", "headless", "gone"}]]
             /\ host' \in [Thread -> Generation \cup {Null}]
             /\ watch' \in [Thread -> Nat] /\ exits' \subseteq Exit
           Others ==
             /\ \A u \in Thread \ {t} :
                  process'[u] = process[u] /\ host'[u] = host[u] /\ watch'[u] = watch[u]
             /\ \A e \in exits' : e.thread # t => e \in exits
<1>0. /\ process \in [Thread -> [Generation -> {"unborn", "running", "headless", "gone"}]]
      /\ host \in [Thread -> Generation \cup {Null}] /\ watch \in [Thread -> Nat]
      /\ exits \subseteq Exit /\ JobTyped(t) /\ CoordinatorType /\ Recovery(t)
  BY Holds DEF CoordinatorInv, CoordinatorType
<1>1. CASE UNCHANGED <<process, host, watch, exits>>
  BY <1>0, <1>1
<1>2. CASE Verify(t)
  <2>1. Owner(t).pid # Null => Owner(t).pid \in Generation \/ NothingToVerify(t)
    <3>1. Owner(t) \in ThreadState
      BY <1>0, <1>2, VerifyMoves DEF Owner, Recovery, JobTyped, CoordinatorType
    <3>2. QED
      BY <3>1, OneNamePerProcess DEF ThreadState
  <2>2. UNCHANGED host
    BY <1>2 DEF Verify
  <2>3. \/ UNCHANGED <<process, watch, exits>>
        \/ \E g \in Generation : Ends(t, g, "gone")
    BY <1>2, <2>1 DEF Verify
  <2>4. QED
    BY <1>0, <2>2, <2>3, EndsApart
<1>3. CASE Spawn(t)
  <2>1. UNCHANGED <<watch, exits>>
    BY <1>3 DEF Spawn
  <2>2. \/ UNCHANGED <<process, host>>
        \/ \E g \in Generation :
             /\ host' = [host EXCEPT ![t] = g]
             /\ \E how \in {"running", "headless"} : process' = [process EXCEPT ![t][g] = how]
    BY <1>0, <1>3, SpawnMoves DEF Fresh
  <2>3. CASE UNCHANGED <<process, host>>
    BY <1>0, <2>1, <2>3
  <2>4. CASE \E g \in Generation :
               /\ host' = [host EXCEPT ![t] = g]
               /\ \E how \in {"running", "headless"} : process' = [process EXCEPT ![t][g] = how]
    BY <1>0, <2>1, <2>4
  <2>5. QED
    BY <2>2, <2>3, <2>4
<1>4. CASE Listen(t)
  <2>1. UNCHANGED <<process, host, exits>>
    BY <1>4 DEF Listen
  <2>2. UNCHANGED watch \/ watch' = [watch EXCEPT ![t] = job[t].revision]
    BY <1>4 DEF Listen
  <2>3. job[t].revision \in Nat
    BY <1>0 DEF JobTyped, JobRow
  <2>4. QED
    BY <1>0, <2>1, <2>2, <2>3
<1>5. CASE Kill(t)
  <2>1. \/ /\ UNCHANGED <<process, exits, watch>> /\ host' = [host EXCEPT ![t] = Null]
        \/ UNCHANGED <<process, exits, watch, host>>
        \/ \E g \in Generation : Ends(t, g, "gone") /\ host' = [host EXCEPT ![t] = Null]
    BY <1>0, <1>5, KillMoves
  <2>2. CASE UNCHANGED <<process, exits, watch>> /\ host' = [host EXCEPT ![t] = Null]
    BY <1>0, <2>2
  <2>3. CASE \E g \in Generation : Ends(t, g, "gone") /\ host' = [host EXCEPT ![t] = Null]
    BY <1>0, <2>3, EndsApart
  <2>4. QED
    BY <1>0, <2>1, <2>2, <2>3
<1>6. CASE ProcessExits(t)
  <2>1. UNCHANGED host /\ \E g \in Generation, how \in {"headless", "gone"} : Ends(t, g, how)
    BY <1>6 DEF ProcessExits
  <2>2. QED
    BY <1>0, <2>1, EndsApart
<1>7. CASE HostTearsDown(t)
  <2>1. /\ host[t] \in Generation /\ process' = [process EXCEPT ![t][host[t]] = "gone"]
        /\ host' = [host EXCEPT ![t] = Null] /\ watch' = [watch EXCEPT ![t] = 0]
        /\ UNCHANGED exits
    BY <1>0, <1>7 DEF HostTearsDown
  <2>2. QED
    BY <1>0, <2>1
<1>8. ASSUME NEW e \in exits, e.thread = t, ReadExit(e) \/ PatchExit(e)
      PROVE  Typed /\ Others
  <2>1. e \in Exit /\ UNCHANGED <<process, host, watch>>
    BY <1>0, <1>8 DEF ReadExit, PatchExit
  <2>2. \A how \in {"nothing", "unborn", "born"} :
          [e EXCEPT !.seen = how] \in Exit /\ [e EXCEPT !.seen = how].thread = t
    BY <1>8, <2>1 DEF Exit
  <2>3. \A f \in exits' :
          f \in exits \/ \E how \in {"nothing", "unborn", "born"} : f = [e EXCEPT !.seen = how]
    BY <1>8 DEF ReadExit, PatchExit
  <2>4. QED
    BY <1>0, <2>1, <2>2, <2>3
<1>9. QED
  BY <1>1, <1>2, <1>3, <1>4, <1>5, <1>6, <1>7, <1>8, WorldFrame

(* The same for the books. *)
LEMMA BooksMove ==
  ASSUME CoordinatorInv, NEW t \in Thread, Moves(t)
  PROVE  /\ owned' \in [Thread -> BOOLEAN] /\ deleted' \in [Thread -> BOOLEAN]
         /\ unrecovered' \in [Thread -> ThreadState \cup {NoState}]
         /\ attaching' \in [Thread -> Nat]
         /\ \A u \in Thread \ {t} :
              /\ owned'[u] = owned[u] /\ deleted'[u] = deleted[u]
              /\ unrecovered'[u] = unrecovered[u] /\ attaching'[u] = attaching[u]
<1>0. /\ owned \in [Thread -> BOOLEAN] /\ deleted \in [Thread -> BOOLEAN]
      /\ unrecovered \in [Thread -> ThreadState \cup {NoState}]
      /\ attaching \in [Thread -> Nat] /\ states[t].revision \in Nat
  BY Holds DEF CoordinatorInv, CoordinatorType
<1>1. \/ UNCHANGED owned
      \/ \E b \in BOOLEAN : owned' = [owned EXCEPT ![t] = b]
  <2>1. CASE Settle(t)
    <3>1. \E x : owned' = [owned EXCEPT ![t] = x] /\ x \in BOOLEAN
      BY <1>0, <2>1 DEF Settle
    <3>2. QED
      BY <3>1
  <2>2. CASE Finish(t)
    <3>1. (IF job[t].op = "none" THEN owned[t] ELSE Launching(job[t])) \in BOOLEAN
      <4>1. owned[t] \in BOOLEAN /\ Launching(job[t]) \in BOOLEAN
        BY <1>0 DEF Launching
      <4>2. QED
        BY <4>1, Zenon
    <3>2. owned' = [owned EXCEPT ![t] = IF job[t].op = "none" THEN owned[t] ELSE Launching(job[t])]
      BY <2>2 DEF Finish
    <3>3. QED
      BY <3>1, <3>2
  <2>3. CASE DropRecord(t)
    BY <2>3 DEF DropRecord
  <2>4. CASE DeleteThread(t) \/ RecoverStructured(t) \/ RecoveryMissed(t) \/ RecoveryGivesUp(t)
    BY <2>4 DEF DeleteThread, RecoverStructured, RecoveryMissed, RecoveryGivesUp, MarkMissed,
                Recovered
  <2>5. CASE BeginAttach(t)
    BY <2>5 DEF BeginAttach
  <2>6. QED
    BY <2>1, <2>2, <2>3, <2>4, <2>5, BooksFrame DEF books
<1>2. /\ UNCHANGED deleted \/ deleted' = [deleted EXCEPT ![t] = TRUE]
      /\ UNCHANGED unrecovered \/ unrecovered' = [unrecovered EXCEPT ![t] = NoState]
  <2>1. CASE Finish(t)
    <3>1. unrecovered[t] \in ThreadState \cup {NoState}
      BY <1>0
    <3>2. \/ unrecovered' = [unrecovered EXCEPT ![t] = NoState]
          \/ unrecovered' = [unrecovered EXCEPT ![t] = unrecovered[t]]
      BY <2>1 DEF Finish
    <3>3. QED
      BY <1>0, <2>1, <3>2 DEF Finish
  <2>2. CASE \/ Settle(t) \/ DropRecord(t) \/ DeleteThread(t) \/ RecoverStructured(t)
             \/ RecoveryMissed(t) \/ RecoveryGivesUp(t) \/ BeginAttach(t)
    BY <2>2 DEF Settle, DropRecord, DeleteThread, RecoverStructured, RecoveryMissed,
                RecoveryGivesUp, MarkMissed, Recovered, BeginAttach
  <2>3. QED
    BY <2>1, <2>2, BooksFrame DEF books
<1>3. UNCHANGED attaching \/ attaching' = [attaching EXCEPT ![t] = states[t].revision]
  BY AttachFrame DEF BeginAttach
<1>4. QED
  BY <1>0, <1>1, <1>2, <1>3

(* The threads a step is not about. *)
Steady(t) ==
  /\ HasRoom(t) /\ Recovery(t) /\ Deletion(t) /\ Quiet(t) /\ Known(t) /\ Hosted(t) /\ Told(t)

LEMMA OthersSteady ==
  ASSUME CoordinatorInv, NEW t \in Thread, Moves(t), NEW u \in Thread \ {t}
  PROVE  Steady(u)'
<1> DEFINE s == states[u]
           d == disk[u]
<1>1. /\ states'[u] = states[u] /\ disk'[u] \in {disk[u], states[u]}
      /\ NoClaimOn(u) => NoClaimOn(u)'
  BY MovesTouch, TouchesElsewhere DEF Elsewhere, NoClaimOn, CoordinatorInv, Inv
<1>2. /\ job'[u] = job[u] /\ process'[u] = process[u] /\ host'[u] = host[u] /\ watch'[u] = watch[u]
      /\ owned'[u] = owned[u] /\ deleted'[u] = deleted[u] /\ unrecovered'[u] = unrecovered[u]
      /\ attaching'[u] = attaching[u]
      /\ \A e \in exits' : e.thread = u => e \in exits
  BY JobMoves, WorldMoves, BooksMove
<1>3. /\ HasRoom(u) /\ Recovery(u) /\ Deletion(u) /\ Quiet(u) /\ Known(u) /\ Hosted(u) /\ Told(u)
      /\ states[u].revision \in Nat /\ states[u].revision =< MaxRevision
      /\ job[u] \in JobRow
  BY Holds DEF JobTyped
<1>4. HasRoom(u)'
  BY <1>1, <1>2, <1>3 DEF HasRoom
<1>5. Recovery(u)'
  BY <1>1, <1>2, <1>3 DEF Recovery
<1>6. Deletion(u)'
  BY <1>1, <1>2, <1>3 DEF Deletion
<1>7. Quiet(u)'
  BY <1>1, <1>2, <1>3 DEF Quiet, Reopened
<1>8. Live(u)' = Live(u) /\ Loose(u)' = Loose(u)
  BY <1>2 DEF Live, Loose
<1>9. Unverified(u)' = Unverified(u)
  BY <1>2 DEF Unverified
<1>10. Known(u)'
  BY <1>1, <1>2, <1>3, <1>8, <1>9 DEF Known
<1>11. HostAlive(u)' = HostAlive(u)
  BY <1>2 DEF HostAlive
<1>12. Hosted(u)'
  BY <1>1, <1>2, <1>3, <1>11 DEF Hosted
<1>13. Told(u)'
  BY <1>1, <1>2, <1>3, <1>11 DEF Told
<1>14. QED
  BY <1>4, <1>5, <1>6, <1>7, <1>10, <1>12, <1>13 DEF Steady

-----------------------------------------------------------------------------
(* What a step makes of the state of its thread                                *)

(* Most writes are patches: the epoch stays what it is, and its status becomes
   nothing that would say that it is over. *)
Like(s, m) ==
  /\ m.adapter = s.adapter /\ m.revision = s.revision
  /\ m.generation = s.generation /\ m.pid = s.pid
  /\ IsStructured(s) => m = s
  /\ m.status = "deleting" <=> s.status = "deleting"
  /\ \A st \in {"stopping", "stopped", "exited"} : m.status = st => s.status = st

Soft(t) ==
  /\ Like(states[t], states'[t])
  /\ disk'[t] = disk[t] \/ (IsTerminal(states[t]) /\ Like(states[t], disk'[t]))

HardJobStep(t) ==
  \/ BeginSwitch(t) \/ Adopt(t) \/ Complete(t)
  \/ BeginTransition(t) \/ Abort(t) \/ Renew(t) \/ MarkStopped(t) \/ Leave(t) \/ MakeReady(t)
  \/ BeginFence(t) \/ Release(t) \/ BeginDeletion(t) \/ Entomb(t) \/ Mark(t)

Hard(t) ==
  \/ HardJobStep(t) \/ RecoverStructured(t) \/ FinalizeDeletion(t)
  \/ \E e \in exits : e.thread = t /\ PatchExit(e)

LEMMA LikeItself == ASSUME NEW s PROVE Like(s, s)
BY DEF Like

LEMMA PatchesAreLike ==
  ASSUME NEW s \in ThreadState, IsTerminal(s)
  PROVE  /\ Like(s, [s EXCEPT !.turn = FALSE])
         /\ Like(s, [s EXCEPT !.turn = FALSE, !.status =
              IF @ \in {"stopping", "stopped", "exited"} THEN @ ELSE "attention"])
              \/ s.status = "deleting"
         /\ \A m \in {[s EXCEPT !.status = "error"], [s EXCEPT !.status = "checking"], Interrupted(s),
                      [s EXCEPT !.status = "running", !.turn = TRUE],
                      [s EXCEPT !.status = "ready", !.turn = FALSE]} :
              Like(s, m) \/ s.status = "deleting"
<1>1. ~IsStructured(s)
  BY DEF IsTerminal, IsStructured
<1>2. QED
  BY <1>1 DEF Like, ThreadState, Interrupted

(* A patch of a thread, stored or not. *)
LEMMA PatchIsSoft ==
  ASSUME CoordinatorInv, NEW t \in Thread
  PROVE  /\ \A m : IsTerminal(states[t]) /\ Like(states[t], m)
                   /\ (Store(t, m) \/ StoreFails(t, m)) => Soft(t)
         /\ UNCHANGED <<states, disk>> => Soft(t)
BY WritesAt, LikeItself DEF Soft, CoordinatorInv, Inv

(* Whatever is not named above patches at most. *)
LEMMA SoftJobSteps ==
  ASSUME CoordinatorInv, NEW t \in Thread, JobStep(t) PROVE Soft(t) \/ HardJobStep(t)
<1> DEFINE s == states[t]
           error == [s EXCEPT !.status = "error"]
<1>1. s \in ThreadState /\ JobTyped(t)
  BY Holds
<1>2. \A r, g, m : CanUpdateTerminal(s, r, g, m) =>
        IsTerminal(s) /\ (s.status = "deleting" => m.status = "deleting")
  BY DEF CanUpdateTerminal, StatusUpdateAllowed
<1>3. CASE \/ Verify(t) \/ Enter(t) \/ Lookup(t) \/ Suspend(t) \/ Spawn(t) \/ Listen(t) \/ Probe(t)
           \/ Kill(t) \/ Resume(t) \/ Drain(t) \/ StopSession(t) \/ Finish(t)
  <2>1. UNCHANGED <<states, disk>>
    BY <1>3 DEF Verify, Enter, Lookup, Suspend, Spawn, Listen, Probe, Kill, Resume, Drain,
                StopSession, Finish, authority
  <2>2. QED
    BY <2>1, PatchIsSoft
<1>4. error.status = "error" /\ Interrupted(s).status = "error"
      /\ [s EXCEPT !.status = "checking"].status = "checking"
  BY <1>1 DEF ThreadState, Interrupted
<1>5. CASE Prepare(t)
  <2>1. UNCHANGED <<states, disk>> \/ (IsTerminal(s) /\ (Store(t, s) \/ StoreFails(t, s)))
    BY <1>1, <1>2, <1>5, PrepareMoves DEF Calls, authority
  <2>2. QED
    BY <2>1, PatchIsSoft, LikeItself
<1>6. CASE Check(t)
  <2> DEFINE m == [s EXCEPT !.status = "checking"]
  <2>1. \/ UNCHANGED <<states, disk>>
        \/ /\ IsTerminal(s) /\ s.status # "deleting"
           /\ Store(t, m) \/ StoreFails(t, m)
    BY <1>1, <1>2, <1>4, <1>6, CheckMoves DEF Calls, authority
  <2>2. QED
    BY <1>1, <2>1, PatchIsSoft, PatchesAreLike
<1>7. CASE Settle(t) \/ Blocked(t)
  <2>1. \/ UNCHANGED <<states, disk>>
        \/ /\ IsTerminal(s) /\ s.status # "deleting"
           /\ Store(t, error) \/ StoreFails(t, error)
    BY <1>2, <1>4, <1>7 DEF Settle, Blocked, Attempt, authority
  <2>2. QED
    BY <1>1, <2>1, PatchIsSoft, PatchesAreLike
<1>8. CASE RecoveryFailed(t) \/ RecoveryMissed(t)
  <2>1. \/ UNCHANGED <<states, disk>>
        \/ /\ IsTerminal(s) /\ s.status # "deleting"
           /\ Store(t, Interrupted(s)) \/ StoreFails(t, Interrupted(s))
    BY <1>2, <1>4, <1>8 DEF RecoveryFailed, RecoveryMissed, MarkMissed, Attempt, authority
  <2>2. QED
    BY <1>1, <2>1, PatchIsSoft, PatchesAreLike
<1>9. CASE Quiesce(t)
  <2> DEFINE m == [s EXCEPT !.turn = FALSE, !.status =
                     IF @ \in {"stopping", "stopped", "exited"} THEN @ ELSE "attention"]
  <2>1. s.status = "deleting" => m.status # "deleting"
    BY <1>1 DEF ThreadState
  <2>2. \/ UNCHANGED <<states, disk>>
        \/ /\ CanUpdateTerminal(s, s.revision, Fence(s.generation), m)
           /\ Store(t, m) \/ StoreFails(t, m)
    BY <1>9 DEF Quiesce, Attempt, authority
  <2>3. \/ UNCHANGED <<states, disk>>
        \/ IsTerminal(s) /\ s.status # "deleting" /\ (Store(t, m) \/ StoreFails(t, m))
    BY <1>2, <2>1, <2>2
  <2>4. QED
    BY <1>1, <2>3, PatchIsSoft, PatchesAreLike
<1>10. QED
  BY <1>3, <1>5, <1>6, <1>7, <1>8, <1>9, JobStep(t) DEF JobStep, HardJobStep

LEMMA SoftOrHard ==
  ASSUME CoordinatorInv, NEW t \in Thread, Moves(t) PROVE Soft(t) \/ Hard(t)
<1> DEFINE s == states[t]
<1>1. s \in ThreadState /\ JobTyped(t)
  BY Holds
<1>2. \A r, g, m : CanUpdateTerminal(s, r, g, m) =>
        IsTerminal(s) /\ (s.status = "deleting" => m.status = "deleting")
  BY DEF CanUpdateTerminal, StatusUpdateAllowed
<1>3. CASE Begin(t)
  <2>1. RecoverStructured(t) \/ UNCHANGED <<states, disk>>
    BY <1>3 DEF Begin, BeginStart, BeginRestart, BeginChat, BeginStop, BeginDelete, BeginRecovery,
                NewJob, authority
  <2>2. QED
    BY <2>1, PatchIsSoft DEF Hard
<1>4. ASSUME NEW c \in ClaimId, TurnStep(t, c) PROVE Soft(t)
  <2>1. CASE HookPatch(t, c)
    <3>1. PICK n \in {[s EXCEPT !.status = "running", !.turn = TRUE],
                      [s EXCEPT !.status = "ready", !.turn = FALSE]} :
            /\ CanUpdateTerminal(s, claims[t][c].revision, claims[t][c].generation, n)
            /\ Store(t, n) \/ StoreFails(t, n)
      BY <2>1 DEF HookPatch
    <3>2. n.status # "deleting"
      BY <1>1 DEF ThreadState
    <3>3. IsTerminal(s) /\ s.status # "deleting"
      BY <1>2, <3>1, <3>2
    <3>4. Like(s, n)
      BY <1>1, <3>1, <3>3, PatchesAreLike
    <3>5. QED
      BY <3>1, <3>3, <3>4, PatchIsSoft
  <2>2. CASE ~HookPatch(t, c)
    <3>1. UNCHANGED <<states, disk>>
      BY <1>4, <2>2
         DEF TurnStep, ReserveTurn, TakeTurn, OpenSession, SendTurn, SessionOnly, Lease, ReleaseLease,
             ReservationExpires, ReserveStructuredStart, ClaimStructuredStart, AcquireStructured,
             AcquireTerminal, ReleaseClaim, ClaimExpires, SetClaim, authority
    <3>2. QED
      BY <3>1, PatchIsSoft
  <2>3. QED
    BY <2>1, <2>2
<1>5. CASE \/ TurnEnds(t) \/ SessionCloses(t) \/ ProcessExits(t) \/ HostTearsDown(t) \/ DropRecord(t)
           \/ DeleteThread(t) \/ RecoveryTimesOut(t) \/ BeginAttach(t)
           \/ \E e \in exits : ReadExit(e)
  <2>1. UNCHANGED <<states, disk>>
    BY <1>5 DEF TurnEnds, SessionCloses, SessionOnly, ProcessExits, HostTearsDown, DropRecord,
                DeleteThread, RecoveryTimesOut, BeginAttach, ReadExit, authority
  <2>2. QED
    BY <2>1, PatchIsSoft
<1>6. CASE FinalizeExit(t)
  <2> DEFINE m == [s EXCEPT !.turn = FALSE]
  <2>1. \/ UNCHANGED <<states, disk>>
        \/ IsTerminal(s) /\ (Store(t, m) \/ StoreFails(t, m))
    BY <1>6 DEF FinalizeExit, Attempt, authority
  <2>2. QED
    BY <1>1, <2>1, PatchIsSoft, PatchesAreLike
<1>7. CASE RecoveryGivesUp(t)
  <2>1. Interrupted(s).status = "error"
    BY <1>1 DEF Interrupted, ThreadState
  <2>2. \/ UNCHANGED <<states, disk>>
        \/ /\ IsTerminal(s) /\ s.status # "deleting"
           /\ Store(t, Interrupted(s)) \/ StoreFails(t, Interrupted(s))
    BY <1>2, <1>7, <2>1 DEF RecoveryGivesUp, MarkMissed, Attempt, authority
  <2>3. QED
    BY <1>1, <2>2, PatchIsSoft, PatchesAreLike
<1>8. CASE AttachFails(t)
  <2> DEFINE m == [s EXCEPT !.status = "error"]
  <2>1. m.status = "error"
    BY <1>1 DEF ThreadState
  <2>2. IsTerminal(s) /\ s.status # "deleting" /\ (Store(t, m) \/ StoreFails(t, m))
    BY <1>2, <1>8, <2>1 DEF AttachFails
  <2>3. QED
    BY <1>1, <2>2, PatchIsSoft, PatchesAreLike
<1>9. QED
  BY <1>3, <1>4, <1>5, <1>6, <1>7, <1>8, SoftJobSteps, Moves(t) DEF Moves, Hard

-----------------------------------------------------------------------------
(* HasRoom: what the revision may still rise by                                *)

(* The state after a step, well typed. *)
LEMMA After ==
  ASSUME CoordinatorInv, NEW t \in Thread, Moves(t)
  PROVE  /\ Inv' /\ available' /\ ~marker'
         /\ states'[t] \in ThreadState /\ disk'[t] \in ThreadState
         /\ job'[t] \in JobRow /\ Shape(job'[t])
         /\ states'[t].revision \in Nat /\ disk'[t].revision \in Nat
<1>1. [Next]_vars /\ Inv
  BY MovesTouch DEF Touches, Next, authority, vars, CoordinatorInv
<1>2. Inv'
  BY <1>1, StepKeeps
<1>3. available' /\ ~marker'
  BY MovesTouch, TouchesElsewhere DEF CoordinatorInv, Inv
<1>4. states'[t] \in ThreadState /\ disk'[t] \in ThreadState
  BY <1>2 DEF Inv, TypeOK
<1>5. QED
  BY <1>2, <1>3, <1>4, JobMoves DEF ThreadState

LEMMA RoomOfPlace ==
  ASSUME NEW j, NEW k
  PROVE  /\ Room(j) \in 0 .. 2
         /\ Room(NoJob) = 0
         /\ Fails(j, k) \/ GivesUp(j, k) \/ Returns(j, k) => Room(k) = 0
         /\ Undoes(j, k) => Room(k) = 1
         /\ \A p \in {"leave", "blocked", "stopped", "entomb"} : Kills(j, k, p) => Room(k) = 1
         /\ \A r : \A p \in {"resume", "ready"} : Rises(j, k, p, r) => Room(k) = 0
         /\ \A r : \A p \in {"suspend", "prepare", "spawn", "drain"} : Rises(j, k, p, r) => Room(k) = 1
BY DEF Room, Fails, GivesUp, Returns, Undoes, Goes, Kills, Rises, NoJob, Launch

(* Where nothing is written that raises the revision, a job does not get more
   room; only a job that begins does, and it begins where there is room. *)
LEMMA RoomShrinks ==
  ASSUME CoordinatorInv, NEW t \in Thread, Moves(t), ~Hard(t)
  PROVE  Room(job'[t]) =< Room(job[t]) \/ states[t].revision + 2 =< MaxRevision
<1> DEFINE j == job[t]
           k == job'[t]
<1>1. JobTyped(t) /\ Shape(j)
  BY Holds DEF JobTyped
<1>2. Room(j) \in 0 .. 2 /\ Room(k) \in 0 .. 2
  BY RoomOfPlace
<1>3. CASE \/ BeginStart(t) \/ BeginRestart(t) \/ BeginChat(t) \/ BeginStop(t) \/ BeginDelete(t)
           \/ BeginRecovery(t)
  BY <1>3 DEF BeginStart, BeginRestart, BeginChat, BeginStop, BeginDelete, BeginRecovery, Free
<1>4. CASE UNCHANGED job \/ RecoveryTimesOut(t)
  <2>1. RecoveryTimesOut(t) => k.at = "missed"
    <3>1. Goes(j, To(j, "missed"), "missed")
      BY <1>1, ToGoes, PlaceNames DEF JobTyped
    <3>2. RecoveryTimesOut(t) => k = To(j, "missed")
      BY <1>1, BecomesThat DEF RecoveryTimesOut, JobTyped
    <3>3. QED
      BY <3>1, <3>2 DEF Goes
  <2>2. k.at = "missed" => Room(k) = 0
    BY DEF Room, Launch
  <2>3. QED
    BY <1>2, <1>4, <2>1, <2>2
<1>5. CASE Verify(t) \/ Quiesce(t) \/ Enter(t) \/ Lookup(t)
  <2>1. j.at \in {"verify", "quiesce", "enter", "lookup"}
    BY <1>1, <1>5, VerifyMoves, QuiesceMoves, EnterMoves, LookupMoves
  <2>2. Room(j) = 2
    BY <2>1 DEF Room
  <2>3. QED
    BY <1>2, <2>2
<1>6. CASE Suspend(t) \/ Prepare(t) \/ Spawn(t) \/ Listen(t) \/ Probe(t)
  <2>1. j.at \in Launch
    BY <1>1, <1>6, SuspendMoves, PrepareMoves, SpawnMoves, ListenMoves, ProbeMoves DEF Launch
  <2>2. Undoes(j, k) \/ k.at \in {"prepare", "spawn", "adopt", "probe", "complete"}
    BY <1>1, <1>6, SuspendMoves, PrepareMoves, SpawnMoves, ListenMoves, ProbeMoves DEF Goes, Calls
  <2>3. Room(j) = 1 /\ Room(k) = 1
    BY <2>1, <2>2, RoomOfPlace DEF Room, Launch
  <2>4. QED
    BY <2>3
<1>7. CASE Check(t)
  <2>1. j.at = "check" /\ (Returns(j, k) \/ k.at = "abort")
    BY <1>1, <1>7, CheckMoves DEF Calls, Goes
  <2>2. QED
    BY <1>2, <2>1, RoomOfPlace DEF Room, Launch
<1>8. CASE Kill(t)
  <2>1. j.at = "kill" /\ (Goes(j, k, j.then) \/ Fails(j, k) \/ k.at = "blocked")
    BY <1>1, <1>8, KillMoves DEF Goes
  <2>2. j.then \in {"leave", "blocked", "renew", "stopped", "entomb"}
    BY <1>1, <2>1 DEF Shape
  <2>3. CASE Fails(j, k)
    BY <1>2, <2>3, RoomOfPlace
  <2>4. CASE k.at \in {"blocked", "stopped"}
    BY <1>2, <2>4 DEF Room, Launch
  <2>5. CASE Goes(j, k, j.then) /\ j.then \in {"leave", "entomb"}
    BY <2>1, <2>5 DEF Room, Launch, Goes
  <2>6. CASE Goes(j, k, j.then) /\ j.then = "renew"
    BY <2>1, <2>6 DEF Room, Launch, Goes
  <2>7. QED
    BY <2>1, <2>2, <2>3, <2>4, <2>5, <2>6 DEF Goes
<1>9. CASE Drain(t)
  <2>1. j.at = "drain" /\ (Fails(j, k) \/ Returns(j, k) \/ k.at \in {"halt", "release"} \/ Kills(j, k, "entomb"))
    BY <1>1, <1>9, DrainMoves DEF Goes
  <2>2. Room(j) = 1
    BY <2>1 DEF Room, Launch
  <2>3. k.at \in {"halt", "release"} => Room(k) = 0
    BY DEF Room, Launch
  <2>4. QED
    BY <2>1, <2>2, <2>3, RoomOfPlace
<1>10. CASE \/ Settle(t) \/ Blocked(t) \/ Resume(t) \/ StopSession(t) \/ RecoveryFailed(t)
            \/ RecoveryMissed(t) \/ Finish(t)
  <2>1. Fails(j, k) \/ GivesUp(j, k) \/ k.at \in {"ready", "release", "missed"} \/ k = NoJob
    BY <1>1, <1>10, SettleMoves, BlockedMoves, ResumeMoves, StopSessionMoves, RecoveryFailedMoves,
       RecoveryMissedMoves, FinishMoves DEF Goes
  <2>2. k.at \in {"ready", "release", "missed"} => Room(k) = 0
    BY DEF Room, Launch
  <2>3. Room(k) = 0
    BY <2>1, <2>2, RoomOfPlace
  <2>4. QED
    BY <1>2, <2>3
<1>11. QED
  BY <1>3, <1>4, <1>5, <1>6, <1>7, <1>8, <1>9, <1>10, JobFrame DEF JobStep, Hard, HardJobStep

(* A call that raises the revision, with what the job has left. *)
LEMMA CallHasRoom ==
  ASSUME CoordinatorInv, NEW t \in Thread, NEW m \in ThreadState,
         Store(t, m) \/ StoreFails(t, m) \/ UNCHANGED <<states, disk>>,
         m.revision + Room(job'[t]) =< MaxRevision \/ ~Store(t, m),
         m.revision =< MaxRevision,
         states[t].revision + Room(job'[t]) =< MaxRevision \/ Store(t, m)
  PROVE  HasRoom(t)'
<1>1. HasRoom(t) /\ Inv
  BY Holds DEF CoordinatorInv
<1>2. QED
  BY <1>1, WritesAt DEF HasRoom, Inv, ThreadState

LEMMA RoomKept ==
  ASSUME CoordinatorInv, NEW t \in Thread, Moves(t) PROVE HasRoom(t)'
<1> DEFINE j == job[t]
           k == job'[t]
           s == states[t]
<1>1. /\ JobTyped(t) /\ Shape(j) /\ s \in ThreadState /\ s.revision \in Nat /\ HasRoom(t)
      /\ MaxRevision \in Nat
  BY Holds, BoundAssumption DEF JobTyped
<1>2. Room(j) \in 0 .. 2 /\ Room(k) \in 0 .. 2
  BY RoomOfPlace
<1>3. CASE Soft(t) /\ ~Hard(t)
  BY <1>1, <1>2, <1>3, RoomShrinks DEF HasRoom, Soft, Like
<1>4. /\ s.revision + Room(j) =< MaxRevision /\ disk[t].revision =< MaxRevision
      /\ s.revision =< MaxRevision
  BY <1>1, <1>2 DEF HasRoom
<1>5. CASE \/ BeginSwitch(t) \/ Renew(t)
  <2> DEFINE m == Starting(s.revision + 1)
  <2>1. j.at \in {"begin", "renew"}
    BY <1>1, <1>5, BeginSwitchMoves, RenewMoves
  <2>2. Room(j) = 2 /\ m \in ThreadState /\ m.revision = s.revision + 1
    BY <1>1, <2>1 DEF Room, Starting, ThreadState, TerminalStatus
  <2>3. \/ Store(t, m) /\ Room(k) = 1
        \/ (StoreFails(t, m) \/ UNCHANGED <<states, disk>>) /\ Room(k) = 0
    BY <1>1, <1>5, BeginSwitchMoves, RenewMoves, RoomOfPlace DEF Calls, authority
  <2>4. QED
    BY <1>1, <1>4, <2>2, <2>3, CallHasRoom
<1>6. CASE Adopt(t) \/ Complete(t)
  <2> DEFINE p == j.generation
             m == IF Adopt(t) THEN [s EXCEPT !.pid = p] ELSE Started(s, p, p)
  <2>1. j.at \in {"adopt", "complete"}
    BY <1>1, <1>6, AdoptMoves, CompleteMoves
  <2>2. p \in Generation /\ p \in Pid
    BY <2>1, Holds, OneNamePerProcess DEF Hosted
  <2>3. m \in ThreadState /\ m.revision = s.revision
    BY <1>1, <2>2 DEF Started, ThreadState, TerminalStatus
  <2>4. Room(j) = 1 /\ Room(k) = 1
    BY <1>1, <1>6, <2>1, AdoptMoves, CompleteMoves, RoomOfPlace DEF Calls, Goes, Room, Launch
  <2>5. Store(t, m) \/ StoreFails(t, m) \/ UNCHANGED <<states, disk>>
    BY <1>1, <1>6, AdoptMoves, CompleteMoves DEF Calls, authority
  <2>6. QED
    BY <1>1, <1>4, <2>3, <2>4, <2>5, CallHasRoom
<1>7. CASE BeginTransition(t) \/ Abort(t)
  <2> DEFINE m == Stopping(s)
  <2>1. m \in ThreadState /\ m.revision = s.revision
    BY <1>1 DEF Stopping, ThreadState, TerminalStatus
  <2>2. Store(t, m) \/ StoreFails(t, m) \/ UNCHANGED <<states, disk>>
    BY <1>1, <1>7, BeginTransitionMoves, AbortMoves DEF Calls, Stops, authority
  <2>3. Room(k) =< Room(j)
    <3>1. CASE BeginTransition(t)
      <4>1. j.at = "begin"
        BY <1>1, <3>1, BeginTransitionMoves
      <4>2. QED
        BY <1>2, <4>1 DEF Room
    <3>2. CASE Abort(t)
      <4>1. j.at = "abort" /\ (Fails(j, k) \/ Kills(j, k, "leave") \/ Kills(j, k, "stopped"))
        BY <1>1, <3>2, AbortMoves DEF Calls, Stops
      <4>2. Room(j) = 1
        BY <4>1 DEF Room, Launch
      <4>3. QED
        BY <4>1, <4>2, RoomOfPlace
    <3>3. QED
      BY <1>7, <3>1, <3>2
  <2>4. QED
    BY <1>1, <1>2, <1>4, <2>1, <2>2, <2>3, CallHasRoom
<1>8. CASE MarkStopped(t)
  <2> DEFINE m == StoppedPatch(s)
  <2>1. m \in ThreadState /\ m.revision = s.revision
    BY <1>1 DEF StoppedPatch, ThreadState, TerminalStatus
  <2>2. /\ Store(t, m) \/ StoreFails(t, m) \/ UNCHANGED <<states, disk>>
        /\ Room(k) = 0
    BY <1>1, <1>8, MarkStoppedMoves, RoomOfPlace DEF Calls, authority
  <2>3. QED
    BY <1>1, <1>4, <2>1, <2>2, CallHasRoom
<1>9. CASE Leave(t)
  <2> DEFINE m == Restoring(s)
  <2>1. m \in ThreadState /\ m.revision = s.revision + 1
    BY <1>1 DEF Restoring, Structured, ThreadState, StructuredStatus
  <2>2. /\ Store(t, m) \/ StoreFails(t, m) \/ UNCHANGED <<states, disk>>
        /\ Room(k) = 0
    BY <1>1, <1>9, LeaveMoves, RoomOfPlace DEF Calls, authority
  <2>3. j.at = "leave"
    BY <1>1, <1>9, LeaveMoves
  <2>4. Room(j) = 1
    BY <2>3 DEF Room, Launch
  <2>5. QED
    BY <1>1, <1>4, <2>1, <2>2, <2>4, CallHasRoom
<1>10. CASE BeginFence(t)
  <2> DEFINE m == Structured(s.revision + 1, "stopping")
  <2>1. m \in ThreadState /\ m.revision = s.revision + 1
    BY <1>1 DEF Structured, ThreadState, StructuredStatus
  <2>2. /\ Store(t, m) \/ StoreFails(t, m) \/ UNCHANGED <<states, disk>>
        /\ Room(k) \in {0, 1} /\ j.at = "begin"
    BY <1>1, <1>10, BeginFenceMoves, RoomOfPlace DEF Calls, authority
  <2>3. Room(j) = 2
    BY <2>2 DEF Room
  <2>4. QED
    BY <1>1, <1>2, <1>4, <2>1, <2>2, <2>3, CallHasRoom
<1>11. CASE Entomb(t)
  <2> DEFINE m == Structured(j.revision + 1, "deleting")
  <2>1. j.revision \in Nat /\ m \in ThreadState /\ m.revision = j.revision + 1
    BY <1>1 DEF Structured, ThreadState, StructuredStatus, JobTyped, JobRow
  <2>2. /\ j.at = "entomb" /\ Room(k) = 0
        /\ \/ UNCHANGED <<states, disk>>
           \/ j.revision = s.revision /\ (Store(t, m) \/ StoreFails(t, m))
    BY <1>1, <1>11, EntombMoves, RoomOfPlace DEF Calls, authority, CanCompleteTerminalDeletion
  <2>3. Room(j) = 1
    BY <2>2 DEF Room, Launch
  <2>4. CASE UNCHANGED <<states, disk>>
    BY <1>1, <1>4, <2>2, <2>4 DEF HasRoom
  <2>5. CASE j.revision = s.revision /\ (Store(t, m) \/ StoreFails(t, m))
    BY <1>1, <1>4, <2>1, <2>2, <2>3, <2>5, CallHasRoom
  <2>6. QED
    BY <2>2, <2>4, <2>5
<1>12. CASE MakeReady(t) \/ Release(t)
  <2> DEFINE m == Structured(j.revision, "ready")
  <2>1. j.revision \in Nat /\ m \in ThreadState /\ m.revision = j.revision
    BY <1>1 DEF Structured, ThreadState, StructuredStatus, JobTyped, JobRow
  <2>2. /\ Room(k) = 0
        /\ \/ UNCHANGED <<states, disk>>
           \/ j.revision = s.revision /\ (Store(t, m) \/ StoreFails(t, m))
    BY <1>1, <1>12, MakeReadyMoves, ReleaseMoves, RoomOfPlace
       DEF Calls, authority, CanCompleteStructuredRestore, CanCompleteStructuredStop
  <2>3. CASE UNCHANGED <<states, disk>>
    BY <1>1, <1>4, <2>2, <2>3 DEF HasRoom
  <2>4. CASE j.revision = s.revision /\ (Store(t, m) \/ StoreFails(t, m))
    BY <1>1, <1>4, <2>1, <2>2, <2>4, CallHasRoom
  <2>5. QED
    BY <2>2, <2>3, <2>4
<1>13. CASE BeginDeletion(t)
  <2> DEFINE m == DeletionBegun(s)
  <2>1. m \in ThreadState /\ m.revision \in {s.revision, s.revision + 1}
    BY <1>1 DEF DeletionBegun, Structured, ThreadState, StructuredStatus, TerminalStatus
  <2>2. /\ j.at = "begin" /\ Room(k) \in {0, 1}
        /\ UNCHANGED <<states, disk>> \/ Store(t, m) \/ StoreFails(t, m)
    BY <1>1, <1>13, BeginDeletionMoves, RoomOfPlace DEF Calls, authority
  <2>3. Room(j) = 2
    BY <2>2 DEF Room
  <2>4. QED
    BY <1>1, <1>2, <1>4, <2>1, <2>2, <2>3, CallHasRoom
<1>14. CASE Mark(t)
  <2>1. j.at = "mark"
    BY <1>1, <1>14, MarkMoves
  <2>2. Room(j) = 2
    BY <2>1 DEF Room
  <2>3. PICK m \in ThreadState : /\ m.revision = s.revision
                                 /\ Store(t, m) \/ StoreFails(t, m) \/ UNCHANGED <<states, disk>>
    <3> DEFINE a == StoppedPatch(s)
               b == [s EXCEPT !.status = "exited", !.turn = FALSE]
    <3>1. /\ a \in ThreadState /\ a.revision = s.revision
          /\ b \in ThreadState /\ b.revision = s.revision
      BY <1>1 DEF StoppedPatch, ThreadState, TerminalStatus
    <3>2. \E m \in {a, b} : Store(t, m) \/ StoreFails(t, m) \/ UNCHANGED <<states, disk>>
      BY <1>1, <1>14, MarkMoves DEF Calls, authority
    <3>3. QED
      BY <3>1, <3>2
  <2>4. QED
    BY <1>1, <1>2, <1>4, <2>2, <2>3, CallHasRoom
<1>15. ASSUME NEW e \in exits, e.thread = t, PatchExit(e) PROVE HasRoom(t)'
  <2> DEFINE m == [s EXCEPT !.status = "exited"]
  <2>1. m \in ThreadState /\ m.revision = s.revision
    BY <1>1 DEF ThreadState, TerminalStatus
  <2>2. /\ Store(t, m) \/ StoreFails(t, m) \/ UNCHANGED <<states, disk>>
        /\ UNCHANGED job
    BY <1>15 DEF PatchExit, authority
  <2>3. QED
    BY <1>1, <1>2, <1>4, <2>1, <2>2, CallHasRoom
<1>16. CASE FinalizeDeletion(t)
  <2> DEFINE m == DefaultState
  <2>1. m \in ThreadState /\ m.revision = 0
    BY DEF DefaultState, Structured, ThreadState, StructuredStatus
  <2>2. (Store(t, m) \/ StoreFails(t, m)) /\ UNCHANGED job
    BY <1>16 DEF FinalizeDeletion
  <2>3. QED
    BY <1>1, <1>2, <1>4, <2>1, <2>2, CallHasRoom
<1>17. CASE RecoverStructured(t)
  <2> DEFINE u == unrecovered[t]
             a == Structured(u.revision, "ready")
             b == DeletionBegun(s)
  <2>1. s.revision + 2 =< MaxRevision /\ UNCHANGED job /\ u \in ThreadState
    BY <1>17 DEF RecoverStructured, Free, CoordinatorInv, CoordinatorType
  <2>2. /\ b \in ThreadState /\ b.revision \in {s.revision, s.revision + 1}
        /\ a \in ThreadState /\ a.revision = u.revision
    BY <1>1, <2>1 DEF DeletionBegun, Structured, ThreadState, StructuredStatus, TerminalStatus
  <2>3. \/ UNCHANGED <<states, disk>>
        \/ Store(t, b) \/ StoreFails(t, b)
        \/ u.revision = s.revision /\ (Store(t, a) \/ StoreFails(t, a))
    BY <1>17 DEF RecoverStructured, Attempt, authority, CanCompleteStructuredStop,
                 CanCompleteStructuredRestore
  <2>4. CASE UNCHANGED <<states, disk>>
    BY <1>1, <2>1, <2>4 DEF HasRoom
  <2>5. Room(k) = 0
    BY <1>17, <2>1, RoomOfPlace DEF RecoverStructured, Free
  <2>6. QED
    BY <1>1, <1>4, <2>1, <2>2, <2>3, <2>4, <2>5, CallHasRoom
<1>18. QED
  BY <1>3, <1>5, <1>6, <1>7, <1>8, <1>9, <1>10, <1>11, <1>12, <1>13, <1>14, <1>15, <1>16, <1>17,
     SoftOrHard DEF Hard, HardJobStep

-----------------------------------------------------------------------------
(* Recovery                                                                    *)

(* A job keeps its operation until it ends.  A recovery ends in two places. *)
LEMMA OperationKept ==
  ASSUME NEW t \in Thread, JobTyped(t), JobStep(t)
  PROVE  LET j == job[t]
             k == job'[t] IN
         \/ k.op = j.op /\ k.recovery = j.recovery
         \/ k = NoJob /\ ~j.recovery
         \/ k = NoJob /\ (Finish(t) \/ RecoveryMissed(t))
<1> DEFINE j == job[t]
           k == job'[t]
<1>1. CASE Verify(t) \/ Quiesce(t) \/ Enter(t) \/ Lookup(t)
  BY <1>1, VerifyMoves, QuiesceMoves, EnterMoves, LookupMoves
     DEF Goes, Checks, Fails, GivesUp
<1>2. CASE \/ BeginSwitch(t) \/ Suspend(t) \/ Prepare(t) \/ Spawn(t) \/ Listen(t) \/ Probe(t)
  BY <1>2, BeginSwitchMoves, SuspendMoves, PrepareMoves, SpawnMoves, ListenMoves, ProbeMoves
     DEF Goes, Rises, Calls, Fails, GivesUp, Undoes, Kills
<1>8. CASE Adopt(t) \/ Complete(t) \/ Check(t) \/ Settle(t)
  BY <1>8, AdoptMoves, CompleteMoves, CheckMoves, SettleMoves
     DEF Goes, Calls, GivesUp, Undoes, Kills, Returns
<1>3. CASE BeginTransition(t) \/ Abort(t) \/ Kill(t) \/ Blocked(t)
  BY <1>3, BeginTransitionMoves, AbortMoves, KillMoves, BlockedMoves
     DEF Goes, Rises, Calls, Stops, Fails, GivesUp, Kills, Returns
<1>9. CASE Renew(t) \/ MarkStopped(t) \/ Leave(t) \/ Resume(t) \/ MakeReady(t)
  BY <1>9, RenewMoves, MarkStoppedMoves, LeaveMoves, ResumeMoves, MakeReadyMoves
     DEF Goes, Rises, Calls, Stops, Fails, GivesUp, Kills, Returns
<1>4. CASE BeginFence(t) \/ Drain(t) \/ StopSession(t)
  BY <1>4, BeginFenceMoves, DrainMoves, StopSessionMoves
     DEF Goes, Rises, Calls, Fails, GivesUp, Kills, Returns
<1>10. CASE BeginDeletion(t) \/ Entomb(t) \/ Mark(t) \/ RecoveryFailed(t)
  BY <1>10, BeginDeletionMoves, EntombMoves, MarkMoves, RecoveryFailedMoves
     DEF Goes, Rises, Calls, Fails, GivesUp, Kills, Returns
<1>5. CASE RecoveryMissed(t) \/ Finish(t)
  BY <1>5, RecoveryMissedMoves, FinishMoves
<1>6. CASE Release(t)
  <2>1. k = NoJob /\ j.at = "release"
    BY <1>6, ReleaseMoves
  <2>2. ~j.recovery
    BY <2>1 DEF JobTyped, Shape
  <2>3. QED
    BY <2>1, <2>2
<1>7. QED
  BY <1>1, <1>2, <1>3, <1>4, <1>5, <1>6, <1>8, <1>9, <1>10, JobStep(t) DEF JobStep

(* A job that is before its transition was there already. *)
LEMMA StillBefore ==
  ASSUME NEW t \in Thread, JobTyped(t), JobStep(t),
         job'[t].at \in {"verify", "mark", "enter", "begin"}
  PROVE  job[t].at \in {"verify", "mark", "enter", "quiesce", "lookup"}
<1> DEFINE j == job[t]
           k == job'[t]
<1>0. \/ j.at \in {"verify", "mark", "enter", "quiesce", "lookup"} \/ k = NoJob
      \/ ~(k.at \in {"verify", "mark", "enter", "begin"})
  <2>1. CASE Verify(t) \/ Quiesce(t) \/ Enter(t) \/ Lookup(t) \/ Mark(t)
    BY <2>1, VerifyMoves, QuiesceMoves, EnterMoves, LookupMoves, MarkMoves
  <2>2. CASE \/ BeginSwitch(t) \/ Suspend(t) \/ Prepare(t) \/ Spawn(t) \/ Listen(t) \/ Probe(t)
    BY <2>2, BeginSwitchMoves, SuspendMoves, PrepareMoves, SpawnMoves, ListenMoves, ProbeMoves
       DEF Goes, Rises, Calls, Fails, GivesUp, Undoes, Kills
  <2>7. CASE Adopt(t) \/ Complete(t) \/ Check(t) \/ Settle(t)
    BY <2>7, AdoptMoves, CompleteMoves, CheckMoves, SettleMoves
       DEF Goes, Calls, GivesUp, Undoes, Kills, Returns
  <2>3. CASE BeginTransition(t) \/ Abort(t) \/ Blocked(t) \/ Renew(t)
    BY <2>3, BeginTransitionMoves, AbortMoves, BlockedMoves, RenewMoves
       DEF Goes, Rises, Calls, Stops, Fails, GivesUp, Kills, Returns
  <2>8. CASE MarkStopped(t) \/ Leave(t) \/ Resume(t) \/ MakeReady(t)
    BY <2>8, MarkStoppedMoves, LeaveMoves, ResumeMoves, MakeReadyMoves
       DEF Goes, Rises, Calls, Stops, Fails, GivesUp, Kills, Returns
  <2>4. CASE Kill(t)
    BY <2>4, KillMoves DEF Goes, Fails, GivesUp, JobTyped, Shape
  <2>5. CASE BeginFence(t) \/ Drain(t) \/ StopSession(t) \/ BeginDeletion(t)
    BY <2>5, BeginFenceMoves, DrainMoves, StopSessionMoves, BeginDeletionMoves
       DEF Goes, Rises, Calls, Fails, GivesUp, Kills, Returns
  <2>9. CASE \/ Entomb(t) \/ RecoveryFailed(t) \/ RecoveryMissed(t) \/ Finish(t) \/ Release(t)
    BY <2>9, EntombMoves, RecoveryFailedMoves, RecoveryMissedMoves, FinishMoves, ReleaseMoves
       DEF Goes, Rises, Calls, Fails, GivesUp, Kills, Returns
  <2>6. QED
    BY <2>1, <2>2, <2>3, <2>4, <2>5, <2>7, <2>8, <2>9, JobStep(t) DEF JobStep
<1>1. NoJob.at = "idle"
  BY DEF NoJob
<1>2. QED
  BY <1>0, <1>1

(* Who takes a thread off the list, and who gives the host a process. *)
LEMMA UnrecoveredMoves ==
  ASSUME CoordinatorInv, NEW t \in Thread, Moves(t)
  PROVE  \/ unrecovered'[t] = unrecovered[t]
         \/ /\ unrecovered'[t] = NoState
            /\ \/ Finish(t) /\ job[t].recovery
               \/ RecoverStructured(t) \/ RecoveryMissed(t)
               \/ RecoveryGivesUp(t) /\ ~job[t].recovery
<1>1. unrecovered \in [Thread -> ThreadState \cup {NoState}]
  BY DEF CoordinatorInv, CoordinatorType
<1>2. CASE UNCHANGED books \/ Settle(t) \/ DropRecord(t) \/ DeleteThread(t)
  BY <1>2 DEF books, Settle, DropRecord, DeleteThread
<1>3. CASE Finish(t)
  <2>1. unrecovered' = [unrecovered EXCEPT ![t] = IF job[t].recovery THEN NoState ELSE @]
    BY <1>3 DEF Finish
  <2>2. CASE job[t].recovery
    BY <1>1, <1>3, <2>1, <2>2
  <2>3. CASE ~job[t].recovery
    BY <1>1, <2>1, <2>3
  <2>4. QED
    BY <2>2, <2>3
<1>4. CASE RecoverStructured(t) \/ RecoveryMissed(t) \/ RecoveryGivesUp(t)
  BY <1>1, <1>4 DEF RecoverStructured, RecoveryMissed, RecoveryGivesUp, MarkMissed, Recovered
<1>5. CASE BeginAttach(t)
  BY <1>5 DEF BeginAttach
<1>6. QED
  BY <1>2, <1>3, <1>4, <1>5, BooksFrame

LEMMA HostMoves ==
  ASSUME CoordinatorInv, NEW t \in Thread, Moves(t)
  PROVE  host'[t] = host[t] \/ host'[t] = Null \/ Spawn(t)
<1>1. host \in [Thread -> Generation \cup {Null}]
  BY DEF CoordinatorInv, CoordinatorType
<1>2. \/ UNCHANGED host \/ host' = [host EXCEPT ![t] = Null] \/ Spawn(t)
  BY WorldFrame DEF Verify, Listen, Kill, ProcessExits, HostTearsDown, ReadExit, PatchExit
<1>3. QED
  BY <1>1, <1>2

(* A thread leaves the terminal by a step of its job, or it was deleted. *)
LEMMA LeavesTerminal ==
  ASSUME CoordinatorInv, NEW t \in Thread, Moves(t), ~JobStep(t), ~RecoverStructured(t)
  PROVE  IsTerminal(states[t]) => IsTerminal(states'[t])
<1> DEFINE s == states[t]
<1>1. s \in ThreadState
  BY Holds
<1>2. CASE Soft(t)
  BY <1>2 DEF Soft, Like, IsTerminal
<1>3. CASE FinalizeDeletion(t)
  BY <1>3 DEF FinalizeDeletion, Tombstone, IsStructured, IsTerminal
<1>4. CASE \E e \in exits : e.thread = t /\ PatchExit(e)
  <2>1. \/ UNCHANGED states
        \/ \E m \in {[s EXCEPT !.status = "exited"]} : Store(t, m) \/ StoreFails(t, m)
    BY <1>4 DEF PatchExit, authority
  <2>2. QED
    BY <1>1, <2>1, WritesAt DEF CoordinatorInv, Inv, IsTerminal, ThreadState
<1>5. QED
  BY <1>2, <1>3, <1>4, SoftOrHard DEF Hard, HardJobStep, JobStep

LEMMA BeforeStaysTerminal ==
  ASSUME CoordinatorInv, NEW t \in Thread, JobStep(t), IsTerminal(states[t]),
         job[t].at \in {"verify", "mark", "enter", "quiesce", "lookup"}
  PROVE  IsTerminal(states'[t])
<1> DEFINE s == states[t]
<1>1. s \in ThreadState /\ JobTyped(t) /\ TypeOK
  BY Holds DEF CoordinatorInv, Inv
<1>2. Soft(t) \/ Mark(t)
  <2>1. ~Complete(t) /\ ~BeginTransition(t) /\ ~BeginSwitch(t) /\ ~Adopt(t) /\ ~Abort(t) /\ ~Renew(t)
        /\ ~MarkStopped(t) /\ ~Leave(t) /\ ~MakeReady(t) /\ ~BeginFence(t) /\ ~Release(t)
        /\ ~BeginDeletion(t) /\ ~Entomb(t)
    BY DEF Complete, BeginTransition, BeginSwitch, Adopt, Abort, Renew, MarkStopped, Leave, MakeReady,
           BeginFence, Release, BeginDeletion, Entomb
  <2>2. QED
    BY <2>1, SoftJobSteps DEF HardJobStep
<1>3. CASE Soft(t)
  BY <1>3 DEF Soft, Like, IsTerminal
<1>4. CASE Mark(t)
  <2>1. \/ UNCHANGED states
        \/ \E m \in {StoppedPatch(s), [s EXCEPT !.status = "exited", !.turn = FALSE]} :
             Store(t, m) \/ StoreFails(t, m)
    BY <1>1, <1>4, MarkMoves DEF Calls, authority
  <2>2. \A m \in {StoppedPatch(s), [s EXCEPT !.status = "exited", !.turn = FALSE]} : IsTerminal(m)
    BY <1>1 DEF IsTerminal, ThreadState, StoppedPatch
  <2>3. QED
    BY <1>1, <2>1, <2>2, WritesAt
<1>5. QED
  BY <1>2, <1>3, <1>4

LEMMA RecoveryKept ==
  ASSUME CoordinatorInv, NEW t \in Thread, Moves(t) PROVE Recovery(t)'
<1> DEFINE j == job[t]
           k == job'[t]
           u == unrecovered[t]
           v == unrecovered'[t]
<1>1. /\ JobTyped(t) /\ Shape(j) /\ Recovery(t) /\ Deletion(t) /\ j \in JobRow
      /\ k \in JobRow /\ Shape(k)
  BY Holds, After DEF JobTyped
<1>2. NoJob.op = "none" /\ NoJob.at = "idle" /\ NoJob.recovery = FALSE
  BY DEF NoJob
<1>3. v = u \/ v = NoState
  BY UnrecoveredMoves
<1>4. deleted[t] => deleted'[t]
  <2>1. UNCHANGED deleted \/ deleted' = [deleted EXCEPT ![t] = TRUE]
    BY BooksFrame
       DEF books, Settle, Finish, DropRecord, DeleteThread, RecoverStructured, RecoveryMissed,
           RecoveryGivesUp, MarkMissed, Recovered, BeginAttach
  <2>2. QED
    BY <2>1 DEF CoordinatorInv, CoordinatorType
<1>5. CASE JobStep(t)
  <2>1. j.at # "idle"
    BY <1>5 DEF JobStep, Verify, Quiesce, Enter, Lookup, BeginSwitch, Suspend, Prepare, Spawn, Adopt,
         Listen, Probe, Complete, Check, Abort, Settle, BeginTransition, Kill,
         Blocked, Renew, MarkStopped, Leave, Resume, MakeReady, BeginFence, Drain, StopSession,
         Release, BeginDeletion, Entomb, Mark, RecoveryFailed, RecoveryMissed, Finish
  <2>2. \/ k.op = j.op /\ k.recovery = j.recovery
        \/ k = NoJob /\ (~j.recovery \/ v = NoState)
    BY <1>1, <1>5, OperationKept
       DEF Finish, RecoveryMissed, MarkMissed, Recovered, CoordinatorInv, CoordinatorType
  <2>3. k = NoJob /\ v # NoState => deleted'[t]
    <3>1. SUFFICES ASSUME k = NoJob, v # NoState PROVE deleted'[t]
      OBVIOUS
    <3>2. CASE ~j.recovery
      <4>1. j.op = "delete"
        BY <1>1, <1>2, <1>3, <2>1, <3>1, <3>2 DEF Recovery, Shape
      <4>2. QED
        BY <1>1, <1>4, <4>1 DEF Deletion
    <3>3. CASE j.recovery
      BY <1>2, <2>2, <3>1, <3>3
    <3>4. QED
      BY <3>2, <3>3
  <2>4. v # NoState => (k.recovery => u # NoState /\ IsTerminal(u))
                       /\ (~k.recovery => k.op \in {"none", "delete"})
    BY <1>1, <1>2, <1>3, <2>2 DEF Recovery
  <2>5. k.recovery => v # NoState
    <3>1. SUFFICES ASSUME k.recovery, v = NoState PROVE FALSE
      OBVIOUS
    <3>2. u # NoState
      BY <1>1, <1>2, <2>2, <3>1 DEF Recovery
    <3>3. Finish(t) \/ RecoveryMissed(t) \/ RecoverStructured(t) \/ (RecoveryGivesUp(t) /\ ~j.recovery)
      BY <3>1, <3>2, UnrecoveredMoves
    <3>4. k = NoJob \/ j = NoJob \/ UNCHANGED job
      BY <1>1, <3>3, FinishMoves, RecoveryMissedMoves DEF RecoverStructured, Free, RecoveryGivesUp
    <3>5. QED
      BY <1>2, <2>1, <2>2, <3>1, <3>3, <3>4, FinishMoves, RecoveryMissedMoves, <1>1
         DEF RecoveryGivesUp, RecoverStructured, Free
  <2>6. k.op = "none" /\ k.at \in {"verify", "mark"} => v.status \in {"deleting", "stopping"}
    <3>1. SUFFICES ASSUME k.op = "none", k.at \in {"verify", "mark"}
                   PROVE  v.status \in {"deleting", "stopping"}
      OBVIOUS
    <3>2. k.op = j.op /\ k.recovery = j.recovery
      BY <1>2, <2>2, <3>1
    <3>3. j.at \in {"verify", "mark", "enter", "quiesce", "lookup"}
      BY <1>1, <1>5, <3>1, StillBefore
    <3>4. j.at \in {"verify", "mark"}
      BY <1>1, <3>1, <3>2, <3>3 DEF Shape
    <3>5. u.status \in {"deleting", "stopping"}
      BY <1>1, <3>1, <3>2, <3>4 DEF Recovery
    <3>6. k.recovery
      BY <1>1, <1>2, <3>1 DEF Shape
    <3>7. QED
      BY <1>3, <2>5, <3>5, <3>6
  <2>7. v # NoState /\ (~k.recovery \/ k.at \in {"verify", "mark", "enter", "begin"}) => host'[t] = Null
    <3>1. SUFFICES ASSUME v # NoState, ~k.recovery \/ k.at \in {"verify", "mark", "enter", "begin"}
                   PROVE  host'[t] = Null
      OBVIOUS
    <3>2. u # NoState
      BY <1>3, <3>1
    <3>3. ~j.recovery \/ j.at \in {"verify", "mark", "enter"}
      <4>1. CASE ~k.recovery
        BY <2>2, <3>1, <4>1
      <4>2. CASE k.recovery
        <5>1. j.recovery /\ j.at \in {"verify", "mark", "enter", "quiesce", "lookup"}
          BY <1>1, <1>2, <1>5, <2>2, <3>1, <4>2, StillBefore
        <5>2. QED
          BY <1>1, <5>1 DEF Shape
      <4>3. QED
        BY <4>1, <4>2
    <3>4. host[t] = Null
      BY <1>1, <3>2, <3>3 DEF Recovery
    <3>5. ~Spawn(t)
      <4>1. Spawn(t) => j.at = "spawn"
        BY <1>1, SpawnMoves
      <4>2. j.at = "spawn" => j.op \in {"start", "restart"}
        BY <1>1 DEF Shape, Launch, Launching
      <4>3. QED
        BY <1>1, <3>2, <3>3, <4>1, <4>2 DEF Recovery
    <3>6. QED
      BY <3>4, <3>5, HostMoves
  <2>8. k.op = "restart" /\ k.at \in {"verify", "mark", "enter", "begin"} => IsTerminal(states'[t])
    <3>1. SUFFICES ASSUME k.op = "restart", k.at \in {"verify", "mark", "enter", "begin"}
                   PROVE  IsTerminal(states'[t])
      OBVIOUS
    <3>2. j.op = "restart"
      BY <1>2, <2>2, <3>1
    <3>3. j.at \in {"verify", "mark", "enter", "quiesce", "lookup"}
      BY <1>1, <1>5, <3>1, StillBefore
    <3>4. j.at \in {"verify", "mark", "enter", "quiesce"}
      BY <1>1, <3>2, <3>3 DEF Shape
    <3>5. j.at # "quiesce"
      BY <1>1, <3>2 DEF Shape
    <3>6. QED
      BY <1>1, <1>5, <3>2, <3>4, <3>5, BeforeStaysTerminal DEF Recovery
  <2>9. QED
    BY <1>1, <1>3, <2>3, <2>4, <2>5, <2>6, <2>7, <2>8 DEF Recovery
<1>6. CASE \/ BeginStart(t) \/ BeginRestart(t) \/ BeginChat(t) \/ BeginStop(t) \/ BeginDelete(t)
           \/ BeginRecovery(t)
  <2>1. j = NoJob /\ UNCHANGED <<authority, world, books>>
    BY <1>6 DEF BeginStart, BeginRestart, BeginChat, BeginStop, BeginDelete, BeginRecovery, NewJob, Free
  <2>2. v = u /\ host'[t] = host[t] /\ states'[t] = states[t]
    BY <2>1 DEF authority, world, books
  <2>3. u # NoState => host[t] = Null
    BY <1>1, <1>2, <2>1 DEF Recovery
  <2>4. CASE BeginRecovery(t)
    <3>1. /\ u # NoState /\ IsTerminal(u) /\ k.recovery /\ k.op \in RecoveryOps(t, u)
          /\ k.at = IF u.status = "stopped" /\ k.op = "none" THEN "finish"
                    ELSE IF WasInterrupted(u) THEN "mark" ELSE "verify"
      BY <1>1, <2>4, BeginMoves DEF JobTyped
    <3>2. k.op = "none" /\ k.at \in {"verify", "mark"} => u.status \in {"deleting", "stopping"}
      BY <3>1 DEF RecoveryOps
    <3>3. k.op = "restart" => IsTerminal(states[t])
      <4>1. k.op = "restart" => ~deleted[t]
        BY <3>1 DEF RecoveryOps
      <4>2. QED
        BY <1>1, <2>1, <3>1, <4>1 DEF Recovery
    <3>4. k # NoJob
      BY <1>2, <3>1
    <3>5. QED
      BY <1>1, <2>2, <2>3, <3>1, <3>2, <3>3, <3>4 DEF Recovery
  <2>5. CASE BeginDelete(t)
    <3>1. k.op = "delete" /\ ~k.recovery /\ k # NoJob
      BY <1>1, <1>2, <2>5, BeginMoves, PlaceNames DEF BeginDelete, JobTyped, Op
    <3>2. QED
      BY <2>2, <2>3, <3>1 DEF Recovery
  <2>6. CASE BeginStart(t) \/ BeginRestart(t) \/ BeginChat(t) \/ BeginStop(t)
    <3>1. u = NoState
      BY <2>6 DEF BeginStart, BeginRestart, BeginChat, BeginStop, CommandReady
    <3>2. ~k.recovery /\ k.op # "none"
      BY <1>1, <2>6, BeginMoves, PlaceNames DEF BeginStart, BeginRestart, BeginChat, BeginStop, JobTyped, Op
    <3>3. k.op = "restart" => IsTerminal(states[t])
      BY <1>1, <2>6, BeginMoves, PlaceNames DEF BeginStart, BeginRestart, BeginChat, BeginStop, JobTyped, Op
    <3>4. QED
      BY <2>2, <3>1, <3>2, <3>3 DEF Recovery
  <2>7. QED
    BY <1>6, <2>4, <2>5, <2>6
<1>7. CASE RecoverStructured(t)
  <2>1. k = NoJob /\ v = NoState
    BY <1>7 DEF RecoverStructured, Free, Recovered, CoordinatorInv, CoordinatorType
  <2>2. QED
    BY <1>2, <2>1 DEF Recovery
<1>8. CASE ~JobStep(t) /\ ~RecoverStructured(t) /\ (UNCHANGED job \/ RecoveryTimesOut(t))
  <2>1. /\ IsTerminal(states[t]) => IsTerminal(states'[t])
        /\ host[t] = Null => host'[t] = Null
    <3>1. ~Spawn(t)
      BY <1>8 DEF JobStep
    <3>2. QED
      BY <1>8, <3>1, LeavesTerminal, HostMoves
  <2>2. CASE RecoveryTimesOut(t)
    <3>1. /\ k.op = j.op /\ k.recovery = j.recovery /\ k.at = "missed" /\ k # NoJob /\ j.recovery
          /\ v = u
      <4>1. Goes(j, To(j, "missed"), "missed")
        BY <1>1, ToGoes, PlaceNames
      <4>2. k = To(j, "missed") /\ j.recovery /\ v = u
        BY <1>1, <2>2, BecomesThat DEF RecoveryTimesOut, JobTyped, books
      <4>3. QED
        BY <1>2, <4>1, <4>2 DEF Goes
    <3>2. QED
      BY <1>1, <3>1 DEF Recovery
  <2>3. CASE UNCHANGED job
    <3>1. j.recovery => v = u
      BY <1>8, UnrecoveredMoves DEF JobStep
    <3>2. v = NoState => ~j.recovery
      BY <1>1, <3>1 DEF Recovery
    <3>3. j.op = "none" /\ j.at \in {"verify", "mark"} => j.recovery
      BY <1>1, <1>2 DEF Shape
    <3>4. QED
      BY <1>1, <1>3, <1>4, <2>1, <2>3, <3>1, <3>2, <3>3 DEF Recovery
  <2>4. QED
    BY <1>8, <2>2, <2>3
<1>9. QED
  BY <1>5, <1>6, <1>7, <1>8, JobFrame

-----------------------------------------------------------------------------
(* Deletion                                                                    *)

Writes(t, m) == Store(t, m) \/ StoreFails(t, m) \/ UNCHANGED <<states, disk, claims>>

(* What the other steps write. *)
LEMMA HardWrites ==
  ASSUME NEW t \in Thread, JobTyped(t)
  PROVE  LET j == job[t]
             s == states[t]
             u == unrecovered[t] IN
         /\ BeginSwitch(t) \/ Renew(t) => Writes(t, Starting(s.revision + 1))
         /\ Adopt(t) => Writes(t, [s EXCEPT !.pid = j.generation])
         /\ Complete(t) => Writes(t, Started(s, j.generation, j.generation))
         /\ BeginTransition(t) \/ Abort(t) => Writes(t, Stopping(s))
         /\ MarkStopped(t) => Writes(t, StoppedPatch(s))
         /\ Leave(t) => Writes(t, Restoring(s))
         /\ MakeReady(t) \/ Release(t) => Writes(t, Structured(j.revision, "ready"))
         /\ BeginFence(t) => Writes(t, Structured(s.revision + 1, "stopping"))
         /\ BeginDeletion(t) => Writes(t, DeletionBegun(s))
         /\ Entomb(t) => Writes(t, Structured(j.revision + 1, "deleting"))
         /\ Mark(t) => \/ Writes(t, StoppedPatch(s))
                       \/ Writes(t, [s EXCEPT !.status = "exited", !.turn = FALSE])
         /\ FinalizeDeletion(t) => Writes(t, DefaultState)
         /\ RecoverStructured(t) =>
              \/ Writes(t, Structured(u.revision, "ready"))
              \/ deleted[t] /\ Writes(t, DeletionBegun(s))
         /\ \A e \in exits : e.thread = t /\ PatchExit(e) =>
              \/ UNCHANGED <<states, disk, claims>>
              \/ /\ Writes(t, [s EXCEPT !.status = "exited"])
                 /\ IsTerminal(s) /\ s.status \notin {"deleting", "stopping", "stopped"}
<1> DEFINE s == states[t]
<1>1. /\ BeginSwitch(t) \/ Renew(t) => Writes(t, Starting(s.revision + 1))
      /\ Adopt(t) => Writes(t, [s EXCEPT !.pid = job[t].generation])
      /\ Complete(t) => Writes(t, Started(s, job[t].generation, job[t].generation))
  BY BeginSwitchMoves, RenewMoves, AdoptMoves, CompleteMoves DEF Calls, Writes, authority
<1>2. BeginTransition(t) \/ Abort(t) => Writes(t, Stopping(s))
  BY BeginTransitionMoves, AbortMoves DEF Calls, Stops, Writes, authority
<1>3. /\ MarkStopped(t) => Writes(t, StoppedPatch(s))
      /\ Leave(t) => Writes(t, Restoring(s))
      /\ MakeReady(t) \/ Release(t) => Writes(t, Structured(job[t].revision, "ready"))
  BY MarkStoppedMoves, LeaveMoves, MakeReadyMoves, ReleaseMoves DEF Calls, Writes, authority
<1>4. /\ BeginFence(t) => Writes(t, Structured(s.revision + 1, "stopping"))
      /\ BeginDeletion(t) => Writes(t, DeletionBegun(s))
      /\ Entomb(t) => Writes(t, Structured(job[t].revision + 1, "deleting"))
  BY BeginFenceMoves, BeginDeletionMoves, EntombMoves DEF Calls, Writes, authority
<1>5. Mark(t) => \/ Writes(t, StoppedPatch(s))
                 \/ Writes(t, [s EXCEPT !.status = "exited", !.turn = FALSE])
  BY MarkMoves DEF Calls, Writes, authority
<1>6. /\ FinalizeDeletion(t) => Writes(t, DefaultState)
      /\ RecoverStructured(t) =>
           \/ Writes(t, Structured(unrecovered[t].revision, "ready"))
           \/ deleted[t] /\ Writes(t, DeletionBegun(s))
  BY DEF FinalizeDeletion, RecoverStructured, Attempt, Writes, authority
<1>7. ASSUME NEW e \in exits, e.thread = t, PatchExit(e)
      PROVE  \/ UNCHANGED <<states, disk, claims>>
             \/ /\ Writes(t, [s EXCEPT !.status = "exited"])
                /\ IsTerminal(s) /\ s.status \notin {"deleting", "stopping", "stopped"}
  <2> DEFINE m == [s EXCEPT !.status = "exited"]
  <2>1. m.status = "exited"
    BY DEF JobTyped, ThreadState
  <2>2. \/ UNCHANGED <<states, disk, claims>>
        \/ /\ Store(t, m) \/ StoreFails(t, m)
           /\ \E g : CanUpdateTerminal(s, e.revision, g, m)
    BY <1>7 DEF PatchExit, authority
  <2>3. \A g : CanUpdateTerminal(s, e.revision, g, m) =>
                 IsTerminal(s) /\ s.status \notin {"deleting", "stopping", "stopped"}
    BY <2>1 DEF CanUpdateTerminal, StatusUpdateAllowed
  <2>4. QED
    BY <2>2, <2>3 DEF Writes
<1>8. QED
  BY <1>1, <1>2, <1>3, <1>4, <1>5, <1>6, <1>7

LEMMA WritesOne ==
  ASSUME TypeOK, NEW t \in Thread
  PROVE  \A m : Writes(t, m) =>
           /\ states'[t] \in {states[t], m}
           /\ disk'[t] \in {disk[t], m}
           /\ states'[t] # states[t] => disk'[t] = m
           /\ NoClaimOn(t) => NoClaimOn(t)'
BY WritesAt, KeptNone DEF Writes, NoClaimOn

LEMMA NotTombstones ==
  ASSUME NEW s \in ThreadState
  PROVE  /\ \A r : ~Tombstone(Starting(r)) /\ ~Tombstone(Structured(r, "ready"))
                 /\ ~Tombstone(Structured(r, "stopping"))
         /\ ~Tombstone(Restoring(s)) /\ ~Tombstone(DefaultState)
         /\ \A p : Tombstone([s EXCEPT !.pid = p]) => Tombstone(s)
         /\ \A g, p : ~Tombstone(Started(s, g, p))
         /\ ~Tombstone(Stopping(s)) /\ ~Tombstone(StoppedPatch(s))
         /\ ~Tombstone([s EXCEPT !.status = "exited"])
         /\ ~Tombstone([s EXCEPT !.status = "exited", !.turn = FALSE])
<1>1. /\ \A r : ~Tombstone(Starting(r)) /\ ~Tombstone(Structured(r, "ready"))
              /\ ~Tombstone(Structured(r, "stopping"))
      /\ ~Tombstone(Restoring(s)) /\ ~Tombstone(DefaultState)
  BY DEF Tombstone, IsStructured, Starting, Restoring, Structured, DefaultState
<1>2. \A p : Tombstone([s EXCEPT !.pid = p]) => Tombstone(s)
  BY DEF Tombstone, IsStructured, ThreadState
<1>3. \A g, p : ~Tombstone(Started(s, g, p))
  BY DEF Tombstone, Started, ThreadState
<1>4. /\ ~Tombstone(Stopping(s)) /\ ~Tombstone(StoppedPatch(s))
      /\ ~Tombstone([s EXCEPT !.status = "exited"])
      /\ ~Tombstone([s EXCEPT !.status = "exited", !.turn = FALSE])
  BY DEF Tombstone, Stopping, StoppedPatch, ThreadState
<1>5. QED
  BY <1>1, <1>2, <1>3, <1>4

(* Only a deletion makes a tombstone. *)
LEMMA TombstonesAreDeletions ==
  ASSUME CoordinatorInv, NEW t \in Thread, Moves(t),
         Tombstone(states'[t]) \/ Tombstone(disk'[t])
  PROVE  deleted[t]
<1> DEFINE s == states[t]
           j == job[t]
<1>1. /\ JobTyped(t) /\ Shape(j) /\ Deletion(t) /\ s \in ThreadState /\ TypeOK
      /\ j.revision \in Nat
  BY Holds DEF JobTyped, JobRow, CoordinatorInv, Inv
<1>2. CASE Soft(t)
  BY <1>1, <1>2 DEF Soft, Like, Tombstone, Deletion, IsStructured, IsTerminal
<1>3. ASSUME NEW m, Writes(t, m), ~Tombstone(m) PROVE deleted[t]
  BY <1>1, <1>3, WritesOne DEF Deletion
<1>4. CASE BeginDeletion(t) \/ Entomb(t)
  <2>1. j.op = "delete"
    BY <1>1, <1>4, BeginDeletionMoves, EntombMoves DEF Shape
  <2>2. QED
    BY <1>1, <2>1 DEF Deletion
<1>5. /\ \A r : ~Tombstone(Starting(r)) /\ ~Tombstone(Structured(r, "ready"))
                /\ ~Tombstone(Structured(r, "stopping"))
      /\ ~Tombstone(Restoring(s)) /\ ~Tombstone(DefaultState)
      /\ \A p : Tombstone([s EXCEPT !.pid = p]) => Tombstone(s)
      /\ ~Tombstone(Started(s, j.generation, j.generation)) /\ ~Tombstone(Stopping(s))
      /\ ~Tombstone(StoppedPatch(s)) /\ ~Tombstone([s EXCEPT !.status = "exited"])
      /\ ~Tombstone([s EXCEPT !.status = "exited", !.turn = FALSE])
  BY <1>1, NotTombstones
<1>6. CASE RecoverStructured(t)
  <2>1. deleted[t] \/ Writes(t, Structured(unrecovered[t].revision, "ready"))
    BY <1>1, <1>6, HardWrites
  <2>2. QED
    BY <1>1, <1>3, <1>5, <2>1 DEF Deletion
<1>7. CASE \E e \in exits : e.thread = t /\ PatchExit(e)
  <2>1. UNCHANGED <<states, disk, claims>> \/ Writes(t, [s EXCEPT !.status = "exited"])
    BY <1>1, <1>7, HardWrites
  <2>2. QED
    BY <1>1, <1>3, <1>5, <2>1 DEF Deletion
<1>8. CASE BeginSwitch(t) \/ Adopt(t) \/ Complete(t) \/ BeginTransition(t) \/ Abort(t) \/ Renew(t)
  BY <1>1, <1>3, <1>5, <1>8, HardWrites DEF Deletion
<1>9. CASE \/ MarkStopped(t) \/ Leave(t) \/ MakeReady(t) \/ BeginFence(t) \/ Release(t) \/ Mark(t)
           \/ FinalizeDeletion(t)
  BY <1>1, <1>3, <1>5, <1>9, HardWrites DEF Deletion
<1>10. QED
  BY <1>2, <1>4, <1>6, <1>7, <1>8, <1>9, SoftOrHard DEF Hard, HardJobStep

(* A new tombstone is not the work of a launch. *)
LEMMA LaunchesDoNotEntomb ==
  ASSUME CoordinatorInv, NEW t \in Thread, Moves(t), Tombstone(states'[t])
  PROVE  ~Launching(job[t])
<1> DEFINE s == states[t]
           j == job[t]
<1>1. JobTyped(t) /\ Shape(j) /\ Deletion(t) /\ s \in ThreadState /\ TypeOK
  BY Holds DEF JobTyped, CoordinatorInv, Inv
<1>2. CASE Soft(t)
  BY <1>1, <1>2 DEF Soft, Like, Tombstone, Deletion, IsStructured
<1>3. ASSUME NEW m, Writes(t, m), ~Tombstone(m) PROVE ~Launching(j)
  BY <1>1, <1>3, WritesOne DEF Deletion
<1>4. CASE BeginDeletion(t) \/ Entomb(t) \/ BeginFence(t) \/ Release(t)
  BY <1>1, <1>4, BeginDeletionMoves, EntombMoves, BeginFenceMoves, ReleaseMoves DEF Shape, Launching
<1>5. /\ \A r : ~Tombstone(Starting(r)) /\ ~Tombstone(Structured(r, "ready"))
      /\ ~Tombstone(Restoring(s)) /\ ~Tombstone(DefaultState)
      /\ \A p : Tombstone([s EXCEPT !.pid = p]) => Tombstone(s)
      /\ ~Tombstone(Started(s, j.generation, j.generation)) /\ ~Tombstone(Stopping(s))
      /\ ~Tombstone(StoppedPatch(s)) /\ ~Tombstone([s EXCEPT !.status = "exited"])
      /\ ~Tombstone([s EXCEPT !.status = "exited", !.turn = FALSE])
  BY <1>1, NotTombstones
<1>6. CASE RecoverStructured(t)
  BY <1>6 DEF RecoverStructured, Free, NoJob, Launching
<1>7. CASE \E e \in exits : e.thread = t /\ PatchExit(e)
  <2>1. UNCHANGED <<states, disk, claims>> \/ Writes(t, [s EXCEPT !.status = "exited"])
    BY <1>1, <1>7, HardWrites
  <2>2. QED
    BY <1>1, <1>3, <1>5, <2>1 DEF Deletion
<1>8. CASE BeginSwitch(t) \/ Adopt(t) \/ Complete(t) \/ BeginTransition(t) \/ Abort(t) \/ Renew(t)
  BY <1>1, <1>3, <1>5, <1>8, HardWrites DEF Deletion
<1>9. CASE MarkStopped(t) \/ Leave(t) \/ MakeReady(t) \/ Mark(t) \/ FinalizeDeletion(t)
  BY <1>1, <1>3, <1>5, <1>9, HardWrites DEF Deletion
<1>10. QED
  BY <1>2, <1>4, <1>6, <1>7, <1>8, <1>9, SoftOrHard DEF Hard, HardJobStep

LEMMA DeletionKept ==
  ASSUME CoordinatorInv, NEW t \in Thread, Moves(t) PROVE Deletion(t)'
<1> DEFINE j == job[t]
           k == job'[t]
           s == states[t]
<1>1. /\ JobTyped(t) /\ Shape(j) /\ Recovery(t) /\ Deletion(t) /\ s \in ThreadState /\ TypeOK
      /\ k \in JobRow /\ Shape(k)
  BY Holds, After DEF JobTyped, CoordinatorInv, Inv
<1>2. NoJob.op = "none"
  BY DEF NoJob
<1>3. deleted[t] => deleted'[t]
  <2>1. UNCHANGED deleted \/ deleted' = [deleted EXCEPT ![t] = TRUE]
    BY BooksFrame
       DEF books, Settle, Finish, DropRecord, DeleteThread, RecoverStructured, RecoveryMissed,
           RecoveryGivesUp, MarkMissed, Recovered, BeginAttach
  <2>2. QED
    BY <2>1 DEF CoordinatorInv, CoordinatorType
<1>4. /\ k.op = "delete" => deleted[t]
      /\ Launching(k) /\ deleted[t] /\ ~IsTerminal(s) => Launching(j)
  <2>1. CASE JobStep(t)
    BY <1>1, <1>2, <2>1, OperationKept DEF Deletion, Launching
  <2>2. CASE UNCHANGED job
    BY <1>1, <2>2 DEF Deletion
  <2>3. CASE RecoveryTimesOut(t)
    <3>1. Goes(j, To(j, "missed"), "missed") /\ k = To(j, "missed")
      BY <1>1, <2>3, BecomesThat, ToGoes, PlaceNames DEF RecoveryTimesOut, JobTyped
    <3>2. QED
      BY <1>1, <3>1 DEF Deletion, Launching, Goes
  <2>4. CASE BeginRecovery(t)
    <3>1. k.op \in RecoveryOps(t, unrecovered[t])
      BY <1>1, <2>4, BeginMoves DEF JobTyped
    <3>2. QED
      BY <3>1 DEF RecoveryOps, Launching
  <2>5. CASE BeginStart(t) \/ BeginRestart(t) \/ BeginChat(t) \/ BeginStop(t) \/ BeginDelete(t)
    BY <1>1, <2>5, BeginMoves, PlaceNames
       DEF BeginStart, BeginRestart, BeginChat, BeginStop, BeginDelete, JobTyped, Op, Launching
  <2>6. QED
    BY <2>1, <2>2, <2>3, <2>4, <2>5, JobFrame
<1>5. k.op = "delete" /\ k.at \in {"drain", "kill"} => states'[t].status = "deleting"
  <2>1. SUFFICES ASSUME k.op = "delete", k.at \in {"drain", "kill"}
                 PROVE  states'[t].status = "deleting"
    OBVIOUS
  <2>2. CASE BeginDeletion(t)
    <3>1. DeletionBegun(s).status = "deleting"
      BY <1>1 DEF DeletionBegun, Structured, ThreadState
    <3>2. ~Fails(j, k)
      BY <1>1, <1>2, <2>1, <2>2, BeginDeletionMoves DEF Fails, GivesUp, Goes
    <3>3. \/ s.status = "deleting" /\ UNCHANGED states
          \/ Store(t, DeletionBegun(s))
      BY <1>1, <2>2, <3>2, BeginDeletionMoves DEF Calls, authority
    <3>4. QED
      BY <1>1, <3>1, <3>3, WritesAt
  <2>3. CASE ~BeginDeletion(t)
    <3>1. j.op = "delete" /\ j.at \in {"drain", "kill"}
      <4>1. CASE UNCHANGED job
        BY <2>1, <4>1
      <4>2. CASE JobStep(t)
        <5>0. j.op = "delete"
          BY <1>1, <1>2, <2>1, <4>2, OperationKept
        <5>6. CASE Verify(t)
          BY <1>1, <1>2, <2>1, <5>0, <5>6, VerifyMoves DEF Goes, Checks, GivesUp
        <5>7. CASE Mark(t)
          BY <1>1, <2>1, <5>7, MarkMoves DEF Goes, Calls
        <5>1. CASE Quiesce(t) \/ Enter(t) \/ Lookup(t) \/ RecoveryFailed(t)
          BY <1>1, <1>2, <2>1, <5>0, <5>1, QuiesceMoves, EnterMoves, LookupMoves,
             RecoveryFailedMoves DEF Goes, Fails, GivesUp
        <5>2. CASE \/ Suspend(t) \/ Prepare(t) \/ Spawn(t) \/ Listen(t) \/ Probe(t) \/ Complete(t)
                   \/ Adopt(t) \/ Check(t) \/ Abort(t) \/ BeginTransition(t) \/ Renew(t)
                   \/ BeginSwitch(t) \/ Settle(t)
          <6>1. j.op # "delete"
            BY <1>1, <5>2, SuspendMoves, PrepareMoves, SpawnMoves, ListenMoves, ProbeMoves,
               CompleteMoves, AdoptMoves, CheckMoves, AbortMoves, BeginTransitionMoves, RenewMoves,
               BeginSwitchMoves, SettleMoves
               DEF Shape, Launch, Launching
          <6>2. QED
            BY <5>0, <6>1
        <5>3. CASE \/ Kill(t) \/ Drain(t)
          BY <1>1, <5>0, <5>3, KillMoves, DrainMoves
        <5>4. CASE \/ Blocked(t) \/ MarkStopped(t) \/ Leave(t) \/ Resume(t) \/ MakeReady(t)
                   \/ BeginFence(t) \/ StopSession(t) \/ Release(t) \/ Entomb(t)
                   \/ RecoveryMissed(t) \/ Finish(t)
          BY <1>1, <1>2, <2>1, <5>0, <5>4, BlockedMoves, MarkStoppedMoves, LeaveMoves, ResumeMoves,
             MakeReadyMoves, BeginFenceMoves, StopSessionMoves, ReleaseMoves, EntombMoves,
             RecoveryMissedMoves, FinishMoves
             DEF Goes, Rises, Fails, GivesUp, Calls, Returns
        <5>5. QED
          BY <2>3, <4>2, <5>1, <5>2, <5>3, <5>4, <5>6, <5>7 DEF JobStep
      <4>3. CASE RecoveryTimesOut(t)
        <5>1. Goes(j, To(j, "missed"), "missed") /\ k = To(j, "missed")
          BY <1>1, <4>3, BecomesThat, ToGoes, PlaceNames DEF RecoveryTimesOut, JobTyped
        <5>2. QED
          BY <2>1, <5>1 DEF Goes
      <4>4. CASE BeginRecovery(t)
        BY <1>1, <2>1, <4>4, BeginMoves DEF JobTyped
      <4>5. CASE BeginStart(t) \/ BeginRestart(t) \/ BeginChat(t) \/ BeginStop(t) \/ BeginDelete(t)
        BY <1>1, <2>1, <4>5, BeginMoves, PlaceNames
           DEF BeginStart, BeginRestart, BeginChat, BeginStop, BeginDelete, JobTyped, Op
      <4>6. QED
        BY <4>1, <4>2, <4>3, <4>4, <4>5, JobFrame
    <3>2. s.status = "deleting"
      BY <1>1, <3>1 DEF Deletion
    <3>3. CASE Soft(t)
      BY <3>2, <3>3 DEF Soft, Like
    <3>4. CASE \E e \in exits : e.thread = t /\ PatchExit(e)
      BY <1>1, <3>2, <3>4, HardWrites
    <3>5. ~FinalizeDeletion(t) /\ ~RecoverStructured(t)
      <4>1. ~Outside(j) /\ j # NoJob
        BY <1>2, <3>1 DEF Outside
      <4>2. QED
        BY <4>1 DEF FinalizeDeletion, RecoverStructured, Free
    <3>6. ~HardJobStep(t)
      <4>1. HardJobStep(t) => j.at \notin {"drain", "kill"}
        BY <2>3 DEF HardJobStep, BeginSwitch, Adopt, Complete, BeginTransition, Abort, Renew,
                    MarkStopped, Leave, MakeReady, BeginFence, Release, Entomb, Mark
      <4>2. QED
        BY <3>1, <4>1
    <3>7. QED
      BY <3>3, <3>4, <3>5, <3>6, SoftOrHard DEF Hard
  <2>4. QED
    BY <2>2, <2>3
<1>6. Tombstone(states'[t]) => deleted'[t] /\ ~Launching(k)
  <2>1. SUFFICES ASSUME Tombstone(states'[t]) PROVE deleted'[t] /\ ~Launching(k)
    OBVIOUS
  <2>2. deleted[t] /\ ~Launching(j)
    BY <2>1, TombstonesAreDeletions, LaunchesDoNotEntomb
  <2>3. ~Launching(k)
    <3>1. CASE JobStep(t)
      BY <1>1, <1>2, <2>2, <3>1, OperationKept DEF Launching
    <3>2. CASE ~JobStep(t) /\ ~RecoverStructured(t)
      <4>1. ~IsTerminal(s)
        BY <2>1, <3>2, LeavesTerminal DEF Tombstone, IsStructured, IsTerminal
      <4>2. QED
        BY <1>4, <2>2, <4>1
    <3>3. CASE RecoverStructured(t)
      BY <3>3 DEF RecoverStructured, Free, NoJob, Launching
    <3>4. QED
      BY <3>1, <3>2, <3>3
  <2>4. QED
    BY <1>3, <2>2, <2>3
<1>7. Tombstone(disk'[t]) => deleted'[t]
  BY <1>3, TombstonesAreDeletions
<1>8. QED
  BY <1>3, <1>4, <1>5, <1>6, <1>7 DEF Deletion

-----------------------------------------------------------------------------
(* Quiet: who works with the terminal                                          *)

(* Every claim on a terminal thread is leased, so a drained one has none. *)
LEMMA DrainedTerminal ==
  ASSUME Inv, NEW t \in Thread, IsTerminal(states[t]), Drained(t) PROVE NoClaimOn(t)
<1>1. ASSUME NEW c \in ClaimId PROVE claims[t][c] = NoClaim
  <2>1. Kept(claims[t][c]) = NoClaim
    BY DEF Drained, Pruned
  <2>2. claims[t][c] # NoClaim => claims[t][c].leased
    <3>1. claims[t][c] # NoClaim =>
            claims[t][c].adapter = "terminal"
            /\ (claims[t][c].adapter = "terminal" => claims[t][c].leased)
      BY InvMeans DEF ClaimsMatchEpoch, LeasedIffHeld
    <3>2. QED
      BY <3>1
  <2>3. QED
    BY <2>1, <2>2 DEF Kept
<1>2. QED
  BY <1>1 DEF NoClaimOn

(* A claim is handed out on a thread that is open for it, and nothing else of
   the thread changes. *)
LEMMA ClaimsMove ==
  ASSUME CoordinatorInv, NEW t \in Thread, Moves(t), NoClaimOn(t)
  PROVE  \/ NoClaimOn(t)'
         \/ /\ UNCHANGED <<states, disk, job>>
            /\ \/ ReadyForStructured(states[t])
               \/ /\ IsTerminal(states[t]) /\ states[t].generation # Null
                  /\ AcceptsOperations(states[t].status)
<1>1. JobTyped(t) /\ TypeOK
  BY Holds DEF CoordinatorInv, Inv
<1>2. \A m : Writes(t, m) => NoClaimOn(t)'
  BY <1>1, WritesOne
<1>3. UNCHANGED claims => NoClaimOn(t)'
  BY DEF NoClaimOn
<1>4. \A m : Store(t, m) \/ StoreFails(t, m) => NoClaimOn(t)'
  BY <1>2 DEF Writes
<1>5. CASE Hard(t)
  <2>1. \/ \E m : Writes(t, m)
        \/ UNCHANGED claims
    BY <1>1, <1>5, HardWrites DEF Hard, HardJobStep
  <2>2. QED
    BY <1>2, <1>3, <2>1
<1>6. CASE JobStep(t) /\ ~Hard(t)
  <2>1. \/ UNCHANGED claims
        \/ \E m : Store(t, m) \/ StoreFails(t, m)
    BY <1>6 DEF JobStep, Hard, HardJobStep, Verify, Quiesce, Enter, Lookup, Suspend, Prepare, Spawn,
         Listen, Probe, Check, Settle, Kill, Blocked, Resume, Drain, StopSession, RecoveryFailed,
         RecoveryMissed, MarkMissed, Finish, Call, Attempt, authority
  <2>2. QED
    BY <1>3, <1>4, <2>1
<1>7. ASSUME NEW c \in ClaimId, TurnStep(t, c)
      PROVE  \/ NoClaimOn(t)'
             \/ /\ UNCHANGED <<states, disk, job>>
                /\ \/ ReadyForStructured(states[t])
                   \/ /\ IsTerminal(states[t]) /\ states[t].generation # Null
                      /\ AcceptsOperations(states[t].status)
  <2>1. CASE ReserveTurn(t, c) \/ TakeTurn(t, c)
    BY <2>1 DEF ReserveTurn, TakeTurn, ReserveStructuredStart, ClaimStructuredStart, AcquireStructured,
                CanAddClaim, SetClaim, ClaimOnly
  <2>2. CASE Lease(t, c)
    BY <2>2 DEF Lease, AcquireTerminal, CanAcquireTerminal, SetClaim, ClaimOnly
  <2>3. CASE OpenSession(t, c) \/ SendTurn(t, c)
    BY <1>3, <2>3 DEF OpenSession, SendTurn, SessionOnly, authority
  <2>4. CASE HookPatch(t, c)
    BY <1>4, <2>4 DEF HookPatch
  <2>5. CASE ReleaseLease(t, c) \/ ReservationExpires(t, c)
    BY <2>5 DEF ReleaseLease, ReservationExpires, ReleaseClaim, ClaimExpires, NoClaimOn
  <2>6. QED
    BY <1>7, <2>1, <2>2, <2>3, <2>4, <2>5 DEF TurnStep
<1>8. CASE \/ Begin(t) \/ TurnEnds(t) \/ SessionCloses(t) \/ ProcessExits(t) \/ HostTearsDown(t)
           \/ DropRecord(t) \/ FinalizeExit(t) \/ DeleteThread(t) \/ RecoveryTimesOut(t)
           \/ RecoveryGivesUp(t) \/ BeginAttach(t) \/ AttachFails(t)
           \/ \E e \in exits : ReadExit(e)
  <2>1. CASE RecoverStructured(t)
    BY <1>5, <2>1 DEF Hard
  <2>2. CASE ~RecoverStructured(t)
    <3>1. \/ UNCHANGED claims
          \/ \E m : Store(t, m) \/ StoreFails(t, m)
      BY <1>8, <2>2 DEF Begin, BeginStart, BeginRestart, BeginChat, BeginStop, BeginDelete, BeginRecovery,
           NewJob, TurnEnds, SessionCloses, SessionOnly, ProcessExits, HostTearsDown, DropRecord,
           FinalizeExit, DeleteThread, RecoveryTimesOut, RecoveryGivesUp, MarkMissed, Attempt, ReadExit,
           BeginAttach, AttachFails, authority
    <3>2. QED
      BY <1>3, <1>4, <3>1
  <2>3. QED
    BY <2>1, <2>2
<1>9. QED
  BY <1>5, <1>6, <1>7, <1>8, Moves(t) DEF Moves, Hard

Silent(s) == IsTerminal(s) /\ (s.generation = Null \/ s.status = "stopping")

(* Where an epoch starts or begins to end, nobody works with it. *)
LEMMA SilenceKept ==
  ASSUME CoordinatorInv, NEW t \in Thread, Moves(t), Silent(states'[t]) PROVE NoClaimOn(t)'
<1> DEFINE s == states[t]
           j == job[t]
           u == unrecovered[t]
<1>1. /\ JobTyped(t) /\ Shape(j) /\ Quiet(t) /\ s \in ThreadState /\ TypeOK /\ Inv
  BY Holds DEF JobTyped, CoordinatorInv, Inv
<1>2. Silent(s) => NoClaimOn(t)
  BY <1>1 DEF Quiet, Silent
<1>3. Silent(s) => NoClaimOn(t)'
  <2>1. Silent(s) => ~ReadyForStructured(s) /\ ~(s.generation # Null /\ AcceptsOperations(s.status))
    BY DEF Silent, IsTerminal, ReadyForStructured, IsStructured, AcceptsOperations
  <2>2. QED
    BY <1>2, <2>1, ClaimsMove
<1>4. CASE Soft(t)
  BY <1>3, <1>4 DEF Soft, Like, Silent, IsTerminal
<1>5. CASE Renew(t) \/ BeginTransition(t) \/ Abort(t)
  <2>1. CASE states'[t] = s
    BY <1>3, <2>1
  <2>2. CASE states'[t] # s
    <3>1. CanBeginStop(t)
      BY <1>1, <1>5, <2>2, RenewMoves, BeginTransitionMoves, AbortMoves, WritesAt
         DEF Calls, Stops, authority
    <3>2. NoClaimOn(t)
      BY <1>1, <3>1, DrainedTerminal DEF CanBeginStop, TerminalIdle
    <3>3. QED
      BY <1>1, <1>5, <3>2, HardWrites, WritesOne
  <2>3. QED
    BY <2>1, <2>2
<1>6. CASE BeginSwitch(t)
  <2>1. CASE states'[t] = s
    BY <1>3, <2>1
  <2>2. CASE states'[t] # s
    <3>1. Drained(t) /\ \E m : Store(t, m)
      BY <1>1, <1>6, <2>2, BeginSwitchMoves, WritesAt DEF Calls, authority
    <3>2. \A c \in ClaimId : Kept(claims[t][c]) = NoClaim
      BY <3>1 DEF Drained, Pruned
    <3>3. QED
      BY <1>1, <3>1, <3>2, WritesAt DEF NoClaimOn
  <2>3. QED
    BY <2>1, <2>2
<1>7. CASE Adopt(t) \/ Complete(t)
  <2>1. j.at \in Launch
    BY <1>1, <1>7, AdoptMoves, CompleteMoves DEF Launch
  <2>2. Silent(s)
    BY <1>1, <2>1 DEF Quiet, Silent
  <2>3. QED
    BY <1>3, <2>2
<1>8. ASSUME NEW m, Silent(m) => Silent(s), Writes(t, m) PROVE NoClaimOn(t)'
  BY <1>1, <1>3, <1>8, WritesOne
<1>9. CASE \/ Leave(t) \/ MakeReady(t) \/ Release(t) \/ BeginFence(t) \/ Entomb(t)
           \/ FinalizeDeletion(t)
  <2>1. \E r, st : Writes(t, Structured(r, st))
    BY <1>1, <1>9, HardWrites DEF Restoring, DefaultState
  <2>2. \A r, st : ~Silent(Structured(r, st))
    BY DEF Silent, Structured, IsTerminal
  <2>3. QED
    BY <1>8, <2>1, <2>2
<1>10. Silent(DeletionBegun(s)) => Silent(s)
  BY <1>1 DEF Silent, DeletionBegun, Structured, IsTerminal, ThreadState
<1>11. /\ Silent(StoppedPatch(s)) => Silent(s)
       /\ Silent([s EXCEPT !.status = "exited"]) => Silent(s)
       /\ Silent([s EXCEPT !.status = "exited", !.turn = FALSE]) => Silent(s)
  BY <1>1 DEF Silent, StoppedPatch, IsTerminal, ThreadState
<1>12. CASE RecoverStructured(t)
  <2>1. ~Silent(Structured(u.revision, "ready"))
    BY DEF Silent, Structured, IsTerminal
  <2>2. QED
    BY <1>1, <1>8, <1>10, <1>12, <2>1, HardWrites
<1>13. CASE BeginDeletion(t) \/ MarkStopped(t) \/ Mark(t)
  BY <1>1, <1>8, <1>10, <1>11, <1>13, HardWrites
<1>14. CASE \E e \in exits : e.thread = t /\ PatchExit(e)
  <2>1. UNCHANGED <<states, disk, claims>> \/ Writes(t, [s EXCEPT !.status = "exited"])
    BY <1>1, <1>14, HardWrites
  <2>2. UNCHANGED <<states, disk, claims>> => Writes(t, s)
    BY DEF Writes
  <2>3. QED
    BY <1>8, <1>11, <2>1, <2>2
<1>15. QED
  BY <1>4, <1>5, <1>6, <1>7, <1>9, <1>12, <1>13, <1>14, SoftOrHard DEF Hard, HardJobStep

(* A launch goes on in the epoch it has begun. *)
OfLaunch(s, j) == IsTerminal(s) /\ s.generation = Null /\ s.revision = j.revision

LEMMA LaunchKept ==
  ASSUME CoordinatorInv, NEW t \in Thread, Moves(t), job'[t].at \in Launch
  PROVE  OfLaunch(states'[t], job'[t])
<1> DEFINE s == states[t]
           j == job[t]
           k == job'[t]
<1>1. /\ JobTyped(t) /\ Shape(j) /\ Quiet(t) /\ s \in ThreadState /\ TypeOK
      /\ j.revision \in Nat /\ s.revision \in Nat
  BY Holds DEF JobTyped, JobRow, CoordinatorInv, Inv
<1>2. NoJob.at = "idle"
  BY DEF NoJob
<1>3. j.at \in Launch => OfLaunch(s, j)
  BY <1>1 DEF Quiet, OfLaunch
<1>4. CASE UNCHANGED job
  <2>1. OfLaunch(s, j) /\ j # NoJob /\ ~JobStep(t)
    <3>1. ~JobStep(t)
      <4>1. CASE Suspend(t) \/ Prepare(t) \/ Spawn(t) \/ Adopt(t) \/ Listen(t) \/ Probe(t) \/ Complete(t)
        BY <1>1, <1>4, <4>1, SuspendMoves, PrepareMoves, SpawnMoves, AdoptMoves, ListenMoves, ProbeMoves,
           CompleteMoves DEF Goes, Calls, Undoes, Kills
      <4>2. CASE JobStep(t) /\ ~(\/ Suspend(t) \/ Prepare(t) \/ Spawn(t) \/ Adopt(t) \/ Listen(t)
                                 \/ Probe(t) \/ Complete(t))
        <5>1. j.at \notin Launch
          BY <4>2 DEF JobStep, Verify, Quiesce, Enter, Lookup, BeginSwitch, Check, Abort, Settle,
             BeginTransition, Kill, Blocked, Renew, MarkStopped, Leave, Resume, MakeReady, BeginFence,
             Drain, StopSession, Release, BeginDeletion, Entomb, Mark, RecoveryFailed, RecoveryMissed,
             Finish, Launch
        <5>2. QED
          BY <1>4, <5>1
      <4>3. QED
        BY <4>1, <4>2
    <3>2. QED
      BY <1>2, <1>3, <1>4, <3>1 DEF Launch
  <2>2. CASE Soft(t)
    BY <1>4, <2>1, <2>2 DEF Soft, Like, OfLaunch, IsTerminal
  <2>3. CASE \E e \in exits : e.thread = t /\ PatchExit(e)
    <3>1. \/ states'[t] = s
          \/ states'[t] = [s EXCEPT !.status = "exited"]
      BY <1>1, <2>3, HardWrites, WritesOne
    <3>2. QED
      BY <1>1, <1>4, <2>1, <3>1 DEF OfLaunch, IsTerminal, ThreadState
  <2>4. ~FinalizeDeletion(t) /\ ~RecoverStructured(t)
    BY <2>1 DEF FinalizeDeletion, RecoverStructured, Free, Tombstone, IsStructured, OfLaunch, IsTerminal
  <2>5. ~HardJobStep(t)
    BY <2>1 DEF HardJobStep, JobStep
  <2>6. QED
    BY <2>2, <2>3, <2>4, <2>5, SoftOrHard DEF Hard
<1>5. CASE BeginSwitch(t) \/ Renew(t)
  <2>1. /\ Store(t, Starting(s.revision + 1))
        /\ \E p \in {"suspend", "prepare", "spawn"} : Rises(j, k, p, s.revision + 1)
    BY <1>1, <1>2, <1>5, BeginSwitchMoves, RenewMoves DEF Calls, Fails, GivesUp, Goes, Launch
  <2>2. states'[t] = Starting(s.revision + 1) /\ k.revision = s.revision + 1
    BY <1>1, <2>1, WritesAt DEF Rises
  <2>3. QED
    BY <2>2 DEF OfLaunch, Starting, IsTerminal
<1>6. CASE Suspend(t) \/ Prepare(t) \/ Listen(t) \/ Probe(t) \/ Spawn(t)
  <2>1. j.at \in Launch /\ OfLaunch(s, j)
    BY <1>1, <1>3, <1>6, SuspendMoves, PrepareMoves, ListenMoves, ProbeMoves, SpawnMoves DEF Launch
  <2>2. ~Undoes(j, k)
    BY DEF Undoes, Kills, Launch
  <2>3. k.revision = j.revision
    BY <1>1, <1>6, <2>2, SuspendMoves, PrepareMoves, ListenMoves, ProbeMoves, SpawnMoves DEF Calls, Goes
  <2>4. ~HardJobStep(t)
    BY <1>1, <1>6, SuspendMoves, PrepareMoves, ListenMoves, ProbeMoves, SpawnMoves
       DEF HardJobStep, BeginSwitch, Adopt, Complete, BeginTransition, Abort, Renew, MarkStopped, Leave,
           MakeReady, BeginFence, Release, BeginDeletion, Entomb, Mark
  <2>5. Soft(t)
    BY <1>6, <2>4, SoftJobSteps DEF JobStep
  <2>6. QED
    BY <2>1, <2>3, <2>5 DEF Soft, Like, OfLaunch, IsTerminal
<1>7. CASE Adopt(t)
  <2>1. OfLaunch(s, j)
    BY <1>1, <1>3, <1>7, AdoptMoves DEF Launch
  <2>2. states'[t] \in {s, [s EXCEPT !.pid = j.generation]} /\ k.revision = j.revision
    <3>1. ~Undoes(j, k)
      BY DEF Undoes, Kills, Launch
    <3>2. k.revision = j.revision
      BY <1>1, <1>7, <3>1, AdoptMoves DEF Calls, Goes
    <3>3. QED
      BY <1>1, <1>7, <3>2, HardWrites, WritesOne
  <2>3. QED
    BY <1>1, <2>1, <2>2 DEF OfLaunch, IsTerminal, ThreadState
<1>8. CASE /\ JobStep(t)
           /\ ~(\/ BeginSwitch(t) \/ Renew(t) \/ Suspend(t) \/ Prepare(t) \/ Listen(t) \/ Probe(t)
                \/ Spawn(t) \/ Adopt(t))
  <2>1. CASE Verify(t) \/ Quiesce(t) \/ Enter(t) \/ Lookup(t) \/ Mark(t) \/ RecoveryFailed(t)
    <3>1. CASE Verify(t)
      BY <1>1, <1>2, <3>1, VerifyMoves DEF Goes, Checks, GivesUp, Launch
    <3>2. CASE Mark(t)
      BY <1>1, <3>2, MarkMoves DEF Goes, Calls, Launch
    <3>3. CASE Quiesce(t) \/ Enter(t) \/ Lookup(t) \/ RecoveryFailed(t)
      BY <1>1, <1>2, <3>3, QuiesceMoves, EnterMoves, LookupMoves, RecoveryFailedMoves
         DEF Goes, Fails, GivesUp, Launch
    <3>4. QED
      BY <2>1, <3>1, <3>2, <3>3
  <2>2. CASE Complete(t) \/ Check(t) \/ Settle(t)
    BY <1>1, <1>2, <2>2, CompleteMoves, CheckMoves, SettleMoves
       DEF Goes, Calls, GivesUp, Undoes, Kills, Returns, Launch
  <2>3. CASE BeginTransition(t) \/ Abort(t) \/ Blocked(t)
    BY <1>1, <1>2, <2>3, BeginTransitionMoves, AbortMoves, BlockedMoves
       DEF Goes, Rises, Calls, Stops, Fails, GivesUp, Kills, Returns, Launch
  <2>7. CASE MarkStopped(t) \/ Leave(t) \/ Resume(t)
    BY <1>1, <1>2, <2>7, MarkStoppedMoves, LeaveMoves, ResumeMoves
       DEF Goes, Rises, Calls, Stops, Fails, GivesUp, Kills, Returns, Launch
  <2>4. CASE Kill(t) \/ Drain(t)
    BY <1>1, <1>2, <2>4, KillMoves, DrainMoves
       DEF Goes, Fails, GivesUp, Shape, Kills, Returns, Launch
  <2>5. CASE \/ BeginFence(t) \/ StopSession(t) \/ BeginDeletion(t) \/ Entomb(t) \/ Release(t)
             \/ RecoveryMissed(t) \/ Finish(t) \/ MakeReady(t)
    BY <1>1, <1>2, <2>5, BeginFenceMoves, StopSessionMoves, BeginDeletionMoves, EntombMoves,
       ReleaseMoves, RecoveryMissedMoves, FinishMoves, MakeReadyMoves
       DEF Goes, Rises, Calls, Fails, GivesUp, Returns, Launch
  <2>6. QED
    BY <1>8, <2>1, <2>2, <2>3, <2>4, <2>5, <2>7 DEF JobStep
<1>9. CASE \/ BeginStart(t) \/ BeginRestart(t) \/ BeginChat(t) \/ BeginStop(t) \/ BeginDelete(t)
           \/ BeginRecovery(t) \/ RecoveryTimesOut(t)
  <2>1. k.at \in {"enter", "verify", "mark", "finish", "missed"}
    <3>1. CASE BeginRecovery(t)
      BY <1>1, <3>1, BeginMoves DEF JobTyped
    <3>2. CASE RecoveryTimesOut(t)
      <4>1. Goes(j, To(j, "missed"), "missed") /\ k = To(j, "missed")
        BY <1>1, <3>2, BecomesThat, ToGoes, PlaceNames DEF RecoveryTimesOut, JobTyped
      <4>2. QED
        BY <4>1 DEF Goes
    <3>3. CASE BeginStart(t) \/ BeginRestart(t) \/ BeginChat(t) \/ BeginStop(t) \/ BeginDelete(t)
      BY <1>1, <3>3, BeginMoves, PlaceNames
         DEF BeginStart, BeginRestart, BeginChat, BeginStop, BeginDelete, JobTyped, Op
    <3>4. QED
      BY <1>9, <3>1, <3>2, <3>3
  <2>2. QED
    BY <2>1 DEF Launch
<1>10. QED
  BY <1>4, <1>5, <1>6, <1>7, <1>8, <1>9, JobFrame

(* A step of its job that is not one of these ten does not bring it to a kill. *)
LEMMA WhoKills ==
  ASSUME NEW t \in Thread, JobTyped(t), JobStep(t), job'[t].at = "kill"
  PROVE  \/ Suspend(t) \/ Prepare(t) \/ Spawn(t) \/ Adopt(t) \/ Listen(t) \/ Probe(t) \/ Complete(t)
         \/ BeginTransition(t) \/ Abort(t) \/ Drain(t)
<1> DEFINE j == job[t]
           k == job'[t]
<1>0. SUFFICES ASSUME ~(\/ Suspend(t) \/ Prepare(t) \/ Spawn(t) \/ Adopt(t) \/ Listen(t) \/ Probe(t)
                        \/ Complete(t) \/ BeginTransition(t) \/ Abort(t) \/ Drain(t))
               PROVE  FALSE
  OBVIOUS
<1>1. NoJob.at = "idle" /\ Shape(j)
  BY DEF NoJob, JobTyped
<1>2. CASE Verify(t)
  BY <1>1, <1>2, VerifyMoves DEF Goes, Checks, GivesUp
<1>3. CASE Mark(t)
  BY <1>3, MarkMoves DEF Goes, Calls
<1>4. CASE Quiesce(t) \/ Enter(t) \/ Lookup(t) \/ RecoveryFailed(t)
  BY <1>1, <1>4, QuiesceMoves, EnterMoves, LookupMoves, RecoveryFailedMoves
     DEF Goes, Fails, GivesUp
<1>5. CASE BeginSwitch(t) \/ Renew(t) \/ Check(t) \/ Settle(t)
  BY <1>1, <1>5, BeginSwitchMoves, RenewMoves, CheckMoves, SettleMoves
     DEF Goes, Rises, Calls, Fails, GivesUp, Returns
<1>6. CASE Kill(t)
  BY <1>1, <1>6, KillMoves DEF Goes, Fails, GivesUp, Shape
<1>7. CASE Blocked(t) \/ MarkStopped(t) \/ Leave(t) \/ Resume(t) \/ MakeReady(t)
  BY <1>1, <1>7, BlockedMoves, MarkStoppedMoves, LeaveMoves, ResumeMoves, MakeReadyMoves
     DEF Goes, Rises, Calls, Fails, GivesUp, Returns
<1>8. CASE \/ BeginFence(t) \/ StopSession(t) \/ BeginDeletion(t) \/ Entomb(t) \/ Release(t)
           \/ RecoveryMissed(t) \/ Finish(t)
  BY <1>1, <1>8, BeginFenceMoves, StopSessionMoves, BeginDeletionMoves, EntombMoves, ReleaseMoves,
     RecoveryMissedMoves, FinishMoves
     DEF Goes, Rises, Calls, Fails, GivesUp, Returns
<1>9. QED
  BY <1>0, <1>2, <1>3, <1>4, <1>5, <1>6, <1>7, <1>8, JobStep(t) DEF JobStep

(* An epoch that was reopened stays so while its process is killed. *)
LEMMA ReopenedStays ==
  ASSUME CoordinatorInv, NEW t \in Thread, Moves(t), IsTerminal(states[t]), Reopened(t),
         ~Hard(t) \/ \E e \in exits : e.thread = t /\ PatchExit(e)
  PROVE  IsTerminal(states'[t]) /\ Reopened(t)'
<1> DEFINE s == states[t]
<1>1. JobTyped(t) /\ s \in ThreadState /\ TypeOK
  BY Holds DEF CoordinatorInv, Inv
<1>2. attaching'[t] = attaching[t]
  BY AttachFrame DEF BeginAttach, Reopened
<1>3. CASE Soft(t)
  BY <1>2, <1>3 DEF Soft, Like, IsTerminal, Reopened
<1>4. CASE \E e \in exits : e.thread = t /\ PatchExit(e)
  <2>1. states'[t] \in {s, [s EXCEPT !.status = "exited"]}
    BY <1>1, <1>4, HardWrites, WritesOne
  <2>2. QED
    BY <1>1, <1>2, <2>1 DEF IsTerminal, Reopened, ThreadState
<1>5. QED
  BY <1>3, <1>4, SoftOrHard

(* While a process is killed, its epoch is closed and nobody works with it, or
   a client that could not attach has reopened it. *)
LEMMA KillIsQuiet ==
  ASSUME CoordinatorInv, NEW t \in Thread, Moves(t), job'[t].at = "kill"
  PROVE  /\ IsTerminal(states'[t])
         /\ \/ Closed(states'[t]) /\ NoClaimOn(t)'
            \/ job'[t].op # "delete" /\ Reopened(t)'
<1> DEFINE s == states[t]
           j == job[t]
           k == job'[t]
<1>1. /\ JobTyped(t) /\ Shape(j) /\ Quiet(t) /\ Recovery(t) /\ Deletion(t) /\ s \in ThreadState
      /\ TypeOK /\ Inv
  BY Holds DEF JobTyped, CoordinatorInv, Inv
<1>2. NoJob.at = "idle" /\ NoJob.op = "none"
  BY DEF NoJob
<1>3. Closed(s) /\ IsTerminal(s) /\ NoClaimOn(t) => NoClaimOn(t)'
  <2>1. Closed(s) /\ IsTerminal(s) =>
          ~ReadyForStructured(s) /\ ~(s.generation # Null /\ AcceptsOperations(s.status))
    BY DEF Closed, IsTerminal, ReadyForStructured, IsStructured, AcceptsOperations
  <2>2. QED
    BY <2>1, ClaimsMove
<1>4. CASE Suspend(t) \/ Prepare(t) \/ Spawn(t) \/ Adopt(t) \/ Listen(t) \/ Probe(t) \/ Complete(t)
  <2>1. j.at \in Launch
    BY <1>1, <1>4, SuspendMoves, PrepareMoves, SpawnMoves, AdoptMoves, ListenMoves, ProbeMoves,
       CompleteMoves DEF Launch
  <2>2. IsTerminal(s) /\ s.generation = Null /\ NoClaimOn(t)
    BY <1>1, <2>1 DEF Quiet
  <2>3. IsTerminal(states'[t]) /\ states'[t].generation = Null
    <3>1. CASE Adopt(t)
      <4>1. states'[t] \in {s, [s EXCEPT !.pid = j.generation]}
        BY <1>1, <3>1, HardWrites, WritesOne
      <4>2. QED
        BY <1>1, <2>2, <4>1 DEF IsTerminal, ThreadState
    <3>2. CASE Complete(t)
      <4>1. states'[t] = s
        BY <1>1, <3>2, CompleteMoves, WritesAt DEF Calls, Goes, authority
      <4>2. QED
        BY <2>2, <4>1
    <3>3. CASE Suspend(t) \/ Prepare(t) \/ Spawn(t) \/ Listen(t) \/ Probe(t)
      <4>1. ~HardJobStep(t)
        BY <1>1, <3>3, SuspendMoves, PrepareMoves, ListenMoves, ProbeMoves, SpawnMoves
           DEF HardJobStep, BeginSwitch, Adopt, Complete, BeginTransition, Abort, Renew, MarkStopped,
               Leave, MakeReady, BeginFence, Release, BeginDeletion, Entomb, Mark
      <4>2. Soft(t)
        BY <3>3, <4>1, SoftJobSteps DEF JobStep
      <4>3. QED
        BY <2>2, <4>2 DEF Soft, Like, IsTerminal
    <3>4. QED
      BY <1>4, <3>1, <3>2, <3>3
  <2>4. QED
    BY <1>3, <2>2, <2>3 DEF Closed
<1>5. CASE BeginTransition(t) \/ Abort(t)
  <2>1. \/ IsTerminal(s) /\ s.status = "stopping" /\ UNCHANGED authority
        \/ CanBeginStop(t) /\ Store(t, Stopping(s))
    <3>1. ~Fails(j, k)
      BY <1>2 DEF Fails, GivesUp, Goes
    <3>2. CASE BeginTransition(t)
      <4>1. j.op = "restart" => IsTerminal(s)
        BY <1>1, <3>2, BeginTransitionMoves DEF Recovery
      <4>2. QED
        BY <1>1, <3>1, <3>2, <4>1, BeginTransitionMoves DEF Calls, Stops
    <3>3. CASE Abort(t)
      BY <1>1, <3>1, <3>3, AbortMoves DEF Calls, Stops
    <3>4. QED
      BY <1>5, <3>2, <3>3
  <2>2. CASE IsTerminal(s) /\ s.status = "stopping" /\ UNCHANGED authority
    <3>1. NoClaimOn(t)
      BY <1>1, <2>2 DEF Quiet
    <3>2. QED
      BY <1>3, <2>2, <3>1 DEF Closed, authority
  <2>3. CASE CanBeginStop(t) /\ Store(t, Stopping(s))
    <3>1. NoClaimOn(t) /\ IsTerminal(s)
      BY <1>1, <2>3, DrainedTerminal DEF CanBeginStop, TerminalIdle
    <3>2. Writes(t, Stopping(s)) /\ states'[t] = Stopping(s)
      BY <1>1, <2>3, WritesAt DEF Writes
    <3>3. IsTerminal(Stopping(s)) /\ Closed(Stopping(s))
      BY <1>1, <3>1 DEF Stopping, IsTerminal, Closed, ThreadState
    <3>4. QED
      BY <1>1, <3>1, <3>2, <3>3, WritesOne
  <2>4. QED
    BY <2>1, <2>2, <2>3
<1>6. CASE Drain(t)
  <2>1. j.at = "drain" /\ j.op # "stop" /\ ~IsStructured(s) /\ Drained(t) /\ UNCHANGED authority
    BY <1>1, <1>2, <1>6, DrainMoves DEF Goes, Fails, GivesUp, Returns
  <2>2. IsTerminal(s) /\ s.status = "deleting"
    BY <1>1, <2>1 DEF Shape, Deletion, IsStructured, IsTerminal, ThreadState
  <2>3. NoClaimOn(t)
    BY <1>1, <2>1, <2>2, DrainedTerminal
  <2>4. QED
    BY <1>3, <2>1, <2>2, <2>3 DEF Closed, authority
<1>7. CASE UNCHANGED job /\ ~JobStep(t)
  <2>1. /\ IsTerminal(s) /\ (j.op = "delete" => s.status = "deleting")
        /\ (Closed(s) /\ NoClaimOn(t)) \/ (j.op # "delete" /\ Reopened(t))
    BY <1>1, <1>7 DEF Quiet, Deletion
  <2>2. ~FinalizeDeletion(t) /\ ~RecoverStructured(t) /\ ~HardJobStep(t)
    BY <1>2, <1>7, <2>1
       DEF FinalizeDeletion, RecoverStructured, Free, Tombstone, IsStructured, IsTerminal,
           HardJobStep, JobStep
  <2>3. CASE j.op # "delete" /\ Reopened(t)
    BY <1>7, <2>1, <2>2, <2>3, ReopenedStays DEF Hard
  <2>4. CASE Closed(s) /\ NoClaimOn(t)
    <3>1. CASE \E e \in exits : e.thread = t /\ PatchExit(e)
      <4>1. \/ states'[t] = s
            \/ /\ states'[t] \in {s, [s EXCEPT !.status = "exited"]}
               /\ s.status \notin {"deleting", "stopping", "stopped"}
        BY <1>1, <3>1, HardWrites, WritesOne
      <4>2. IsTerminal(states'[t]) /\ Closed(states'[t])
        BY <1>1, <2>1, <2>4, <4>1 DEF IsTerminal, Closed, ThreadState
      <4>3. QED
        BY <1>3, <2>1, <2>4, <4>2
    <3>2. CASE Soft(t)
      <4>1. CASE states'[t] = s
        BY <1>3, <2>1, <2>4, <4>1
      <4>2. CASE s.generation = Null \/ s.status = "deleting"
        BY <1>3, <2>1, <2>4, <3>2, <4>2 DEF Soft, Like, IsTerminal, Closed
      <4>3. CASE states'[t] # s /\ s.status = "stopping" /\ AttachFails(t)
        <5>1. states'[t] = [s EXCEPT !.status = "error"] /\ UNCHANGED attaching
          BY <1>1, <4>3, WritesAt DEF AttachFails, books
        <5>2. attaching[t] = s.revision /\ s.generation # Null
          BY <4>3 DEF AttachFails
        <5>3. IsTerminal(states'[t]) /\ Reopened(t)'
          BY <1>1, <2>1, <5>1, <5>2 DEF Reopened, IsTerminal, ThreadState
        <5>4. j.op # "delete"
          BY <2>1, <4>3
        <5>5. QED
          BY <1>7, <5>3, <5>4
      <4>4. CASE states'[t] # s /\ s.status = "stopping" /\ ~AttachFails(t)
        <5>1. FinalizeExit(t) \/ RecoveryGivesUp(t) \/ \E c \in ClaimId : HookPatch(t, c)
          <6>1. CASE Begin(t)
            BY <2>2, <4>4, <6>1
               DEF Begin, BeginStart, BeginRestart, BeginChat, BeginStop, BeginDelete, BeginRecovery,
                   NewJob, authority
          <6>2. CASE \E c \in ClaimId : TurnStep(t, c)
            BY <4>4, <6>2
               DEF TurnStep, ReserveTurn, TakeTurn, OpenSession, SendTurn, SessionOnly, Lease, ReleaseLease,
                   ReservationExpires, ReserveStructuredStart, ClaimStructuredStart, AcquireStructured,
                   AcquireTerminal, ReleaseClaim, ClaimExpires, SetClaim, authority
          <6>3. CASE \/ TurnEnds(t) \/ SessionCloses(t) \/ ProcessExits(t) \/ HostTearsDown(t)
                     \/ DropRecord(t) \/ DeleteThread(t) \/ RecoveryTimesOut(t) \/ BeginAttach(t)
                     \/ \E e \in exits : ReadExit(e)
            BY <4>4, <6>3 DEF TurnEnds, SessionCloses, SessionOnly, ProcessExits, HostTearsDown, DropRecord,
                  DeleteThread, RecoveryTimesOut, BeginAttach, ReadExit, authority
          <6>4. CASE \E e \in exits : e.thread = t /\ PatchExit(e)
            <7>1. states'[t] = s
              BY <1>1, <4>4, <6>4, HardWrites
            <7>2. QED
              BY <4>4, <7>1
          <6>5. QED
            BY <1>7, <2>2, <4>4, <6>1, <6>2, <6>3, <6>4, Moves(t) DEF Moves
        <5>2. ~FinalizeExit(t)
          BY <1>2, <1>7 DEF FinalizeExit
        <5>3. ~RecoveryGivesUp(t)
          <6>1. SUFFICES ASSUME RecoveryGivesUp(t) PROVE FALSE
            OBVIOUS
          <6>2. j.op \in {"none", "delete"}
            BY <1>1, <6>1 DEF RecoveryGivesUp, Recovery
          <6>3. j.op # "none"
            BY <1>1, <1>7 DEF Shape
          <6>4. QED
            BY <2>1, <2>4, <4>4, <6>2, <6>3
        <5>4. \A c \in ClaimId : ~HookPatch(t, c)
          BY <2>1, <2>4 DEF HookPatch, Held, NoClaimOn, NoClaim
        <5>5. QED
          BY <5>1, <5>2, <5>3, <5>4
      <4>5. QED
        BY <2>1, <2>4, <4>1, <4>2, <4>3, <4>4 DEF Closed
    <3>3. QED
      BY <2>2, <3>1, <3>2, SoftOrHard DEF Hard
  <2>5. QED
    BY <2>1, <2>3, <2>4
<1>8. CASE \/ BeginStart(t) \/ BeginRestart(t) \/ BeginChat(t) \/ BeginStop(t) \/ BeginDelete(t)
           \/ BeginRecovery(t) \/ RecoveryTimesOut(t)
  <2>1. k.at \in {"enter", "verify", "mark", "finish", "missed"}
    <3>1. CASE BeginRecovery(t)
      BY <1>1, <3>1, BeginMoves DEF JobTyped
    <3>2. CASE RecoveryTimesOut(t)
      <4>1. Goes(j, To(j, "missed"), "missed") /\ k = To(j, "missed")
        BY <1>1, <3>2, BecomesThat, ToGoes, PlaceNames DEF RecoveryTimesOut, JobTyped
      <4>2. QED
        BY <4>1 DEF Goes
    <3>3. CASE BeginStart(t) \/ BeginRestart(t) \/ BeginChat(t) \/ BeginStop(t) \/ BeginDelete(t)
      BY <1>1, <3>3, BeginMoves, PlaceNames
         DEF BeginStart, BeginRestart, BeginChat, BeginStop, BeginDelete, JobTyped, Op
    <3>4. QED
      BY <1>8, <3>1, <3>2, <3>3
  <2>2. QED
    BY <2>1
<1>9. QED
  BY <1>1, <1>4, <1>5, <1>6, <1>7, <1>8, JobFrame, WhoKills

LEMMA QuietKept ==
  ASSUME CoordinatorInv, NEW t \in Thread, Moves(t) PROVE Quiet(t)'
<1>1. Silent(states'[t]) => NoClaimOn(t)'
  BY SilenceKept
<1>2. job'[t].at = "kill" =>
        /\ IsTerminal(states'[t])
        /\ \/ Closed(states'[t]) /\ NoClaimOn(t)'
           \/ job'[t].op # "delete" /\ Reopened(t)'
  BY KillIsQuiet
<1>3. job'[t].at \in Launch => OfLaunch(states'[t], job'[t])
  BY LaunchKept
<1>4. QED
  BY <1>1, <1>2, <1>3 DEF Quiet, Silent, OfLaunch

-----------------------------------------------------------------------------
(* Known: no process is lost, and none outlives its epoch                      *)

LEMMA LiveTyped ==
  ASSUME CoordinatorInv, NEW t \in Thread
  PROVE  /\ Live(t) \subseteq Generation
         /\ Null \notin Live(t)
         /\ host[t] = Null => Loose(t) = Live(t)
BY NullAssumption DEF Live, Loose

(* A thread that is structured, or stopped for good, has no process. *)
LEMMA NoneAlive ==
  ASSUME CoordinatorInv, NEW t \in Thread
  PROVE  /\ IsStructured(states[t]) \/ StoppedForGood(states[t]) => Live(t) = {}
         /\ IsStructured(disk[t]) => Live(t) = {}
<1>1. Known(t) /\ Null \notin Live(t)
  BY Holds, LiveTyped
<1>2. QED
  BY <1>1 DEF Known, Knows, Plain, StoppedForGood, IsStructured, IsTerminal

(* Once a job has seen to it, what lives is in the session of the host. *)
LEMMA NoneLoose ==
  ASSUME CoordinatorInv, NEW t \in Thread, ~Unverified(t)
  PROVE  /\ Loose(t) = {} /\ Live(t) \subseteq {host[t]}
         /\ host[t] = Null => Live(t) = {}
<1>1. Known(t)
  BY Holds
<1>2. Loose(t) = {}
  BY <1>1 DEF Known
<1>3. QED
  BY <1>2, LiveTyped DEF Loose

(* What is written knows every process that is alive. *)
Fits(t, m) == Plain(m) /\ \A g \in Live(t) : Knows(m, g)

LEMMA FitsBefore ==
  ASSUME CoordinatorInv, NEW t \in Thread PROVE Fits(t, states[t]) /\ Fits(t, disk[t])
BY Holds DEF Fits, Known

LEMMA EmptyFits ==
  ASSUME NEW t \in Thread, Live(t) = {}
  PROVE  /\ \A r, st : Fits(t, Structured(r, st))
         /\ \A s \in ThreadState : Plain(s) => Fits(t, StoppedPatch(s))
<1>1. \A s \in ThreadState : Plain(s) => Plain(StoppedPatch(s))
  BY DEF Plain, StoppedPatch, IsStructured, ThreadState
<1>2. QED
  BY <1>1 DEF Fits, Plain, Structured, IsStructured

LEMMA PatchFits ==
  ASSUME CoordinatorInv, NEW t \in Thread
  PROVE  LET s == states[t] IN
         /\ Fits(t, Stopping(s)) /\ Fits(t, [s EXCEPT !.status = "exited"])
         /\ Fits(t, [s EXCEPT !.status = "exited", !.turn = FALSE])
         /\ Fits(t, DeletionBegun(s))
         /\ \A r : Fits(t, Starting(r))
         /\ \A m : Like(s, m) => Fits(t, m)
<1> DEFINE s == states[t]
<1>1. s \in ThreadState /\ Fits(t, s)
  BY Holds, FitsBefore
<1>2. ASSUME NEW m, m.adapter = s.adapter, m.pid = s.pid, m.status = "stopped" => s.status = "stopped"
      PROVE  Fits(t, m)
  BY <1>1, <1>2 DEF Fits, Plain, Knows, IsStructured, IsTerminal
<1>3. /\ Fits(t, Stopping(s)) /\ Fits(t, [s EXCEPT !.status = "exited"])
      /\ Fits(t, [s EXCEPT !.status = "exited", !.turn = FALSE])
      /\ Fits(t, [s EXCEPT !.status = "deleting"])
  <2>1. \A m \in {Stopping(s), [s EXCEPT !.status = "exited"], [s EXCEPT !.status = "deleting"],
                  [s EXCEPT !.status = "exited", !.turn = FALSE]} :
          m.adapter = s.adapter /\ m.pid = s.pid /\ m.status # "stopped"
    BY <1>1 DEF Stopping, ThreadState
  <2>2. QED
    BY <1>2, <2>1
<1>4. Fits(t, DeletionBegun(s))
  BY <1>3, NoneAlive, EmptyFits DEF DeletionBegun
<1>5. \A r : Fits(t, Starting(r))
  BY DEF Fits, Plain, Knows, Starting, IsStructured, IsTerminal
<1>6. \A m : Like(s, m) => Fits(t, m)
  BY <1>2 DEF Like
<1>7. QED
  BY <1>3, <1>4, <1>5, <1>6

LEMMA HardFits ==
  ASSUME CoordinatorInv, NEW t \in Thread, Hard(t)
  PROVE  \E m : Writes(t, m) /\ Fits(t, m)
<1> DEFINE s == states[t]
           j == job[t]
           u == unrecovered[t]
<1>1. /\ JobTyped(t) /\ Shape(j) /\ Hosted(t) /\ Quiet(t) /\ Recovery(t) /\ s \in ThreadState
      /\ Fits(t, s)
  BY Holds, FitsBefore DEF JobTyped
<1>2. ASSUME UNCHANGED <<states, disk, claims>> PROVE \E m : Writes(t, m) /\ Fits(t, m)
  BY <1>1, <1>2 DEF Writes
<1>3. CASE BeginSwitch(t) \/ Renew(t) \/ BeginTransition(t) \/ Abort(t) \/ BeginDeletion(t)
  BY <1>1, <1>3, HardWrites, PatchFits
<1>4. CASE Adopt(t) \/ Complete(t)
  <2>1. j.at \in {"adopt", "complete"}
    BY <1>1, <1>4, AdoptMoves, CompleteMoves
  <2>2. ~Unverified(t)
    BY <2>1 DEF Unverified
  <2>3. Live(t) \subseteq {j.generation}
    BY <1>1, <2>1, <2>2, NoneLoose, LiveTyped DEF Hosted
  <2>4. IsTerminal(s)
    BY <1>1, <2>1 DEF Quiet, Launch
  <2>5. /\ Fits(t, [s EXCEPT !.pid = j.generation])
        /\ Fits(t, Started(s, j.generation, j.generation))
    BY <1>1, <2>3, <2>4 DEF Fits, Plain, Knows, Started, ThreadState, IsTerminal, IsStructured
  <2>6. QED
    BY <1>1, <1>4, <2>5, HardWrites
<1>5. CASE MarkStopped(t) \/ Leave(t) \/ Entomb(t) \/ MakeReady(t)
  <2>1. j.at \in {"stopped", "leave", "entomb", "ready"}
    BY <1>1, <1>5, MarkStoppedMoves, LeaveMoves, EntombMoves, MakeReadyMoves
  <2>2. ~Unverified(t) /\ host[t] = Null
    BY <1>1, <2>1 DEF Unverified, Hosted
  <2>3. Live(t) = {}
    BY <2>2, NoneLoose
  <2>4. /\ Fits(t, StoppedPatch(s)) /\ \A r, st : Fits(t, Structured(r, st))
    BY <1>1, <2>3, EmptyFits DEF Fits
  <2>5. QED
    BY <1>1, <1>5, <2>4, HardWrites DEF Restoring
<1>6. CASE Mark(t)
  <2>1. j.at = "mark" /\ j.recovery
    BY <1>1, <1>6, MarkMoves DEF Shape
  <2>2. CASE u.status = "stopping"
    <3>1. host[t] = Null /\ ~Unverified(t)
      BY <1>1, <2>1, <2>2 DEF Recovery, Unverified
    <3>2. Fits(t, StoppedPatch(s))
      BY <1>1, <3>1, NoneLoose, EmptyFits DEF Fits
    <3>3. Writes(t, StoppedPatch(s))
      BY <1>1, <1>6, <2>2, MarkMoves DEF Calls, Writes, authority
    <3>4. QED
      BY <3>2, <3>3
  <2>3. CASE u.status # "stopping"
    <3>1. Writes(t, [s EXCEPT !.status = "exited", !.turn = FALSE])
      BY <1>1, <1>6, <2>3, MarkMoves DEF Calls, Writes, authority
    <3>2. QED
      BY <3>1, PatchFits
  <2>4. QED
    BY <2>2, <2>3
<1>7. CASE BeginFence(t) \/ Release(t)
  <2>1. IsStructured(s) \/ UNCHANGED <<states, disk, claims>>
    BY <1>1, <1>7, BeginFenceMoves, ReleaseMoves DEF Calls, authority, CanCompleteStructuredStop
  <2>2. CASE IsStructured(s)
    <3>1. \A r, st : Fits(t, Structured(r, st))
      BY <2>2, NoneAlive, EmptyFits
    <3>2. QED
      BY <1>1, <1>7, <3>1, HardWrites
  <2>3. QED
    BY <1>2, <2>1, <2>2
<1>8. CASE FinalizeDeletion(t)
  <2>1. IsStructured(s)
    BY <1>8 DEF FinalizeDeletion, Tombstone
  <2>2. Fits(t, DefaultState)
    BY <2>1, NoneAlive, EmptyFits DEF DefaultState
  <2>3. QED
    BY <1>1, <1>8, <2>2, HardWrites
<1>9. CASE RecoverStructured(t)
  <2>1. \/ UNCHANGED <<states, disk, claims>>
        \/ Writes(t, DeletionBegun(s))
        \/ IsStructured(s) /\ Writes(t, Structured(u.revision, "ready"))
    BY <1>9 DEF RecoverStructured, Attempt, Writes, authority, CanCompleteStructuredStop,
                CanCompleteStructuredRestore
  <2>2. CASE IsStructured(s) /\ Writes(t, Structured(u.revision, "ready"))
    BY <2>2, NoneAlive, EmptyFits
  <2>3. QED
    BY <1>2, <2>1, <2>2, PatchFits
<1>10. CASE \E e \in exits : e.thread = t /\ PatchExit(e)
  <2>1. UNCHANGED <<states, disk, claims>> \/ Writes(t, [s EXCEPT !.status = "exited"])
    BY <1>1, <1>10, HardWrites
  <2>2. QED
    BY <1>2, <2>1, PatchFits
<1>11. QED
  BY <1>3, <1>4, <1>5, <1>6, <1>7, <1>8, <1>9, <1>10, Hard(t) DEF Hard, HardJobStep

LEMMA FitsAfter ==
  ASSUME CoordinatorInv, NEW t \in Thread, Moves(t)
  PROVE  Fits(t, states'[t]) /\ Fits(t, disk'[t])
<1>1. TypeOK
  BY DEF CoordinatorInv, Inv
<1>2. CASE Soft(t)
  BY <1>2, FitsBefore, PatchFits DEF Soft
<1>3. CASE Hard(t)
  BY <1>1, <1>3, FitsBefore, HardFits, WritesOne
<1>4. QED
  BY <1>2, <1>3, SoftOrHard

(* The end of a process in the table: g is gone, or its leader is. *)
LEMMA EndsProcess ==
  ASSUME CoordinatorType, NEW t \in Thread, NEW g \in Generation, NEW how \in {"headless", "gone"},
         Ends(t, g, how)
  PROVE  \A h \in Generation : process'[t][h] = IF h = g THEN how ELSE process[t][h]
<1>1. process' = [process EXCEPT ![t][g] = how]
  BY DEF Ends
<1>2. QED
  BY <1>1 DEF CoordinatorType

(* Nothing comes to life but by a spawn, and what leaves the host is dead. *)
LEMMA ProcessesEnd ==
  ASSUME CoordinatorInv, NEW t \in Thread, Moves(t), ~Spawn(t)
  PROVE  /\ \A h \in Generation : process'[t][h] \in {"running", "headless"} =>
              process[t][h] \in {"running", "headless"}
         /\ host'[t] # host[t] => host'[t] = Null /\ process'[t][host[t]] = "gone"
<1> DEFINE j == job[t]
<1>1. CoordinatorType /\ JobTyped(t) /\ Pid = Generation
  BY Holds, OneNamePerProcess DEF CoordinatorInv
<1>2. process \in [Thread -> [Generation -> {"unborn", "running", "headless", "gone"}]]
      /\ host \in [Thread -> Generation \cup {Null}]
  BY <1>1 DEF CoordinatorType
<1>3. ASSUME NEW g \in Generation, Ends(t, g, "gone"), UNCHANGED host
      PROVE  /\ \A h \in Generation : process'[t][h] \in {"running", "headless"} =>
                  process[t][h] \in {"running", "headless"}
             /\ host'[t] = host[t]
  BY <1>1, <1>3, EndsProcess
<1>4. CASE UNCHANGED <<process, host>>
  BY <1>4
<1>5. CASE Verify(t)
  <2>1. UNCHANGED host
    BY <1>5 DEF Verify
  <2>2. UNCHANGED process \/ (Owner(t).pid # Null /\ Ends(t, Owner(t).pid, "gone"))
    BY <1>1, <1>5, VerifyMoves
  <2>3. Owner(t).pid # Null => Owner(t).pid \in Generation \/ UNCHANGED process
    <3>1. states[t] \in ThreadState /\ Recovery(t) /\ unrecovered[t] \in ThreadState \cup {NoState}
      BY <1>1, Holds DEF CoordinatorType
    <3>2. Owner(t) \in ThreadState
      BY <3>1 DEF Recovery, Owner
    <3>3. QED
      BY <1>1, <3>2 DEF ThreadState
  <2>4. QED
    BY <1>3, <1>4, <2>1, <2>2, <2>3
<1>6. CASE Kill(t)
  <2>1. \/ host[t] = Null /\ UNCHANGED process
        \/ host[t] # Null /\ Ends(t, host[t], "gone")
        \/ UNCHANGED <<process, host>>
    BY <1>1, <1>6, KillMoves
  <2>2. host' = [host EXCEPT ![t] = Null] \/ UNCHANGED <<process, host>>
    BY <1>1, <1>6, KillMoves
  <2>3. CASE host[t] = Null /\ UNCHANGED process
    BY <1>2, <2>2, <2>3
  <2>4. CASE host[t] # Null /\ Ends(t, host[t], "gone")
    <3>1. host[t] \in Generation
      BY <1>2, <2>4
    <3>2. \A h \in Generation : process'[t][h] = IF h = host[t] THEN "gone" ELSE process[t][h]
      BY <1>1, <2>4, <3>1, EndsProcess
    <3>3. host'[t] \in {Null, host[t]}
      BY <1>2, <2>2
    <3>4. QED
      BY <1>2, <3>1, <3>2, <3>3
  <2>5. QED
    BY <1>4, <2>1, <2>3, <2>4
<1>7. CASE ProcessExits(t)
  <2>1. UNCHANGED host
    BY <1>7 DEF ProcessExits
  <2>2. PICK g \in Generation :
          \/ process[t][g] = "running" /\ Ends(t, g, "headless")
          \/ process[t][g] \in {"running", "headless"} /\ Ends(t, g, "gone")
    BY <1>7 DEF ProcessExits
  <2>3. CASE process[t][g] = "running" /\ Ends(t, g, "headless")
    BY <1>1, <2>1, <2>3, EndsProcess
  <2>4. QED
    BY <1>3, <2>1, <2>2, <2>3
<1>8. CASE HostTearsDown(t)
  <2>1. /\ host[t] \in Generation /\ host'[t] = Null
        /\ \A h \in Generation : process'[t][h] = IF h = host[t] THEN "gone" ELSE process[t][h]
    BY <1>2, <1>8 DEF HostTearsDown
  <2>2. QED
    BY <2>1
<1>9. CASE Listen(t) \/ \E e \in exits : e.thread = t /\ (ReadExit(e) \/ PatchExit(e))
  BY <1>4, <1>9 DEF Listen, ReadExit, PatchExit
<1>10. QED
  BY <1>4, <1>5, <1>6, <1>7, <1>8, <1>9, WorldFrame

LEMMA LiveMoves ==
  ASSUME CoordinatorInv, NEW t \in Thread, Moves(t), ~Spawn(t)
  PROVE  Live(t)' \subseteq Live(t) /\ Loose(t)' \subseteq Loose(t)
<1>1. Live(t)' \subseteq Live(t)
  BY ProcessesEnd DEF Live
<1>2. CASE host'[t] = host[t]
  BY <1>1, <1>2 DEF Loose
<1>3. CASE host'[t] # host[t]
  <2>1. host'[t] = Null /\ process'[t][host[t]] = "gone"
    BY <1>3, ProcessesEnd
  <2>2. host[t] \notin Live(t)'
    BY <2>1 DEF Live
  <2>3. QED
    BY <1>1, <2>2 DEF Loose
<1>4. QED
  BY <1>1, <1>2, <1>3

(* A launch spawns where nothing lives. *)
LEMMA SpawnsAlone ==
  ASSUME CoordinatorInv, NEW t \in Thread, Spawn(t)
  PROVE  /\ Live(t) = {} /\ Loose(t)' = {} /\ UNCHANGED authority
         /\ \A g, h \in Live(t)' : g = h
<1>1. JobTyped(t) /\ Hosted(t) /\ UNCHANGED authority /\ CoordinatorType
  BY Holds DEF Spawn, CoordinatorInv
<1>2. job[t].at = "spawn"
  BY <1>1, SpawnMoves
<1>3. ~Unverified(t) /\ host[t] = Null
  BY <1>1, <1>2 DEF Unverified, Hosted
<1>4. Live(t) = {}
  BY <1>3, NoneLoose
<1>5. \/ UNCHANGED <<process, host>>
      \/ \E g \in Generation : \E how \in {"running", "headless"} :
           process' = [process EXCEPT ![t][g] = how] /\ host' = [host EXCEPT ![t] = g]
  BY <1>1, SpawnMoves DEF Fresh
<1>6. CASE UNCHANGED <<process, host>>
  BY <1>1, <1>4, <1>6 DEF Live, Loose
<1>7. CASE \E g \in Generation : \E how \in {"running", "headless"} :
             process' = [process EXCEPT ![t][g] = how] /\ host' = [host EXCEPT ![t] = g]
  <2>1. PICK g \in Generation : \E how \in {"running", "headless"} :
             process' = [process EXCEPT ![t][g] = how] /\ host' = [host EXCEPT ![t] = g]
    BY <1>7
  <2>2. /\ \A h \in Generation \ {g} : process'[t][h] = process[t][h]
        /\ host'[t] = g
    BY <1>1, <2>1 DEF CoordinatorType
  <2>3. Live(t)' \subseteq {g}
    BY <1>4, <2>2 DEF Live
  <2>4. QED
    BY <1>1, <1>4, <2>2, <2>3 DEF Loose
<1>8. QED
  BY <1>5, <1>6, <1>7

(* Which step a job takes where it has not made sure yet. *)
LEMMA StepsUnverified ==
  ASSUME NEW t \in Thread, JobTyped(t), JobStep(t), Unverified(t)
  PROVE  \/ Verify(t) \/ RecoveryFailed(t) \/ RecoveryMissed(t) \/ Finish(t)
         \/ Enter(t) /\ job[t].op = "stop"
         \/ Mark(t) /\ unrecovered[t].status # "stopping"
<1> DEFINE j == job[t]
<1>1. j.at \in {"idle", "verify", "failed", "missed", "enter", "mark", "finish"}
  BY DEF Unverified
<1>2. ~ \/ Quiesce(t) \/ Lookup(t) \/ BeginSwitch(t) \/ Suspend(t) \/ Prepare(t)
        \/ Spawn(t) \/ Adopt(t) \/ Listen(t) \/ Probe(t) \/ Complete(t)
        \/ Check(t) \/ Abort(t) \/ Settle(t)
  BY <1>1 DEF Quiesce, Lookup, BeginSwitch, Suspend, Prepare, Spawn, Adopt, Listen, Probe,
              Complete, Check, Abort, Settle
<1>3. ~ \/ BeginTransition(t) \/ Kill(t) \/ Blocked(t)
        \/ Renew(t) \/ MarkStopped(t) \/ Leave(t) \/ Resume(t) \/ MakeReady(t)
        \/ BeginFence(t) \/ Drain(t) \/ StopSession(t) \/ Release(t)
        \/ BeginDeletion(t) \/ Entomb(t)
  BY <1>1 DEF BeginTransition, Kill, Blocked, Renew, MarkStopped, Leave, Resume, MakeReady,
              BeginFence, Drain, StopSession, Release, BeginDeletion, Entomb
<1>4. Enter(t) => j.op = "stop"
  BY DEF Unverified, Enter
<1>5. Mark(t) => unrecovered[t].status # "stopping"
  BY DEF Unverified, Mark
<1>6. QED
  BY <1>2, <1>3, <1>4, <1>5, JobStep(t) DEF JobStep

(* Verification leaves nothing of an earlier server alive, or fails. *)
LEMMA VerifyLeavesNothing ==
  ASSUME CoordinatorInv, NEW t \in Thread, Verify(t), Loose(t)' # {}
  PROVE  job'[t].at \in {"failed", "idle"}
<1> DEFINE j == job[t]
           o == Owner(t)
<1>1. /\ JobTyped(t) /\ Known(t) /\ Recovery(t) /\ CoordinatorType /\ Pid = Generation
      /\ states[t] \in ThreadState /\ unrecovered[t] \in ThreadState \cup {NoState}
  BY Holds, OneNamePerProcess DEF CoordinatorInv, CoordinatorType
<1>2. Moves(t) /\ ~Spawn(t) /\ UNCHANGED host
  BY DEF Moves, JobStep, Verify, Spawn
<1>3. Loose(t) # {} /\ host[t] = Null /\ ~owned[t] /\ Loose(t) = Live(t)
  BY <1>1, <1>2, LiveMoves, LiveTyped DEF Known
<1>4. o \in ThreadState /\ \A g \in Live(t) : Knows(o, g)
  BY <1>1, <1>3 DEF Owner, Known, Recovery
<1>5. ~NothingToVerify(t)
  <2>1. ~IsStructured(states[t])
    BY <1>3, NoneAlive
  <2>2. ~StoppedForGood(o)
    BY <1>3, <1>4, LiveTyped DEF StoppedForGood, Knows
  <2>3. QED
    BY <1>3, <2>1, <2>2 DEF NothingToVerify
<1>6. ~(o.pid # Null /\ Ends(t, o.pid, "gone"))
  <2>1. SUFFICES ASSUME o.pid # Null, Ends(t, o.pid, "gone") PROVE FALSE
    OBVIOUS
  <2>2. o.pid \in Generation
    BY <1>1, <1>4, <2>1 DEF ThreadState
  <2>3. process'[t][o.pid] = "gone"
    BY <1>1, <2>1, <2>2, EndsProcess
  <2>4. Live(t) \subseteq {o.pid}
    BY <1>4, <2>1 DEF Knows
  <2>5. o.pid \notin Live(t)'
    BY <2>3 DEF Live
  <2>6. Live(t)' = {}
    BY <1>2, <2>4, <2>5, LiveMoves
  <2>7. QED
    BY <2>6 DEF Loose
<1>7. (j.recovery /\ Goes(j, job'[t], "failed")) \/ job'[t] = NoJob
  BY <1>1, <1>5, <1>6, VerifyMoves
<1>8. QED
  BY <1>7 DEF Goes, NoJob

LEMMA StillUnverified ==
  ASSUME CoordinatorInv, NEW t \in Thread, Moves(t), Loose(t)' # {}
  PROVE  Unverified(t)'
<1> DEFINE j == job[t]
           k == job'[t]
<1>1. /\ JobTyped(t) /\ Shape(j) /\ Known(t) /\ Recovery(t) /\ NoJob.at = "idle"
  BY Holds DEF JobTyped, NoJob
<1>2. ~Spawn(t)
  BY SpawnsAlone
<1>3. Loose(t) # {} /\ Live(t) # {} /\ Unverified(t)
  BY <1>1, <1>2, LiveMoves DEF Known, Loose
<1>4. ~IsStructured(states[t]) /\ IsTerminal(states[t])
  BY <1>1, <1>3, NoneAlive DEF JobTyped, ThreadState, IsStructured, IsTerminal
<1>5. CASE UNCHANGED job
  <2>1. CASE unrecovered'[t] = unrecovered[t]
    BY <1>3, <1>5, <2>1 DEF Unverified
  <2>2. CASE unrecovered'[t] # unrecovered[t]
    <3>1. (Finish(t) /\ j.recovery) \/ RecoverStructured(t) \/ RecoveryMissed(t) \/ ~j.recovery
      BY <2>2, UnrecoveredMoves
    <3>2. j.at # "mark"
      BY <1>1, <3>1, FinishMoves, RecoveryMissedMoves DEF Shape, RecoverStructured, Free
    <3>3. QED
      BY <1>3, <1>5, <3>2 DEF Unverified
  <2>3. QED
    BY <2>1, <2>2
<1>6. CASE JobStep(t)
  <2>1. CASE Verify(t)
    BY <2>1, VerifyLeavesNothing DEF Unverified
  <2>2. CASE RecoveryFailed(t)
    BY <1>1, <2>2, RecoveryFailedMoves DEF Goes, Unverified
  <2>3. CASE RecoveryMissed(t) \/ Finish(t)
    BY <1>1, <2>3, RecoveryMissedMoves, FinishMoves DEF Unverified
  <2>4. CASE Enter(t) /\ j.op = "stop"
    BY <1>1, <1>4, <2>4, EnterMoves DEF Goes, Unverified
  <2>5. CASE Mark(t) /\ unrecovered[t].status # "stopping"
    <3>1. Goes(j, k, "verify") \/ Goes(j, k, "missed")
      BY <1>1, <2>5, MarkMoves DEF Calls
    <3>2. QED
      BY <3>1 DEF Goes, Unverified
  <2>6. QED
    BY <1>1, <1>3, <1>6, <2>1, <2>2, <2>3, <2>4, <2>5, StepsUnverified
<1>7. CASE RecoveryTimesOut(t)
  <2>1. Goes(j, To(j, "missed"), "missed") /\ k = To(j, "missed")
    BY <1>1, <1>7, BecomesThat, ToGoes, PlaceNames DEF RecoveryTimesOut, JobTyped
  <2>2. QED
    BY <2>1 DEF Goes, Unverified
<1>8. CASE BeginRestart(t) \/ BeginChat(t) \/ BeginStop(t) \/ BeginDelete(t)
  <2>1. \/ k.op = "stop" /\ k.at = "enter"
        \/ k.at = "verify"
    BY <1>1, <1>8, BeginMoves, PlaceNames
       DEF BeginRestart, BeginChat, BeginStop, BeginDelete, JobTyped, Op
  <2>2. QED
    BY <2>1 DEF Unverified
<1>9. CASE BeginStart(t)
  BY <1>4, <1>9 DEF BeginStart
<1>10. CASE BeginRecovery(t)
  <2>1. k.at = IF unrecovered[t].status = "stopped" /\ k.op = "none" THEN "finish"
               ELSE IF WasInterrupted(unrecovered[t]) THEN "mark" ELSE "verify"
    BY <1>1, <1>10, BeginMoves DEF JobTyped
  <2>2. unrecovered'[t] = unrecovered[t]
    BY <1>10 DEF BeginRecovery, books
  <2>3. QED
    BY <2>1, <2>2 DEF Unverified, WasInterrupted
<1>11. QED
  BY <1>5, <1>6, <1>7, <1>8, <1>9, <1>10, JobFrame

(* The service gets a record of a thread from a launch that has returned. *)
LEMMA OwnedMoves ==
  ASSUME CoordinatorInv, NEW t \in Thread, Moves(t), ~owned[t], Unverified(t)
  PROVE  ~owned'[t]
<1> DEFINE j == job[t]
<1>1. JobTyped(t) /\ owned \in [Thread -> BOOLEAN]
  BY Holds DEF CoordinatorInv, CoordinatorType
<1>2. CASE UNCHANGED books \/ DeleteThread(t) \/ RecoverStructured(t) \/ RecoveryMissed(t)
           \/ RecoveryGivesUp(t)
  BY <1>2 DEF books, DeleteThread, RecoverStructured, RecoveryMissed, RecoveryGivesUp, MarkMissed,
              Recovered
<1>3. ~Settle(t)
  BY DEF Settle, Unverified
<1>4. CASE Finish(t)
  <2>1. j.op = "none"
    BY <1>4 DEF Finish, Unverified
  <2>2. owned' = [owned EXCEPT ![t] = IF j.op = "none" THEN @ ELSE Launching(j)]
    BY <1>4 DEF Finish
  <2>3. QED
    BY <1>1, <2>1, <2>2
<1>5. CASE DropRecord(t)
  BY <1>5 DEF DropRecord
<1>6. CASE BeginAttach(t)
  BY <1>6 DEF BeginAttach
<1>7. QED
  BY <1>2, <1>3, <1>4, <1>5, <1>6, BooksFrame

LEMMA KnownKept ==
  ASSUME CoordinatorInv, NEW t \in Thread, Moves(t) PROVE Known(t)'
<1>1. JobTyped(t) /\ Known(t) /\ Hosted(t)
  BY Holds
<1>2. Fits(t, states'[t]) /\ Fits(t, disk'[t])
  BY FitsAfter
<1>3. CASE Spawn(t)
  <2>1. Loose(t)' = {} /\ UNCHANGED authority /\ \A g, h \in Live(t)' : g = h
    BY <1>3, SpawnsAlone
  <2>2. job[t].at = "spawn"
    BY <1>1, <1>3, SpawnMoves
  <2>3. Awaits(states'[t]) /\ Awaits(disk'[t])
    BY <1>1, <2>1, <2>2 DEF Hosted, authority
  <2>4. \A g : Knows(states'[t], g) /\ Knows(disk'[t], g)
    BY <2>3 DEF Awaits, Knows
  <2>5. QED
    BY <1>2, <2>1, <2>4 DEF Known, Fits
<1>4. CASE ~Spawn(t)
  <2>1. Live(t)' \subseteq Live(t) /\ Loose(t)' \subseteq Loose(t)
    BY <1>4, LiveMoves
  <2>2. \A g \in Live(t)' : Knows(states'[t], g) /\ Knows(disk'[t], g)
    BY <1>2, <2>1 DEF Fits
  <2>3. \A g \in Loose(t)' : unrecovered'[t] # NoState => Knows(unrecovered'[t], g)
    BY <1>1, <2>1, UnrecoveredMoves DEF Known
  <2>4. Loose(t)' # {} => host'[t] = Null /\ ~owned'[t] /\ Unverified(t)'
    BY <1>1, <1>4, <2>1, HostMoves, OwnedMoves, StillUnverified DEF Known
  <2>5. \A g, h \in Live(t)' : g = h
    BY <1>1, <2>1 DEF Known
  <2>6. QED
    BY <1>2, <2>2, <2>3, <2>4, <2>5 DEF Known, Fits
<1>5. QED
  BY <1>3, <1>4

-----------------------------------------------------------------------------
(* Hosted: the host holds no more than the process of the launch               *)

(* What begins, or is timed out, has not got to the transition. *)
LEMMA OtherJobMoves ==
  ASSUME CoordinatorInv, NEW t \in Thread, Moves(t), ~JobStep(t)
  PROVE  UNCHANGED job \/ job'[t].at \in {"enter", "verify", "mark", "finish", "missed"}
<1> DEFINE j == job[t]
<1>1. JobTyped(t)
  BY Holds
<1>2. CASE BeginRecovery(t)
  BY <1>1, <1>2, BeginMoves DEF JobTyped
<1>3. CASE RecoveryTimesOut(t)
  <2>1. Goes(j, To(j, "missed"), "missed") /\ job'[t] = To(j, "missed")
    BY <1>1, <1>3, BecomesThat, ToGoes, PlaceNames DEF RecoveryTimesOut, JobTyped
  <2>2. QED
    BY <2>1 DEF Goes
<1>4. CASE BeginStart(t) \/ BeginRestart(t) \/ BeginChat(t) \/ BeginStop(t) \/ BeginDelete(t)
  BY <1>1, <1>4, BeginMoves, PlaceNames
     DEF BeginStart, BeginRestart, BeginChat, BeginStop, BeginDelete, JobTyped, Op
<1>5. QED
  BY <1>2, <1>3, <1>4, JobFrame

Emptied == {"suspend", "prepare", "spawn", "renew", "leave", "resume", "ready", "stopped", "entomb"}

(* Which step brings a job to a place where the host is empty, or holds what the
   launch has spawned. *)
LEMMA WhoHolds ==
  ASSUME NEW t \in Thread, JobTyped(t), JobStep(t),
         job'[t].at \in Emptied \cup {"adopt", "listen", "probe", "complete"}
  PROVE  LET j == job[t]
             k == job'[t]
             s == states[t] IN
         \/ /\ BeginSwitch(t) /\ k.at \in {"suspend", "prepare"} /\ IsStructured(s)
            /\ Store(t, Starting(s.revision + 1))
         \/ Suspend(t) /\ k.at = "prepare"
         \/ Prepare(t) /\ k.at = "spawn" /\ Store(t, s)
         \/ Spawn(t) /\ k.at = "adopt"
         \/ /\ Adopt(t) \/ Listen(t) \/ Probe(t)
            /\ k.at \in {"listen", "probe", "complete"} /\ k.generation = j.generation
         \/ Renew(t) /\ k.at = "spawn" /\ Store(t, Starting(s.revision + 1))
         \/ /\ Kill(t) /\ k.at \in {"renew", "leave", "stopped", "entomb"}
            /\ host' = [host EXCEPT ![t] = Null]
         \/ Leave(t) /\ k.at \in {"resume", "ready"}
         \/ Resume(t) /\ k.at = "ready"
<1> DEFINE j == job[t]
           k == job'[t]
           s == states[t]
<1>1. NoJob.at = "idle" /\ Shape(j) /\ j \in JobRow
  BY DEF NoJob, JobTyped
<1>2. CASE Verify(t)
  BY <1>1, <1>2, VerifyMoves DEF Goes, Checks, GivesUp, Emptied
<1>3. CASE Mark(t)
  BY <1>3, MarkMoves DEF Goes, Calls, Emptied
<1>4. CASE Quiesce(t) \/ Enter(t) \/ Lookup(t) \/ RecoveryFailed(t)
  BY <1>1, <1>4, QuiesceMoves, EnterMoves, LookupMoves, RecoveryFailedMoves
     DEF Goes, Fails, GivesUp, Emptied
<1>5. CASE BeginSwitch(t)
  BY <1>1, <1>5, BeginSwitchMoves
     DEF Goes, Rises, Calls, Fails, GivesUp, Emptied, ReadyForStructured
<1>6. CASE Renew(t)
  BY <1>1, <1>6, RenewMoves DEF Goes, Rises, Calls, Fails, GivesUp, Emptied
<1>7. CASE Check(t) \/ Settle(t) \/ Complete(t)
  BY <1>1, <1>7, CheckMoves, SettleMoves, CompleteMoves
     DEF Goes, Calls, GivesUp, Returns, Undoes, Kills, Emptied
<1>8. CASE Suspend(t) \/ Prepare(t)
  BY <1>1, <1>8, SuspendMoves, PrepareMoves DEF Goes, Calls, Undoes, Kills, Emptied
<1>9. CASE Spawn(t)
  BY <1>1, <1>9, SpawnMoves DEF Undoes, Kills, Emptied
<1>10. CASE Adopt(t) \/ Listen(t) \/ Probe(t)
  <2>1. ~Undoes(j, k)
    BY DEF Undoes, Kills, Emptied
  <2>2. \E p \in {"listen", "probe", "complete"} : Goes(j, k, p)
    BY <1>1, <1>10, <2>1, AdoptMoves, ListenMoves, ProbeMoves DEF Calls
  <2>3. QED
    BY <1>10, <2>2 DEF Goes
<1>11. CASE Kill(t)
  BY <1>1, <1>11, KillMoves DEF Goes, Fails, GivesUp, Shape, Emptied
<1>12. CASE Leave(t)
  BY <1>1, <1>12, LeaveMoves DEF Goes, Rises, Calls, Fails, GivesUp, Emptied
<1>13. CASE Blocked(t) \/ MarkStopped(t) \/ Resume(t) \/ MakeReady(t)
  BY <1>1, <1>13, BlockedMoves, MarkStoppedMoves, ResumeMoves, MakeReadyMoves
     DEF Goes, Calls, Fails, GivesUp, Returns, Emptied
<1>14. CASE BeginTransition(t) \/ Abort(t) \/ Drain(t)
  BY <1>1, <1>14, BeginTransitionMoves, AbortMoves, DrainMoves
     DEF Goes, Calls, Stops, Fails, GivesUp, Returns, Kills, Emptied
<1>15. CASE \/ BeginFence(t) \/ StopSession(t) \/ BeginDeletion(t) \/ Entomb(t) \/ Release(t)
            \/ RecoveryMissed(t) \/ Finish(t)
  BY <1>1, <1>15, BeginFenceMoves, StopSessionMoves, BeginDeletionMoves, EntombMoves, ReleaseMoves,
     RecoveryMissedMoves, FinishMoves
     DEF Goes, Rises, Calls, Fails, GivesUp, Returns, Emptied
<1>16. QED
  BY <1>2, <1>3, <1>4, <1>5, <1>6, <1>7, <1>8, <1>9, <1>10, <1>11, <1>12, <1>13, <1>14, <1>15,
     JobStep(t) DEF JobStep

(* A listener that is told is told once, and one that is not has a process
   that runs. *)
LEMMA EndsWatch ==
  ASSUME CoordinatorType, NEW t \in Thread, NEW g \in Generation, NEW how \in {"headless", "gone"},
         Ends(t, g, how), watch[t] # 0 => HostAlive(t), host[t] \in Generation \cup {Null}
  PROVE  watch'[t] # 0 => /\ watch'[t] = watch[t] /\ host[t] # Null /\ host[t] # g
                          /\ process'[t][host[t]] = "running"
<1>1. Notify(t, g)
  BY DEF Ends
<1>2. SUFFICES ASSUME watch'[t] # 0
               PROVE  /\ watch'[t] = watch[t] /\ host[t] # Null /\ host[t] # g
                      /\ process'[t][host[t]] = "running"
  OBVIOUS
<1>3. watch \in [Thread -> Nat]
  BY DEF CoordinatorType
<1>4. UNCHANGED watch /\ ~(host[t] = g /\ process[t][g] = "running" /\ watch[t] # 0)
  BY <1>1, <1>2, <1>3 DEF Notify
<1>5. HostAlive(t) /\ host[t] # g /\ host[t] \in Generation
  BY <1>2, <1>4 DEF HostAlive
<1>6. process'[t][host[t]] = process[t][host[t]]
  BY <1>5, EndsProcess
<1>7. QED
  BY <1>4, <1>5, <1>6 DEF HostAlive

LEMMA WatchKept ==
  ASSUME CoordinatorInv, NEW t \in Thread, Moves(t)
  PROVE  /\ watch'[t] # 0 => HostAlive(t)'
         /\ watch'[t] \in {0, watch[t]} \/ (Listen(t) /\ watch'[t] = job[t].revision)
<1>1. /\ JobTyped(t) /\ Hosted(t) /\ CoordinatorType /\ Pid = Generation
      /\ host[t] \in Generation \cup {Null} /\ watch \in [Thread -> Nat]
      /\ watch[t] # 0 => HostAlive(t)
  BY Holds, OneNamePerProcess DEF CoordinatorInv, CoordinatorType, Hosted
<1>2. ASSUME NEW g \in Generation, NEW how \in {"headless", "gone"}, Ends(t, g, how),
             host'[t] = host[t] \/ host[t] = g
      PROVE  (watch'[t] # 0 => HostAlive(t)') /\ watch'[t] \in {0, watch[t]}
  BY <1>1, <1>2, EndsWatch DEF HostAlive
<1>3. CASE UNCHANGED <<process, host, watch, exits>>
  BY <1>1, <1>3 DEF HostAlive
<1>4. CASE Verify(t)
  <2>1. UNCHANGED host
    BY <1>4 DEF Verify
  <2>2. \/ UNCHANGED <<process, exits, watch>>
        \/ Owner(t).pid # Null /\ Ends(t, Owner(t).pid, "gone")
    BY <1>1, <1>4, VerifyMoves
  <2>3. Owner(t) \in ThreadState
    BY <1>1, Holds DEF Owner, Recovery, CoordinatorType
  <2>4. QED
    BY <1>1, <1>2, <1>3, <2>1, <2>2, <2>3 DEF ThreadState
<1>5. CASE Kill(t)
  <2>1. \/ host[t] = Null /\ UNCHANGED <<process, exits, watch>>
        \/ host[t] # Null /\ Ends(t, host[t], "gone")
        \/ UNCHANGED <<process, host, exits, watch>>
    BY <1>1, <1>5, KillMoves
  <2>2. CASE host[t] = Null /\ UNCHANGED <<process, exits, watch>>
    BY <1>1, <2>2 DEF HostAlive
  <2>3. CASE host[t] # Null /\ Ends(t, host[t], "gone")
    BY <1>1, <1>2, <2>3
  <2>4. QED
    BY <1>3, <2>1, <2>2, <2>3
<1>6. CASE Spawn(t)
  <2>1. UNCHANGED <<watch, exits>> /\ job[t].at = "spawn"
    BY <1>1, <1>6, SpawnMoves DEF Spawn
  <2>2. host[t] = Null
    BY <1>1, <2>1 DEF Hosted
  <2>3. QED
    BY <1>1, <2>1, <2>2 DEF HostAlive
<1>7. CASE Listen(t)
  <2>1. UNCHANGED <<process, host>>
    BY <1>7 DEF Listen
  <2>2. \/ HostAlive(t) /\ watch' = [watch EXCEPT ![t] = job[t].revision]
        \/ UNCHANGED watch
    BY <1>1, <1>7, ListenMoves
  <2>3. QED
    BY <1>1, <1>7, <2>1, <2>2 DEF HostAlive
<1>8. CASE ProcessExits(t)
  <2>1. UNCHANGED host /\ \E g \in Generation : Ends(t, g, "headless") \/ Ends(t, g, "gone")
    BY <1>8 DEF ProcessExits
  <2>2. QED
    BY <1>2, <2>1
<1>9. CASE HostTearsDown(t)
  <2>1. watch'[t] = 0
    BY <1>1, <1>9 DEF HostTearsDown
  <2>2. QED
    BY <2>1
<1>10. CASE \E e \in exits : e.thread = t /\ (ReadExit(e) \/ PatchExit(e))
  BY <1>1, <1>10 DEF ReadExit, PatchExit, HostAlive
<1>11. QED
  BY <1>3, <1>4, <1>5, <1>6, <1>7, <1>8, <1>9, <1>10, WorldFrame

(* While a launch is being prepared its state waits for a process. *)
Waits(t) ==
  Awaits(states[t]) /\ Awaits(disk[t]) /\ states[t].status # "exited"

LEMMA WaitsOn ==
  ASSUME CoordinatorInv, NEW t \in Thread, Moves(t), Waits(t), Soft(t)
  PROVE  Waits(t)'
BY DEF Waits, Awaits, Soft, Like, IsTerminal

LEMMA WaitsKept ==
  ASSUME CoordinatorInv, NEW t \in Thread, Moves(t), job'[t].at \in {"suspend", "prepare", "spawn"}
  PROVE  Waits(t)'
<1> DEFINE s == states[t]
           j == job[t]
           k == job'[t]
<1>1. /\ JobTyped(t) /\ Shape(j) /\ Hosted(t) /\ Told(t) /\ s \in ThreadState /\ TypeOK
      /\ s.revision \in Nat
  BY Holds DEF JobTyped, CoordinatorInv, Inv
<1>2. j.at \in {"suspend", "prepare", "spawn"} => Waits(t)
  BY <1>1 DEF Hosted, Waits
<1>3. CASE JobStep(t)
  <2>1. \/ Store(t, Starting(s.revision + 1))
        \/ Suspend(t)
        \/ Prepare(t) /\ Store(t, s)
    BY <1>1, <1>3, WhoHolds DEF Emptied
  <2>2. CASE Store(t, Starting(s.revision + 1))
    <3>1. states'[t] = Starting(s.revision + 1) /\ disk'[t] = Starting(s.revision + 1)
      BY <1>1, <2>2, WritesAt
    <3>2. QED
      BY <3>1 DEF Starting, Waits, Awaits, IsTerminal
  <2>3. CASE Suspend(t)
    <3>1. Waits(t) /\ UNCHANGED authority
      BY <1>1, <1>2, <2>3, SuspendMoves DEF Suspend
    <3>2. QED
      BY <3>1 DEF Waits, authority
  <2>4. CASE Prepare(t) /\ Store(t, s)
    <3>1. Waits(t)
      BY <1>1, <1>2, <2>4, PrepareMoves
    <3>2. states'[t] = s /\ disk'[t] = s
      BY <1>1, <2>4, WritesAt
    <3>3. QED
      BY <3>1, <3>2 DEF Waits
  <2>5. QED
    BY <2>1, <2>2, <2>3, <2>4
<1>4. CASE ~JobStep(t)
  <2>1. UNCHANGED job
    BY <1>4, OtherJobMoves
  <2>2. Waits(t) /\ j # NoJob /\ k = j
    BY <1>2, <2>1 DEF NoJob
  <2>3. CASE \E e \in exits : e.thread = t /\ PatchExit(e)
    <3>1. PICK e \in exits : e.thread = t /\ PatchExit(e)
      BY <2>3
    <3>2. e.revision < s.revision
      BY <1>1, <2>1, <3>1 DEF Told
    <3>3. e.revision \in Nat
      BY <3>1 DEF CoordinatorInv, CoordinatorType, Exit
    <3>4. UNCHANGED authority
      BY <1>1, <3>1, <3>2, <3>3 DEF PatchExit, CanUpdateTerminal
    <3>5. QED
      BY <2>2, <3>4 DEF Waits, authority
  <2>4. ~FinalizeDeletion(t) /\ ~RecoverStructured(t) /\ ~HardJobStep(t)
    BY <1>4, <2>2 DEF FinalizeDeletion, RecoverStructured, Free, Tombstone, Waits, Awaits, IsStructured,
                      IsTerminal, HardJobStep, JobStep
  <2>5. QED
    BY <2>2, <2>3, <2>4, SoftOrHard, WaitsOn DEF Hard
<1>5. QED
  BY <1>3, <1>4

(* A thread is structured or stopped for good only after its host was emptied. *)
LEMMA EmptiedBefore ==
  ASSUME CoordinatorInv, NEW t \in Thread, Moves(t),
         IsStructured(states'[t]) \/ StoppedForGood(states'[t])
  PROVE  host[t] = Null
<1> DEFINE s == states[t]
           j == job[t]
           m == states'[t]
<1>1. /\ JobTyped(t) /\ Shape(j) /\ Hosted(t) /\ Recovery(t) /\ s \in ThreadState /\ TypeOK
      /\ Null \notin Generation
  BY Holds, NullAssumption DEF JobTyped, CoordinatorInv, Inv
<1>2. SUFFICES ASSUME IsTerminal(s), ~StoppedForGood(s) PROVE host[t] = Null
  BY <1>1 DEF Hosted, IsStructured, IsTerminal, ThreadState
<1>3. ~IsStructured(s)
  BY <1>2 DEF IsTerminal, IsStructured
<1>4. m # s
  BY <1>2, <1>3
<1>5. ~Soft(t)
  BY <1>2, <1>3 DEF Soft, Like, StoppedForGood, IsTerminal, IsStructured
<1>6. Hard(t)
  BY <1>5, SoftOrHard
<1>7. ~BeginSwitch(t) /\ ~Renew(t)
  <2>1. ASSUME m = Starting(s.revision + 1) PROVE FALSE
    BY <2>1 DEF Starting, StoppedForGood, IsStructured
  <2>2. QED
    BY <1>1, <1>4, <2>1, HardWrites, WritesOne
<1>8. CASE Adopt(t) \/ Complete(t)
  <2>1. j.generation \in Generation
    BY <1>1, <1>8, AdoptMoves, CompleteMoves DEF Hosted
  <2>2. m \in {[s EXCEPT !.pid = j.generation], Started(s, j.generation, j.generation)}
    BY <1>1, <1>4, <1>8, HardWrites, WritesOne
  <2>3. QED
    BY <1>1, <1>2, <2>1, <2>2 DEF Started, StoppedForGood, IsStructured, IsTerminal, ThreadState
<1>9. CASE BeginTransition(t) \/ Abort(t)
  <2>1. m = Stopping(s)
    BY <1>1, <1>4, <1>9, HardWrites, WritesOne
  <2>2. QED
    BY <1>1, <1>2, <2>1 DEF Stopping, StoppedForGood, IsStructured, IsTerminal, ThreadState
<1>10. CASE MarkStopped(t) \/ Leave(t) \/ Entomb(t) \/ MakeReady(t)
  BY <1>1, <1>10, MarkStoppedMoves, LeaveMoves, EntombMoves, MakeReadyMoves DEF Hosted
<1>11. CASE Mark(t)
  BY <1>1, <1>11, MarkMoves DEF Shape, Recovery
<1>12. ~BeginFence(t) /\ ~Release(t) /\ ~FinalizeDeletion(t)
  <2>1. BeginFence(t) => IsStructured(s)
    BY <1>1, BeginFenceMoves
  <2>2. Release(t) => UNCHANGED states
    BY <1>1, <1>3, ReleaseMoves DEF Calls, authority, CanCompleteStructuredStop
  <2>3. FinalizeDeletion(t) => IsStructured(s)
    BY DEF FinalizeDeletion, Tombstone
  <2>4. QED
    BY <1>3, <1>4, <2>1, <2>2, <2>3
<1>13. ~BeginDeletion(t)
  <2>1. ASSUME m = DeletionBegun(s) PROVE FALSE
    BY <1>1, <1>2, <1>3, <2>1 DEF DeletionBegun, StoppedForGood, IsStructured, IsTerminal, ThreadState
  <2>2. QED
    BY <1>1, <1>4, <2>1, HardWrites, WritesOne
<1>14. CASE RecoverStructured(t)
  BY <1>1, <1>14 DEF RecoverStructured, Free, NoJob, Recovery
<1>15. ~\E e \in exits : e.thread = t /\ PatchExit(e)
  <2>1. ASSUME m = [s EXCEPT !.status = "exited"] PROVE FALSE
    BY <1>1, <1>2, <2>1 DEF StoppedForGood, IsStructured, IsTerminal, ThreadState
  <2>2. QED
    BY <1>1, <1>4, <2>1, HardWrites, WritesOne
<1>16. QED
  BY <1>6, <1>7, <1>8, <1>9, <1>10, <1>11, <1>12, <1>13, <1>14, <1>15 DEF Hard, HardJobStep

LEMMA HostedKept ==
  ASSUME CoordinatorInv, NEW t \in Thread, Moves(t) PROVE Hosted(t)'
<1> DEFINE s == states[t]
           j == job[t]
           k == job'[t]
<1>1. JobTyped(t) /\ Hosted(t) /\ CoordinatorType
  BY Holds DEF CoordinatorInv
<1>2. IsStructured(states'[t]) \/ StoppedForGood(states'[t]) => host'[t] = Null
  <2>1. SUFFICES ASSUME IsStructured(states'[t]) \/ StoppedForGood(states'[t]) PROVE host'[t] = Null
    OBVIOUS
  <2>2. host[t] = Null
    BY <2>1, EmptiedBefore
  <2>3. ~Spawn(t)
    <3>1. SUFFICES ASSUME Spawn(t) PROVE FALSE
      OBVIOUS
    <3>2. j.at = "spawn" /\ states' = states
      BY <1>1, <3>1, SpawnMoves DEF Spawn, authority
    <3>3. Awaits(states'[t])
      BY <1>1, <3>2 DEF Hosted
    <3>4. QED
      BY <2>1, <3>3 DEF Awaits, IsTerminal, IsStructured, StoppedForGood
  <2>4. QED
    BY <2>2, <2>3, HostMoves
<1>3. k.at \in Emptied => host'[t] = Null
  <2>1. SUFFICES ASSUME k.at \in Emptied PROVE host'[t] = Null
    OBVIOUS
  <2>2. CASE JobStep(t)
    <3>1. ~Spawn(t)
      BY <1>1, <2>1, SpawnMoves DEF Undoes, Kills, Emptied
    <3>2. \/ IsStructured(s) \/ j.at \in Emptied
          \/ host' = [host EXCEPT ![t] = Null]
      <4>1. CASE \/ BeginSwitch(t) /\ IsStructured(s)
                 \/ Kill(t) /\ host' = [host EXCEPT ![t] = Null]
        BY <4>1
      <4>2. CASE Suspend(t) \/ Prepare(t) \/ Renew(t) \/ Leave(t) \/ Resume(t)
        BY <1>1, <4>2, SuspendMoves, PrepareMoves, RenewMoves, LeaveMoves, ResumeMoves DEF Emptied
      <4>3. QED
        BY <1>1, <2>1, <2>2, <3>1, <4>1, <4>2, WhoHolds DEF Emptied
    <3>3. host[t] = Null \/ host' = [host EXCEPT ![t] = Null]
      BY <1>1, <3>2 DEF Hosted, Emptied
    <3>4. QED
      BY <1>1, <3>1, <3>3, HostMoves DEF CoordinatorType
  <2>3. CASE ~JobStep(t)
    <3>1. j.at \in Emptied /\ ~Spawn(t)
      BY <2>1, <2>3, OtherJobMoves DEF Emptied, JobStep
    <3>2. host[t] = Null
      BY <1>1, <3>1 DEF Hosted, Emptied
    <3>3. QED
      BY <3>1, <3>2, HostMoves
  <2>4. QED
    BY <2>2, <2>3
<1>4. k.at \in {"adopt", "listen", "probe", "complete"} =>
        k.generation \in Generation /\ host'[t] \in {Null, k.generation}
  <2>1. SUFFICES ASSUME k.at \in {"adopt", "listen", "probe", "complete"}
                 PROVE  k.generation \in Generation /\ host'[t] \in {Null, k.generation}
    OBVIOUS
  <2>2. CASE JobStep(t)
    <3>1. \/ Spawn(t) /\ k.at = "adopt"
          \/ (Adopt(t) \/ Listen(t) \/ Probe(t)) /\ k.generation = j.generation
      BY <1>1, <2>1, <2>2, WhoHolds
    <3>2. CASE Spawn(t) /\ k.at = "adopt"
      <4>1. \E g \in Generation : host' = [host EXCEPT ![t] = g] /\ k.generation = g
        BY <1>1, <3>2, SpawnMoves DEF Fresh, Undoes, Kills
      <4>2. QED
        BY <1>1, <4>1 DEF CoordinatorType
    <3>3. CASE (Adopt(t) \/ Listen(t) \/ Probe(t)) /\ k.generation = j.generation
      <4>1. j.at \in {"adopt", "listen", "probe"} /\ ~Spawn(t)
        BY <1>1, <3>3, AdoptMoves, ListenMoves, ProbeMoves, SpawnMoves
      <4>2. QED
        BY <1>1, <3>3, <4>1, HostMoves DEF Hosted
    <3>4. QED
      BY <3>1, <3>2, <3>3
  <2>3. CASE ~JobStep(t)
    <3>1. k = j /\ ~Spawn(t)
      BY <2>1, <2>3, OtherJobMoves DEF JobStep
    <3>2. QED
      BY <1>1, <2>1, <3>1, HostMoves DEF Hosted
  <2>4. QED
    BY <2>2, <2>3
<1>5. k.at \in {"suspend", "prepare", "spawn"} => Waits(t)'
  BY WaitsKept
<1>6. watch'[t] # 0 => HostAlive(t)'
  BY WatchKept
<1>7. QED
  BY <1>2, <1>3, <1>4, <1>5, <1>6 DEF Hosted, Waits, Emptied

-----------------------------------------------------------------------------
(* Told: an exit is told to the epoch whose process it was                     *)

(* The revision falls when a thread is forgotten, and rises with every change
   of the side but the last of a way back. *)
LEMMA RevisionMoves ==
  ASSUME CoordinatorInv, NEW t \in Thread, Moves(t)
  PROVE  LET s == states[t]
             m == states'[t] IN
         \/ m.revision = s.revision /\ (IsTerminal(m) => IsTerminal(s))
         \/ m.revision > s.revision /\ (IsTerminal(m) => BeginSwitch(t) \/ Renew(t))
         \/ FinalizeDeletion(t) /\ ~IsTerminal(m)
<1> DEFINE s == states[t]
           j == job[t]
           m == states'[t]
           Fine == \/ m.revision = s.revision /\ (IsTerminal(m) => IsTerminal(s))
                   \/ m.revision > s.revision /\ (IsTerminal(m) => BeginSwitch(t) \/ Renew(t))
                   \/ FinalizeDeletion(t) /\ ~IsTerminal(m)
<1>1. /\ JobTyped(t) /\ s \in ThreadState /\ TypeOK /\ s.revision \in Nat
      /\ j.revision \in Nat
  BY Holds DEF JobTyped, JobRow, CoordinatorInv, Inv
<1>2. m = s => Fine
  OBVIOUS
<1>3. CASE Soft(t)
  BY <1>3 DEF Soft, Like, IsTerminal
<1>4. \A r, st : Structured(r, st).revision = r /\ ~IsTerminal(Structured(r, st))
  BY DEF Structured, IsTerminal
<1>5. CASE BeginSwitch(t) \/ Renew(t)
  <2>1. m \in {s, Starting(s.revision + 1)}
    BY <1>1, <1>5, HardWrites, WritesOne
  <2>2. Starting(s.revision + 1).revision = s.revision + 1
    BY DEF Starting
  <2>3. QED
    BY <1>1, <1>2, <1>5, <2>1, <2>2
<1>6. CASE \/ Adopt(t) \/ Complete(t) \/ BeginTransition(t) \/ Abort(t) \/ MarkStopped(t) \/ Mark(t)
           \/ \E e \in exits : e.thread = t /\ PatchExit(e)
  <2>1. m \in {s, [s EXCEPT !.pid = j.generation], Started(s, j.generation, j.generation), Stopping(s),
               StoppedPatch(s), [s EXCEPT !.status = "exited", !.turn = FALSE],
               [s EXCEPT !.status = "exited"]}
    <3>1. CASE Adopt(t) \/ Complete(t) \/ BeginTransition(t) \/ Abort(t)
      BY <1>1, <3>1, HardWrites, WritesOne
    <3>2. CASE MarkStopped(t) \/ Mark(t)
      BY <1>1, <3>2, HardWrites, WritesOne
    <3>3. CASE \E e \in exits : e.thread = t /\ PatchExit(e)
      BY <1>1, <3>3, HardWrites, WritesOne
    <3>4. QED
      BY <1>6, <3>1, <3>2, <3>3
  <2>2. m.revision = s.revision /\ m.adapter = s.adapter
    BY <1>1, <2>1 DEF Started, Stopping, StoppedPatch, ThreadState
  <2>3. QED
    BY <2>2 DEF IsTerminal
<1>7. CASE Leave(t) \/ BeginFence(t)
  <2>1. m \in {s, Restoring(s), Structured(s.revision + 1, "stopping")}
    BY <1>1, <1>7, HardWrites, WritesOne
  <2>2. QED
    BY <1>1, <1>2, <1>4, <2>1 DEF Restoring
<1>8. CASE MakeReady(t) \/ Release(t) \/ Entomb(t)
  <2>1. \/ UNCHANGED states
        \/ j.revision = s.revision
    BY <1>1, <1>8, MakeReadyMoves, ReleaseMoves, EntombMoves
       DEF Calls, authority, StoreFails, CanCompleteStructuredRestore, CanCompleteStructuredStop,
           CanCompleteTerminalDeletion
  <2>2. m \in {s, Structured(j.revision, "ready"), Structured(j.revision + 1, "deleting")}
    BY <1>1, <1>8, HardWrites, WritesOne
  <2>3. QED
    BY <1>1, <1>2, <1>4, <2>1, <2>2
<1>9. ASSUME m \in {s, DeletionBegun(s)} PROVE Fine
  BY <1>1, <1>4, <1>9 DEF DeletionBegun, ThreadState, IsTerminal
<1>10. CASE BeginDeletion(t)
  BY <1>1, <1>9, <1>10, HardWrites, WritesOne
<1>11. CASE RecoverStructured(t)
  <2>1. \/ UNCHANGED states
        \/ Writes(t, DeletionBegun(s))
        \/ s.revision = unrecovered[t].revision /\ Writes(t, Structured(unrecovered[t].revision, "ready"))
    BY <1>11 DEF RecoverStructured, Attempt, Writes, authority, CanCompleteStructuredStop,
                 CanCompleteStructuredRestore
  <2>2. CASE Writes(t, DeletionBegun(s))
    BY <1>1, <1>9, <2>2, WritesOne
  <2>3. CASE s.revision = unrecovered[t].revision /\ Writes(t, Structured(unrecovered[t].revision, "ready"))
    BY <1>1, <1>2, <1>4, <2>3, WritesOne
  <2>4. QED
    BY <1>2, <2>1, <2>2, <2>3
<1>12. CASE FinalizeDeletion(t)
  <2>1. m \in {s, DefaultState}
    BY <1>1, <1>12, HardWrites, WritesOne
  <2>2. QED
    BY <1>2, <1>4, <1>12, <2>1 DEF DefaultState
<1>13. QED
  BY <1>3, <1>5, <1>6, <1>7, <1>8, <1>10, <1>11, <1>12, SoftOrHard DEF Hard, HardJobStep

(* A thread that was deleted is not launched again. *)
LEMMA DeletedStaysOff ==
  ASSUME CoordinatorInv, NEW t \in Thread, Moves(t), deleted[t]
  PROVE  deleted'[t] /\ (Launching(job'[t]) => Launching(job[t]))
<1> DEFINE j == job[t]
           k == job'[t]
<1>1. JobTyped(t) /\ NoJob.op = "none"
  BY Holds DEF NoJob
<1>2. deleted'[t]
  <2>1. UNCHANGED deleted \/ deleted' = [deleted EXCEPT ![t] = TRUE]
    BY BooksFrame
       DEF books, Settle, Finish, DropRecord, DeleteThread, RecoverStructured, RecoveryMissed,
           RecoveryGivesUp, MarkMissed, Recovered, BeginAttach
  <2>2. QED
    BY <2>1 DEF CoordinatorInv, CoordinatorType
<1>3. CASE JobStep(t)
  BY <1>1, <1>2, <1>3, OperationKept DEF Launching
<1>4. CASE RecoveryTimesOut(t)
  <2>1. Goes(j, To(j, "missed"), "missed") /\ k = To(j, "missed")
    BY <1>1, <1>4, BecomesThat, ToGoes, PlaceNames DEF RecoveryTimesOut, JobTyped
  <2>2. QED
    BY <1>2, <2>1 DEF Goes, Launching
<1>5. CASE BeginChat(t) \/ BeginStop(t) \/ BeginDelete(t)
  <2>1. k.op \in {"chat", "stop", "delete"}
    BY <1>1, <1>5, BeginMoves, PlaceNames DEF BeginChat, BeginStop, BeginDelete, JobTyped, Op
  <2>2. QED
    BY <1>2, <2>1 DEF Launching
<1>6. CASE BeginRecovery(t)
  <2>1. k.op \in RecoveryOps(t, unrecovered[t])
    BY <1>1, <1>6, BeginMoves DEF JobTyped
  <2>2. QED
    BY <1>2, <2>1 DEF RecoveryOps, Launching
<1>7. QED
  BY <1>2, <1>3, <1>4, <1>5, <1>6, JobFrame DEF BeginStart, BeginRestart

(* What has been noted of an epoch is not of a later one, as long as the thread
   is not forgotten. *)
Noted(t, revision) == revision =< states[t].revision \/ (deleted[t] /\ ~Launching(job[t]))

NotedNext(t, revision) ==
  revision =< states'[t].revision \/ (deleted'[t] /\ ~Launching(job'[t]))

LEMMA NotedKept ==
  ASSUME CoordinatorInv, NEW t \in Thread, Moves(t)
  PROVE  \A r \in Nat : Noted(t, r) => NotedNext(t, r)
<1> SUFFICES ASSUME NEW r \in Nat, Noted(t, r) PROVE NotedNext(t, r)
  OBVIOUS
<1>1. Deletion(t) /\ states[t].revision \in Nat /\ states'[t].revision \in Nat
  BY Holds, After
<1>2. CASE FinalizeDeletion(t)
  <2>1. deleted[t] /\ ~Launching(job[t]) /\ UNCHANGED <<job, deleted>>
    BY <1>1, <1>2 DEF FinalizeDeletion, Deletion, books
  <2>2. QED
    BY <2>1 DEF Noted, NotedNext
<1>3. CASE states'[t].revision >= states[t].revision
  <2>1. CASE r =< states[t].revision
    BY <1>1, <1>3, <2>1 DEF NotedNext
  <2>2. CASE deleted[t] /\ ~Launching(job[t])
    BY <2>2, DeletedStaysOff DEF NotedNext
  <2>3. QED
    BY <2>1, <2>2 DEF Noted
<1>4. QED
  BY <1>1, <1>2, <1>3, RevisionMoves

(* A leader that is gone does not run again, and only a spawn runs one. *)
LEMMA LeadersMove ==
  ASSUME CoordinatorInv, NEW t \in Thread, Moves(t), NEW h \in Generation
  PROVE  /\ process[t][h] \in {"headless", "gone"} => process'[t][h] \in {"headless", "gone"}
         /\ process'[t][h] = "running" => process[t][h] = "running" \/ Spawn(t)
<1>1. CoordinatorType /\ JobTyped(t) /\ Pid = Generation
  BY Holds, OneNamePerProcess DEF CoordinatorInv
<1>2. ASSUME NEW g \in Generation, NEW how \in {"headless", "gone"}, Ends(t, g, how)
      PROVE  /\ process[t][h] \in {"headless", "gone"} => process'[t][h] \in {"headless", "gone"}
             /\ process'[t][h] = "running" => process[t][h] = "running"
  BY <1>1, <1>2, EndsProcess
<1>3. CASE UNCHANGED process
  BY <1>3
<1>4. CASE Verify(t)
  <2>1. UNCHANGED process \/ (Owner(t).pid # Null /\ Ends(t, Owner(t).pid, "gone"))
    BY <1>1, <1>4, VerifyMoves
  <2>2. Owner(t) \in ThreadState
    BY <1>1, Holds DEF Owner, Recovery, CoordinatorType
  <2>3. QED
    BY <1>1, <1>2, <1>3, <2>1, <2>2 DEF ThreadState
<1>5. CASE Kill(t)
  <2>1. UNCHANGED process \/ (host[t] # Null /\ Ends(t, host[t], "gone"))
    BY <1>1, <1>5, KillMoves
  <2>2. QED
    BY <1>1, <1>2, <1>3, <2>1 DEF CoordinatorType
<1>6. CASE Spawn(t)
  <2>1. \/ UNCHANGED process
        \/ \E g \in Fresh : \E how \in {"running", "headless"} : process' = [process EXCEPT ![t][g] = how]
    BY <1>1, <1>6, SpawnMoves
  <2>2. CASE \E g \in Fresh : \E how \in {"running", "headless"} : process' = [process EXCEPT ![t][g] = how]
    <3>1. PICK g \in Fresh : \E how \in {"running", "headless"} : process' = [process EXCEPT ![t][g] = how]
      BY <2>2
    <3>2. process[t][g] = "unborn" /\ g \in Generation
      BY <3>1 DEF Fresh
    <3>3. h # g => process'[t][h] = process[t][h]
      BY <1>1, <3>1 DEF CoordinatorType
    <3>4. QED
      BY <1>6, <3>2, <3>3
  <2>3. QED
    BY <1>3, <2>1, <2>2
<1>7. CASE ProcessExits(t)
  BY <1>2, <1>7 DEF ProcessExits
<1>8. CASE HostTearsDown(t)
  <2>1. process' = [process EXCEPT ![t][host[t]] = "gone"]
    BY <1>8 DEF HostTearsDown
  <2>2. process'[t][h] \in {process[t][h], "gone"}
    BY <1>1, <2>1 DEF CoordinatorType
  <2>3. QED
    BY <2>2
<1>9. CASE Listen(t) \/ \E e \in exits : e.thread = t /\ (ReadExit(e) \/ PatchExit(e))
  BY <1>3, <1>9 DEF Listen, ReadExit, PatchExit
<1>10. QED
  BY <1>3, <1>4, <1>5, <1>6, <1>7, <1>8, <1>9, WorldFrame

(* An exit is an old one, read or sent back, or that of the process in the host. *)
OldExit(t, e) ==
  \E f \in exits : f.thread = t /\ f.revision = e.revision /\ f.generation = e.generation

NewExit(t, e) ==
  /\ HostAlive(t) /\ watch[t] # 0 /\ e.revision = watch[t] /\ e.generation = host[t]
  /\ process'[t][host[t]] \in {"headless", "gone"} /\ host'[t] \in {Null, host[t]}
  /\ Verify(t) \/ Kill(t) \/ ProcessExits(t)

LEMMA EndsExits ==
  ASSUME CoordinatorType, NEW t \in Thread, NEW g \in Generation, NEW how \in {"headless", "gone"},
         Ends(t, g, how), NEW e \in exits', e.thread = t, host'[t] \in {Null, host[t]},
         Verify(t) \/ Kill(t) \/ ProcessExits(t)
  PROVE  OldExit(t, e) \/ NewExit(t, e)
<1> DEFINE n == [thread |-> t, revision |-> watch[t], generation |-> g, seen |-> "nothing"]
<1>1. Notify(t, g)
  BY DEF Ends
<1>2. CASE UNCHANGED exits
  BY <1>2 DEF OldExit
<1>3. CASE /\ host[t] = g /\ process[t][g] = "running" /\ watch[t] # 0
           /\ exits' = exits \cup {n}
  <2>1. CASE e \in exits
    BY <2>1 DEF OldExit
  <2>2. CASE e = n
    <3>1. HostAlive(t)
      BY <1>3, NullAssumption DEF HostAlive
    <3>2. process'[t][g] = how
      BY EndsProcess
    <3>3. QED
      BY <1>3, <2>2, <3>1, <3>2 DEF NewExit
  <2>3. QED
    BY <1>3, <2>1, <2>2
<1>4. QED
  BY <1>1, <1>2, <1>3 DEF Notify

LEMMA ExitsMove ==
  ASSUME CoordinatorInv, NEW t \in Thread, Moves(t), NEW e \in exits', e.thread = t
  PROVE  OldExit(t, e) \/ NewExit(t, e)
<1>1. /\ CoordinatorType /\ JobTyped(t) /\ Pid = Generation
      /\ exits \subseteq Exit /\ host[t] \in Generation \cup {Null}
  BY Holds, OneNamePerProcess DEF CoordinatorInv, CoordinatorType
<1>2. CASE UNCHANGED exits
  BY <1>2 DEF OldExit
<1>3. CASE Verify(t)
  <2>1. UNCHANGED exits \/ (Owner(t).pid # Null /\ Ends(t, Owner(t).pid, "gone"))
    BY <1>1, <1>3, VerifyMoves
  <2>2. Owner(t) \in ThreadState /\ UNCHANGED host
    BY <1>1, <1>3, Holds DEF Owner, Recovery, CoordinatorType, Verify
  <2>3. QED
    BY <1>1, <1>2, <1>3, <2>1, <2>2, EndsExits DEF ThreadState
<1>4. CASE Kill(t)
  <2>1. UNCHANGED exits \/ (host[t] # Null /\ Ends(t, host[t], "gone"))
    BY <1>1, <1>4, KillMoves
  <2>2. host'[t] \in {Null, host[t]}
    BY <1>1, <1>4, KillMoves DEF CoordinatorType
  <2>3. QED
    BY <1>1, <1>2, <1>4, <2>1, <2>2, EndsExits
<1>5. CASE ProcessExits(t)
  <2>1. UNCHANGED host /\ \E g \in Generation : Ends(t, g, "headless") \/ Ends(t, g, "gone")
    BY <1>5 DEF ProcessExits
  <2>2. QED
    BY <1>1, <1>5, <2>1, EndsExits
<1>6. CASE \E f \in exits : f.thread = t /\ (ReadExit(f) \/ PatchExit(f))
  <2>1. PICK f \in exits : f.thread = t /\ (ReadExit(f) \/ PatchExit(f))
    BY <1>6
  <2>2. \A v : LET n == [f EXCEPT !.seen = v] IN
          n.thread = t /\ n.revision = f.revision /\ n.generation = f.generation
    BY <1>1, <2>1 DEF Exit
  <2>3. e \in exits \/ \E v : e = [f EXCEPT !.seen = v]
    <3>1. CASE ReadExit(f)
      BY <3>1 DEF ReadExit
    <3>2. CASE PatchExit(f)
      BY <3>2 DEF PatchExit
    <3>3. QED
      BY <2>1, <3>1, <3>2
  <2>4. QED
    BY <2>1, <2>2, <2>3 DEF OldExit
<1>7. CASE Spawn(t) \/ Listen(t) \/ HostTearsDown(t)
  BY <1>2, <1>7 DEF Spawn, Listen, HostTearsDown
<1>8. QED
  BY <1>2, <1>3, <1>4, <1>5, <1>6, <1>7, WorldFrame

(* An epoch is marked as exited at the recovery of its thread, or by an exit. *)
LEMMA ExitedMoves ==
  ASSUME CoordinatorInv, NEW t \in Thread, Moves(t),
         IsTerminal(states'[t]), states'[t].status = "exited"
  PROVE  \/ IsTerminal(states[t]) /\ states[t].status = "exited"
         \/ Mark(t) /\ host[t] = Null
         \/ \E e \in exits : /\ e.thread = t /\ PatchExit(e)
                             /\ e.revision = states[t].revision /\ IsTerminal(states[t])
<1> DEFINE s == states[t]
           j == job[t]
           m == states'[t]
<1>1. /\ JobTyped(t) /\ Shape(j) /\ Recovery(t) /\ s \in ThreadState /\ TypeOK
  BY Holds DEF JobTyped, CoordinatorInv, Inv
<1>2. CASE Soft(t)
  BY <1>2 DEF Soft, Like, IsTerminal, IsStructured
<1>3. CASE Mark(t)
  BY <1>1, <1>3, MarkMoves DEF Shape, Recovery
<1>4. CASE \E e \in exits : e.thread = t /\ PatchExit(e)
  <2>1. PICK e \in exits : e.thread = t /\ PatchExit(e)
    BY <1>4
  <2>2. \/ UNCHANGED states
        \/ e.revision = s.revision /\ IsTerminal(s)
    BY <2>1 DEF PatchExit, CanUpdateTerminal, authority
  <2>3. QED
    BY <2>1, <2>2
<1>5. /\ \A r, st : m # Structured(r, st)
      /\ \A r : m # Starting(r)
      /\ m \notin {Started(s, j.generation, j.generation), Stopping(s), StoppedPatch(s)}
      /\ m = [s EXCEPT !.pid = j.generation] => IsTerminal(s) /\ s.status = "exited"
  <2>1. \A r, st : ~IsTerminal(Structured(r, st))
    BY DEF Structured, IsTerminal
  <2>2. \A r : Starting(r).status = "starting"
    BY DEF Starting
  <2>3. /\ Started(s, j.generation, j.generation).status = "ready"
        /\ Stopping(s).status = "stopping" /\ StoppedPatch(s).status = "stopped"
    BY <1>1 DEF Started, Stopping, StoppedPatch, ThreadState
  <2>4. m = [s EXCEPT !.pid = j.generation] => IsTerminal(s) /\ s.status = "exited"
    BY <1>1 DEF IsTerminal, ThreadState
  <2>5. QED
    BY <2>1, <2>2, <2>3, <2>4
<1>6. CASE BeginSwitch(t) \/ Renew(t) \/ Adopt(t) \/ Complete(t)
  <2>1. \/ Writes(t, Starting(s.revision + 1))
        \/ Writes(t, [s EXCEPT !.pid = j.generation])
        \/ Writes(t, Started(s, j.generation, j.generation))
    BY <1>1, <1>6, HardWrites
  <2>2. \/ m = s \/ m = Starting(s.revision + 1)
        \/ m = [s EXCEPT !.pid = j.generation]
        \/ m = Started(s, j.generation, j.generation)
    BY <1>1, <2>1, WritesOne
  <2>3. QED
    BY <1>5, <2>2
<1>7. CASE BeginTransition(t) \/ Abort(t) \/ MarkStopped(t)
  <2>1. Writes(t, Stopping(s)) \/ Writes(t, StoppedPatch(s))
    BY <1>1, <1>7, HardWrites
  <2>2. m = s \/ m = Stopping(s) \/ m = StoppedPatch(s)
    BY <1>1, <2>1, WritesOne
  <2>3. QED
    BY <1>5, <2>2
<1>8. CASE Leave(t) \/ MakeReady(t) \/ BeginFence(t) \/ Release(t) \/ Entomb(t) \/ FinalizeDeletion(t)
  <2>1. \/ \E r, st : Writes(t, Structured(r, st))
        \/ Writes(t, Restoring(s)) \/ Writes(t, DefaultState)
    BY <1>1, <1>8, HardWrites
  <2>2. \/ \E r, st : m \in {s, Structured(r, st)}
        \/ m \in {s, Restoring(s), DefaultState}
    BY <1>1, <2>1, WritesOne
  <2>3. m = s \/ \E r, st : m = Structured(r, st)
    BY <2>2 DEF Restoring, DefaultState
  <2>4. QED
    BY <1>5, <2>3
<1>9. ASSUME m = DeletionBegun(s) PROVE IsTerminal(s) /\ s.status = "exited"
  BY <1>1, <1>9 DEF DeletionBegun, Structured, IsTerminal, ThreadState
<1>10. CASE BeginDeletion(t)
  BY <1>1, <1>5, <1>9, <1>10, HardWrites, WritesOne
<1>11. CASE RecoverStructured(t)
  <2>1. Writes(t, Structured(unrecovered[t].revision, "ready")) \/ Writes(t, DeletionBegun(s))
    BY <1>1, <1>11, HardWrites
  <2>2. m \in {s, Structured(unrecovered[t].revision, "ready"), DeletionBegun(s)}
    BY <1>1, <2>1, WritesOne
  <2>3. QED
    BY <1>5, <1>9, <2>2
<1>12. QED
  BY <1>2, <1>3, <1>4, <1>6, <1>7, <1>8, <1>10, <1>11, SoftOrHard DEF Hard, HardJobStep

LEMMA ToldKept ==
  ASSUME CoordinatorInv, NEW t \in Thread, Moves(t) PROVE Told(t)'
<1> DEFINE s == states[t]
           m == states'[t]
           j == job[t]
           k == job'[t]
<1>1. /\ JobTyped(t) /\ Shape(j) /\ Told(t) /\ Hosted(t) /\ Quiet(t) /\ s.revision \in Nat
      /\ m.revision \in Nat /\ exits \subseteq Exit /\ watch[t] \in Nat
      /\ host[t] \in Generation \cup {Null} /\ Null \notin Generation
      /\ Noted(t, watch[t]) /\ \A f \in exits : f.thread = t => Noted(t, f.revision)
  BY Holds, After, NullAssumption DEF JobTyped, CoordinatorInv, CoordinatorType, Told, Noted
<1>2. BeginSwitch(t) \/ Renew(t) => Launching(j)
  BY <1>1, BeginSwitchMoves, RenewMoves DEF Shape, Launching
<1>3. NotedNext(t, watch'[t])
  <2>1. CASE watch'[t] = 0
    BY <1>1, <2>1 DEF Noted, NotedNext
  <2>2. CASE watch'[t] = watch[t]
    <3>1. NotedNext(t, watch[t])
      BY <1>1, NotedKept
    <3>2. QED
      BY <2>2, <3>1 DEF Noted, NotedNext
  <2>3. CASE Listen(t) /\ watch'[t] = j.revision
    <3>1. j.at = "listen" /\ UNCHANGED authority
      BY <1>1, <2>3, ListenMoves DEF Listen
    <3>2. j.revision = s.revision /\ m = s
      BY <1>1, <3>1 DEF Quiet, Launch, authority
    <3>3. QED
      BY <1>1, <2>3, <3>2 DEF Noted, NotedNext
  <2>4. QED
    BY <2>1, <2>2, <2>3, WatchKept
<1>4. IsTerminal(m) /\ m.status = "exited" => ~HostAlive(t)'
  <2>1. SUFFICES ASSUME IsTerminal(m), m.status = "exited", HostAlive(t)' PROVE FALSE
    OBVIOUS
  <2>2. ~Spawn(t)
    <3>1. SUFFICES ASSUME Spawn(t) PROVE FALSE
      OBVIOUS
    <3>2. j.at = "spawn" /\ m = s
      BY <1>1, <3>1, SpawnMoves DEF Spawn, authority
    <3>3. QED
      BY <1>1, <2>1, <3>2 DEF Hosted
  <2>3. host'[t] # Null /\ process'[t][host'[t]] = "running"
    BY <2>1 DEF HostAlive
  <2>4. host'[t] = host[t] /\ host[t] # Null /\ host[t] \in Generation
    BY <1>1, <2>2, <2>3, HostMoves
  <2>5. HostAlive(t)
    BY <2>2, <2>3, <2>4, LeadersMove DEF HostAlive
  <2>6. ~(IsTerminal(s) /\ s.status = "exited")
    BY <1>1, <2>5 DEF Told
  <2>7. PICK e \in exits : /\ e.thread = t /\ PatchExit(e)
                           /\ e.revision = s.revision /\ IsTerminal(s)
    BY <2>1, <2>4, <2>6, ExitedMoves
  <2>8. host[t] = e.generation /\ process[t][e.generation] \in {"headless", "gone"}
    BY <1>1, <2>4, <2>7 DEF Told
  <2>9. QED
    BY <2>5, <2>8 DEF HostAlive
<1>5. ASSUME NEW e \in exits', e.thread = t
      PROVE  /\ process'[t][e.generation] \in {"headless", "gone"}
             /\ NotedNext(t, e.revision)
             /\ k.at \in {"suspend", "prepare", "spawn"} => e.revision < m.revision
             /\ e.revision = m.revision /\ IsTerminal(m) => host'[t] \in {Null, e.generation}
  <2>1. CASE NewExit(t, e)
    <3>1. process'[t][e.generation] \in {"headless", "gone"} /\ host'[t] \in {Null, e.generation}
      BY <2>1 DEF NewExit
    <3>2. NotedNext(t, e.revision)
      <4>1. NotedNext(t, watch[t])
        BY <1>1, NotedKept
      <4>2. QED
        BY <2>1, <4>1 DEF NewExit, Noted, NotedNext
    <3>3. ~(k.at \in {"suspend", "prepare", "spawn"})
      <4>1. SUFFICES ASSUME k.at \in {"suspend", "prepare", "spawn"} PROVE FALSE
        OBVIOUS
      <4>2. CASE Verify(t)
        BY <1>1, <4>1, <4>2, VerifyMoves DEF Goes, Checks, GivesUp, NoJob
      <4>3. CASE Kill(t)
        BY <1>1, <4>1, <4>3, KillMoves DEF Goes, Fails, GivesUp, NoJob, Shape
      <4>4. CASE ProcessExits(t)
        <5>1. host[t] = Null
          BY <1>1, <4>1, <4>4 DEF ProcessExits, Hosted
        <5>2. QED
          BY <2>1, <5>1 DEF NewExit, HostAlive
      <4>5. QED
        BY <2>1, <4>2, <4>3, <4>4 DEF NewExit
    <3>4. QED
      BY <3>1, <3>2, <3>3
  <2>2. CASE OldExit(t, e)
    <3>1. PICK f \in exits : f.thread = t /\ f.revision = e.revision /\ f.generation = e.generation
      BY <2>2 DEF OldExit
    <3>2. /\ f.revision \in Nat /\ f.generation \in Generation /\ Noted(t, f.revision)
          /\ process[t][f.generation] \in {"headless", "gone"}
          /\ j.at \in {"suspend", "prepare", "spawn"} => f.revision < s.revision
          /\ f.revision = s.revision /\ IsTerminal(s) => host[t] \in {Null, f.generation}
          /\ Launching(j) => f.revision =< s.revision
      BY <1>1, <3>1 DEF Exit, Told
    <3>3. process'[t][e.generation] \in {"headless", "gone"}
      BY <3>1, <3>2, LeadersMove
    <3>4. NotedNext(t, e.revision)
      <4>1. NotedNext(t, f.revision)
        BY <3>2, NotedKept
      <4>2. QED
        BY <3>1, <4>1 DEF Noted, NotedNext
    <3>5. k.at \in {"suspend", "prepare", "spawn"} => f.revision < m.revision
      <4>1. SUFFICES ASSUME k.at \in {"suspend", "prepare", "spawn"} PROVE f.revision < m.revision
        OBVIOUS
      <4>2. IsTerminal(m)
        BY <4>1, WaitsKept DEF Waits, Awaits
      <4>3. \/ m.revision = s.revision
            \/ m.revision > s.revision /\ Launching(j)
        BY <1>2, <4>2, RevisionMoves
      <4>4. CASE m.revision > s.revision /\ Launching(j)
        BY <1>1, <3>2, <4>4
      <4>5. CASE m.revision = s.revision
        <5>1. CASE JobStep(t)
          <6>1. Store(t, Starting(s.revision + 1)) \/ Suspend(t) \/ Prepare(t)
            BY <1>1, <4>1, <5>1, WhoHolds DEF Emptied
          <6>2. ~Store(t, Starting(s.revision + 1))
            <7>1. Store(t, Starting(s.revision + 1)) => m = Starting(s.revision + 1)
              BY WritesAt DEF CoordinatorInv, Inv
            <7>2. Starting(s.revision + 1).revision = s.revision + 1
              BY DEF Starting
            <7>3. QED
              BY <1>1, <4>5, <7>1, <7>2
          <6>3. j.at \in {"suspend", "prepare"}
            BY <1>1, <6>1, <6>2, SuspendMoves, PrepareMoves
          <6>4. QED
            BY <3>2, <4>5, <6>3
        <5>2. CASE ~JobStep(t)
          BY <3>2, <4>1, <4>5, <5>2, OtherJobMoves
        <5>3. QED
          BY <5>1, <5>2
      <4>6. QED
        BY <4>3, <4>4, <4>5
    <3>6. f.revision = m.revision /\ IsTerminal(m) => host'[t] \in {Null, f.generation}
      <4>1. SUFFICES ASSUME f.revision = m.revision, IsTerminal(m)
                     PROVE  host'[t] \in {Null, f.generation}
        OBVIOUS
      <4>2. m.revision = s.revision /\ IsTerminal(s)
        BY <1>1, <1>2, <3>2, <4>1, RevisionMoves
      <4>3. ~Spawn(t)
        BY <1>1, <3>2, <4>1, <4>2, SpawnMoves
      <4>4. QED
        BY <3>2, <4>1, <4>2, <4>3, HostMoves
    <3>7. QED
      BY <3>1, <3>3, <3>4, <3>5, <3>6
  <2>3. QED
    BY <1>5, <2>1, <2>2, ExitsMove
<1>6. QED
  BY <1>3, <1>4, <1>5 DEF Told, NotedNext

-----------------------------------------------------------------------------
(* The invariant                                                               *)

LEMMA InitHolds == CoordinatorInit => CoordinatorInv
<1> SUFFICES ASSUME CoordinatorInit PROVE CoordinatorInv
  OBVIOUS
<1>1. Inv /\ available /\ ~marker
  BY InitKeeps DEF CoordinatorInit, Init
<1>2. CoordinatorType
  BY NoJobRow, NullAssumption DEF CoordinatorInit, CoordinatorType
<1>3. ASSUME NEW t \in Thread
      PROVE  Shape(job[t]) /\ Steady(t)
  <2>1. /\ states[t] = DefaultState /\ disk[t] = DefaultState /\ NoClaimOn(t)
        /\ job[t] = NoJob /\ host[t] = Null /\ watch[t] = 0 /\ exits = {}
        /\ ~deleted[t] /\ ~owned[t] /\ unrecovered[t] = NoState
    BY DEF CoordinatorInit, Init, AllDefault, NoClaims, NoClaimOn
  <2>2. Live(t) = {} /\ Loose(t) = {} /\ ~HostAlive(t)
    BY <2>1 DEF CoordinatorInit, Live, Loose, HostAlive
  <2>3. /\ DefaultState.adapter = "structured" /\ DefaultState.status = "ready"
        /\ DefaultState.revision = 0 /\ DefaultState.pid = Null
    BY DEF DefaultState, Structured
  <2>4. NoJob.at = "idle" /\ NoJob.op = "none" /\ NoJob.recovery = FALSE
    BY DEF NoJob
  <2>5. Shape(job[t]) /\ HasRoom(t)
    BY <2>1, <2>3, NoJobShape, RoomOfPlace, BoundAssumption DEF HasRoom
  <2>6. Recovery(t) /\ Deletion(t)
    BY <2>1, <2>3, <2>4 DEF Recovery, Deletion, Tombstone, Launching
  <2>7. Quiet(t) /\ Known(t)
    BY <2>1, <2>2, <2>3, <2>4 DEF Quiet, Known, Plain, Launch, IsTerminal
  <2>8. Hosted(t) /\ Told(t)
    BY <2>1, <2>2, <2>3, <2>4 DEF Hosted, Told
  <2>9. QED
    BY <2>5, <2>6, <2>7, <2>8 DEF Steady
<1>4. QED
  BY <1>1, <1>2, <1>3 DEF CoordinatorInv, Steady

(* After a crash the threads are what the disk has of them, and that is listed. *)
LEMMA CrashKeeps == CoordinatorInv /\ Crash => CoordinatorInv'
<1> SUFFICES ASSUME CoordinatorInv, Crash PROVE CoordinatorInv'
  OBVIOUS
<1>1. Inv'
  BY StepsOfAuthority, StepKeeps DEF CoordinatorNext, CoordinatorInv
<1>2. available' /\ ~marker' /\ CoordinatorType'
  <2>1. disk \in [Thread -> ThreadState]
    BY DEF CoordinatorInv, Inv, TypeOK
  <2>2. unrecovered' \in [Thread -> ThreadState \cup {NoState}]
    BY <2>1 DEF Crash
  <2>3. QED
    BY <2>2, NoJobRow DEF Crash, LoadSnapshot, CoordinatorInv, CoordinatorType
<1>3. ASSUME NEW t \in Thread
      PROVE  Shape(job'[t]) /\ Steady(t)'
  <2>1. /\ states'[t] = disk[t] /\ disk'[t] = disk[t] /\ NoClaimOn(t)'
        /\ job'[t] = NoJob /\ host'[t] = Null /\ watch'[t] = 0 /\ exits' = {}
        /\ process'[t] = process[t] /\ deleted'[t] = deleted[t] /\ ~owned'[t]
        /\ unrecovered'[t] = disk[t] \/ unrecovered'[t] = NoState
    BY DEF Crash, LoadSnapshot, NoClaims, NoClaimOn
  <2>2. /\ Known(t) /\ Deletion(t) /\ HasRoom(t) /\ disk[t].revision \in Nat
    BY Holds DEF ThreadState
  <2>3. Live(t)' = Live(t) /\ Loose(t)' \subseteq Live(t) /\ ~HostAlive(t)'
    BY <2>1 DEF Live, Loose, HostAlive
  <2>4. NoJob.at = "idle" /\ NoJob.op = "none" /\ NoJob.recovery = FALSE
    BY DEF NoJob
  <2>5. Shape(job'[t]) /\ HasRoom(t)'
    BY <2>1, <2>2, NoJobShape, RoomOfPlace DEF HasRoom
  <2>6. Recovery(t)'
    BY <2>1, <2>4 DEF Recovery
  <2>7. Deletion(t)'
    BY <2>1, <2>2, <2>4 DEF Deletion, Launching
  <2>8. Quiet(t)'
    BY <2>1, <2>4 DEF Quiet, Launch
  <2>9. Known(t)'
    BY <2>1, <2>2, <2>3, <2>4 DEF Known, Unverified
  <2>10. Hosted(t)'
    BY <2>1, <2>4 DEF Hosted
  <2>11. Told(t)'
    BY <2>1, <2>2, <2>3 DEF Told
  <2>12. QED
    BY <2>5, <2>6, <2>7, <2>8, <2>9, <2>10, <2>11 DEF Steady
<1>4. QED
  BY <1>1, <1>2, <1>3 DEF CoordinatorInv, Steady

(* A step about t keeps what its job relies on, and the other threads have
   nothing to do with it. *)
LEMMA MovesKeep ==
  ASSUME CoordinatorInv, NEW t \in Thread, Moves(t) PROVE CoordinatorInv'
<1>1. /\ Inv' /\ available' /\ ~marker' /\ job' \in [Thread -> JobRow]
      /\ \A u \in Thread : Shape(job'[u])
  BY After, JobMoves
<1>2. CoordinatorType'
  BY <1>1, WorldMoves, BooksMove DEF CoordinatorType
<1>3. \A u \in Thread \ {t} : Steady(u)'
  BY OthersSteady
<1>4. Steady(t)'
  BY RoomKept, RecoveryKept, DeletionKept, QuietKept, KnownKept, HostedKept, ToldKept DEF Steady
<1>5. QED
  BY <1>1, <1>2, <1>3, <1>4 DEF CoordinatorInv, Steady

LEMMA StutterKeeps == CoordinatorInv /\ UNCHANGED allVars => CoordinatorInv'
<1> SUFFICES ASSUME CoordinatorInv, UNCHANGED allVars PROVE CoordinatorInv'
  OBVIOUS
<1>1. UNCHANGED <<states, claims, disk, available, marker>> /\ UNCHANGED job
      /\ UNCHANGED <<session, process, host, watch, exits>> 
      /\ UNCHANGED <<owned, deleted, unrecovered, attaching>>
  BY DEF allVars, authority, world, books
<1>2. Inv'
  BY <1>1, StepsOfAuthority, StepKeeps DEF CoordinatorInv
<1>3. available' /\ ~marker' /\ CoordinatorType'
  BY <1>1 DEF CoordinatorInv, CoordinatorType
<1>4. ASSUME NEW t \in Thread
      PROVE  Shape(job'[t]) /\ Steady(t)'
  <2>1. /\ Live(t)' = Live(t) /\ Loose(t)' = Loose(t) /\ Unverified(t)' = Unverified(t)
        /\ HostAlive(t)' = HostAlive(t) /\ NoClaimOn(t)' = NoClaimOn(t)
    BY <1>1 DEF Live, Loose, Unverified, HostAlive, NoClaimOn
  <2>2. Shape(job[t]) /\ Steady(t)
    BY DEF CoordinatorInv, Steady
  <2>3. HasRoom(t)' /\ Recovery(t)' /\ Deletion(t)'
    BY <1>1, <2>2 DEF Steady, HasRoom, Recovery, Deletion
  <2>4. Quiet(t)' /\ Known(t)'
    BY <1>1, <2>1, <2>2 DEF Steady, Quiet, Known, Reopened
  <2>5. Hosted(t)' /\ Told(t)'
    BY <1>1, <2>1, <2>2 DEF Steady, Hosted, Told
  <2>6. QED
    BY <1>1, <2>2, <2>3, <2>4, <2>5 DEF Steady
<1>5. QED
  BY <1>2, <1>3, <1>4 DEF CoordinatorInv, Steady

LEMMA NextKeeps == CoordinatorInv /\ [CoordinatorNext]_allVars => CoordinatorInv'
<1> SUFFICES ASSUME CoordinatorInv, [CoordinatorNext]_allVars PROVE CoordinatorInv'
  OBVIOUS
<1>1. CASE UNCHANGED allVars
  BY <1>1, StutterKeeps
<1>2. CASE Crash
  BY <1>2, CrashKeeps
<1>3. CASE \E t \in Thread : Moves(t)
  BY <1>3, MovesKeep
<1>4. QED
  BY <1>1, <1>2, <1>3, NextMoves DEF CoordinatorInv

-----------------------------------------------------------------------------
(* The theorems                                                                *)

(* The invariant holds of every behaviour of the coordinator: whatever write,
   spawn or kill fails, whenever a process exits and the server crashes. *)
THEOREM CoordinatorInvariant == CoordinatorSpec => []CoordinatorInv
BY InitHolds, NextKeeps, PTL DEF CoordinatorSpec

(* Every variable keeps its type, those of the authority included. *)
THEOREM CoordinatorTypeCorrect == CoordinatorSpec => [](TypeOK /\ CoordinatorType)
<1>1. CoordinatorInv => TypeOK /\ CoordinatorType
  BY DEF CoordinatorInv, Inv
<1>2. QED
  BY <1>1, CoordinatorInvariant, PTL

(* The coordinator calls the authority through its operations only, with values
   those may be called with: it implements ExecutionAdapterAuthority, so what is
   proved of the authority holds under this very caller. *)
THEOREM CoordinatorImplementsAuthority == CoordinatorSpec => ImplementsAuthority
<1>1. CoordinatorInit => Init
  BY DEF CoordinatorInit
<1>2. CoordinatorInv /\ [CoordinatorNext]_allVars => [Next]_vars
  BY StepsOfAuthority
<1>3. QED
  BY <1>1, <1>2, CoordinatorInvariant, PTL DEF CoordinatorSpec, ImplementsAuthority, Spec

(* No process of a terminal epoch outlives it: a thread that is structured
   again, in memory or on disk, has no terminal process left. *)
THEOREM NoProcessOutlivesItsEpoch == CoordinatorSpec => []OneOwner
<1>1. CoordinatorInv => OneOwner
  BY NoneAlive DEF OneOwner
<1>2. QED
  BY <1>1, CoordinatorInvariant, PTL

(* A restart never runs beside the process it replaces. *)
THEOREM RestartsRunAlone == CoordinatorSpec => []AtMostOneProcess
<1>1. CoordinatorInv => AtMostOneProcess
  <2> SUFFICES ASSUME CoordinatorInv, NEW t \in Thread PROVE Cardinality(Live(t)) =< 1
    BY DEF AtMostOneProcess
  <2>1. \A g, h \in Live(t) : g = h
    BY Holds DEF Known
  <2>2. CASE Live(t) = {}
    BY <2>2, FS_EmptySet
  <2>3. CASE \E g : Live(t) = {g}
    BY <2>3, FS_Singleton
  <2>4. QED
    BY <2>1, <2>2, <2>3
<1>2. QED
  BY <1>1, CoordinatorInvariant, PTL

(* The next start will find every process that is alive: its identity is on
   disk, or a terminal state without one, which is not believed to have exited. *)
THEOREM NoProcessIsLost == CoordinatorSpec => []AccountedFor
<1>1. CoordinatorInv => AccountedFor
  BY Holds DEF AccountedFor, Known, Knows
<1>2. QED
  BY <1>1, CoordinatorInvariant, PTL

(* A process is killed when no claim is held on its thread any more, unless a
   client that could not attach has reopened the epoch; a deletion kills nobody
   at work at all.  And it is spawned where the host holds no other. *)
THEOREM KillsUnlessReopened == CoordinatorSpec => []KillsAlone
<1>1. CoordinatorInv => KillsAlone
  BY Holds DEF KillsAlone, Quiet, Hosted, NoClaimOn
<1>2. QED
  BY <1>1, CoordinatorInvariant, PTL

(* The epoch of a live process is not marked as exited, whatever exit of an
   earlier process is reported late. *)
THEOREM ExitsAreTrue == CoordinatorSpec => []ExitedIsTrue
<1>1. CoordinatorInv => ExitedIsTrue
  BY Holds DEF ExitedIsTrue, Told
<1>2. QED
  BY <1>1, CoordinatorInvariant, PTL
=============================================================================
