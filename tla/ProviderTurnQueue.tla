--------------------------- MODULE ProviderTurnQueue ---------------------------
(***************************************************************************)
(* How the provider command reactor gets the turns of one thread to the    *)
(* provider: admission of a turn that may have to wait, the in-memory      *)
(* queue, its promotion when the running turn is over, the continuation of *)
(* a goal when nothing waits, and a stop or a deletion in the middle.      *)
(*                                                                         *)
(* Three fibers share the queue and meet at every await: the worker, which *)
(* takes the intent events one by one; the stream fiber, which hears that  *)
(* the provider ended a turn; and the retries of a blocked goal.  Each may *)
(* promote a queued turn ("drain"), that is, dispatch a command to the     *)
(* engine whose event comes back to the worker behind whatever waits there.*)
(* A turn is covered by an authority claim from the moment it is accepted. *)
(***************************************************************************)
EXTENDS Naturals, FiniteSets, SequencesExt

CONSTANTS
  Turn,        \* the turns users ask for, each with its message
  Steer,       \* those of them sent to steer a running turn
  Goal,        \* the turn that continues the goal of the thread
  Null,        \* no turn
  Token,       \* bound: claims a turn can need at a time (command ids)
  Fault,       \* kinds of failures that may happen
  MaxFaults,   \* bound: failures in a run
  MaxStops,    \* bound: stops asked for
  MaxGoals,    \* bound: continuations asked for
  Deletes,     \* the thread may be deleted
  AgentGroup   \* turns carry an agent group context

ASSUME TurnAssumption == Steer \subseteq Turn /\ Null \notin Turn /\ Goal \notin Turn \cup {Null}
ASSUME BoundAssumption ==
  {MaxFaults, MaxStops, MaxGoals} \subseteq Nat /\ {Deletes, AgentGroup} \subseteq BOOLEAN

FaultKinds == {"send", "dispatch", "projection", "control", "timeout", "duplicate"}

ASSUME FaultAssumption == Fault \subseteq FaultKinds

Actor == {"worker", "stream", "retry"}

ClaimId == Turn \X Token

ASSUME ClaimAssumption == Null \notin ClaimId

VARIABLES
  accepted,   \* turns whose message is in the thread
  queue,      \* queuedByThread: what waits, each with its claim
  draining,   \* drainingThreads has the thread
  pending,    \* pendingDispatchThreads has the thread
  inbox,      \* the intent events the worker has not taken yet
  worker,     \* the handler the worker is in
  drain,      \* the promotion each fiber is in
  orphans,    \* promotions the engine still has after their fiber gave up
  reserved,   \* claims reserved for a start nobody has taken over yet
  holders,    \* how often each claim is held
  gate,       \* who the authority lets work on the thread
  deleted,    \* the thread is deleted: no, unheard by the reactor, or heard
  live,       \* the turn the provider runs
  ended,      \* terminal events the stream fiber has not taken yet
  projected,  \* the projected session: idle, starting or running
  news,       \* the provider changed and the projection does not know
  goal,       \* none, asked (an event is on its way), or blocked (retried)
  sent,       \* what the provider was given, in order
  refused,    \* turns with a failure activity the user can see
  dropped,    \* turns a stop or a deletion took out of the queue
  budget      \* how often each bounded thing happened

turns == <<accepted, queue, draining, pending>>
fibers == <<inbox, worker, drain, orphans>>
authority == <<reserved, holders, gate, deleted>>
provider == <<live, ended, projected, news>>
history == <<sent, refused, dropped>>
vars == <<turns, fibers, authority, provider, goal, history, budget>>

-----------------------------------------------------------------------------
(* Events, handlers, claims *)

Event == [kind : {"start", "queued", "promoted"}, turn : Turn, claim : ClaimId, again : BOOLEAN]
         \cup [kind : {"interrupt", "stop", "goal"}]

(* "start" and "promoted" are both thread.turn-start-requested: the second
   comes from a promotion.  again: the event has been handled before. *)
StartOf(t, c) == [kind |-> "start", turn |-> t, claim |-> c, again |-> FALSE]
QueuedOf(t, c) == [kind |-> "queued", turn |-> t, claim |-> c, again |-> FALSE]
PromotedOf(t, c) == [kind |-> "promoted", turn |-> t, claim |-> c, again |-> FALSE]

IsStart(e) == e.kind \in {"start", "promoted"}
IsTurn(e) == IsStart(e) \/ e.kind = "queued"

Entry == [turn : Turn, claim : ClaimId]

IdleWorker == [at |-> "idle"]
NoDrain == [at |-> "no"]

(* Holding a claim in a handler or in the queue; the others hold a lease of
   their own for as long as they run. *)
HoldsLease == worker.at \in {"interrupt", "goal-look", "goal-drain", "goal-draining",
                             "goal-check", "goal-send"}

Claimed(c) == holders[c] > 0

Deleted == deleted # "no"

AuthorityDrained_ReservedOnly == reserved = {} /\ ~HoldsLease          \* mutant

AuthorityDrained ==
  /\ reserved = {}
  /\ \A c \in ClaimId : ~Claimed(c)
  /\ ~HoldsLease
  /\ drain["stream"] = NoDrain

(* claimStructuredStart, and acquireStructured where the reservation is gone *)
Take(c) ==
  /\ reserved' = reserved \ {c}
  /\ holders' = [holders EXCEPT ![c] = @ + 1]

LetGo(cs) ==
  /\ reserved' = reserved \ cs
  /\ holders' = [c \in ClaimId |->
                   IF c \in cs /\ holders[c] > 0 THEN holders[c] - 1 ELSE holders[c]]

(* A command id is new: it names no claim that anything still refers to. *)
InFlight == {drain[a].claim : a \in {b \in Actor : drain[b].at \in {"offered", "done"}}}
            \cup {o.claim : o \in orphans}
            \cup {inbox[i].claim : i \in {j \in DOMAIN inbox : IsTurn(inbox[j])}}

Fresh(t) == {t} \X Token \ (reserved \cup {c \in ClaimId : Claimed(c)} \cup InFlight)

Happens(kind) ==
  /\ kind \in Fault
  /\ budget.faults < MaxFaults
  /\ budget' = [budget EXCEPT !.faults = @ + 1]

Publish(events) == inbox' = inbox \o events

-----------------------------------------------------------------------------
(* The queue: ProviderTurnQueue *)

Enqueued(entry) ==
  IF entry.turn \in Steer THEN <<entry>> \o queue ELSE Append(queue, entry)

RequeuedFront(entry) == <<entry>> \o queue

HasPending_QueueOnly == queue # <<>>                                  \* mutant

HasPending == queue # <<>> \/ draining \/ pending

CanDrain == ~draining /\ ~pending

QueuedClaims == {queue[i].claim : i \in DOMAIN queue}
QueuedTurns == {queue[i].turn : i \in DOMAIN queue}

(* clearThread, and at once the release of the claims it canceled *)
ClearThread ==
  /\ queue' = <<>> /\ draining' = FALSE /\ pending' = FALSE
  /\ dropped' = dropped \cup QueuedTurns
  /\ reserved' = reserved \ QueuedClaims
  /\ holders' = [c \in ClaimId |->
                   holders[c] - Cardinality({i \in DOMAIN queue : queue[i].claim = c})]

-----------------------------------------------------------------------------
(* Promotion: makeProviderTurnQueueDrain.  What precedes the dispatch runs
   without an await. *)

BeginDrain(a) ==
  /\ CanDrain /\ queue # <<>>
  /\ queue' = Tail(queue)
  /\ draining' = TRUE
  /\ pending' = TRUE
  /\ drain' = [drain EXCEPT ![a] = [at |-> "reserve", entry |-> Head(queue)]]
  /\ UNCHANGED accepted

NothingToDrain == ~CanDrain \/ queue = <<>>

(* The engine admits the command only while the thread is structured. *)
Reserve(a) ==
  LET d == drain[a] IN
  /\ d.at = "reserve"
  /\ \/ /\ gate = "ready"
        /\ \E c \in Fresh(d.entry.turn) :
             /\ reserved' = reserved \cup {c}
             /\ drain' = [drain EXCEPT ![a] = [at |-> "offered", entry |-> d.entry, claim |-> c]]
     \/ /\ gate # "ready"
        /\ drain' = [drain EXCEPT ![a].at = "failed"]
        /\ UNCHANGED reserved
  /\ UNCHANGED <<turns, inbox, worker, orphans, holders, gate, deleted, provider, goal, history, budget>>

(* The engine commits the command and publishes its event, or rejects it:
   the thread is deleted, or the write fails. *)
Commit(a) ==
  LET d == drain[a] IN
  /\ d.at = "offered"
  /\ ~Deleted
  /\ drain' = [drain EXCEPT ![a].at = "done"]
  /\ Publish(<<PromotedOf(d.entry.turn, d.claim)>>)
  /\ UNCHANGED <<turns, worker, orphans, authority, provider, goal, history, budget>>

Reject(a) ==
  LET d == drain[a] IN
  /\ d.at = "offered"
  /\ IF Deleted THEN UNCHANGED budget ELSE Happens("dispatch")
  /\ drain' = [drain EXCEPT ![a] = [at |-> "failed", entry |-> d.entry]]
  /\ reserved' = reserved \ {d.claim}
  /\ UNCHANGED <<turns, inbox, worker, orphans, holders, gate, deleted, provider, goal, history>>

Promoted_KeepsClaim(a) ==                                             \* mutant
  /\ drain[a].at = "done"
  /\ draining' = FALSE
  /\ drain' = [drain EXCEPT ![a] = NoDrain]
  /\ UNCHANGED <<accepted, queue, pending, inbox, worker, orphans, authority, provider, goal,
                 history, budget>>

(* The claim of the queue has been replaced by that of the command. *)
Promoted(a) ==
  LET d == drain[a] IN
  /\ d.at = "done"
  /\ LetGo({d.entry.claim})
  /\ draining' = FALSE
  /\ drain' = [drain EXCEPT ![a] = NoDrain]
  /\ UNCHANGED <<accepted, queue, pending, inbox, worker, orphans, gate, deleted, provider, goal,
                 history, budget>>

PutBack_KeepsMark(d) ==                                               \* mutant
  /\ queue' = RequeuedFront(d.entry)
  /\ draining' = FALSE
  /\ UNCHANGED <<accepted, pending>>

PutBack_Forgets(d) ==                                                 \* mutant
  /\ pending' = FALSE
  /\ draining' = FALSE
  /\ UNCHANGED <<accepted, queue>>

PutBack(d) ==
  /\ queue' = RequeuedFront(d.entry)
  /\ pending' = FALSE
  /\ draining' = FALSE
  /\ UNCHANGED accepted

NotPromoted(a) ==
  LET d == drain[a] IN
  /\ d.at = "failed"
  /\ PutBack(d)
  /\ drain' = [drain EXCEPT ![a] = NoDrain]
  /\ worker' = IF a = "worker" /\ worker.at = "goal-draining"
                 THEN [at |-> "goal-failed"] ELSE worker
  /\ UNCHANGED <<inbox, orphans, authority, provider, goal, history, budget>>

(* What a fiber gave up on may still be committed, or be abandoned. *)
CommitOrphan ==
  \E o \in orphans :
    /\ orphans' = orphans \ {o}
    /\ inbox' \in {inbox, Append(inbox, PromotedOf(o.turn, o.claim))}
    /\ UNCHANGED <<turns, worker, drain, authority, provider, goal, history, budget>>

-----------------------------------------------------------------------------
(* The worker takes a start: processTurnStartRequested *)

Idle == worker.at = "idle"

At(step) == worker' = [worker EXCEPT !.at = step]

Becomes(w) == worker' = w

Takes(kinds) ==
  /\ Idle /\ inbox # <<>>
  /\ Head(inbox).kind \in kinds
  /\ inbox' = Tail(inbox)

(* The user sees that the turn could not be started; the claim reserved for
   it is left to expire. *)
NotClaimed(t) ==
  /\ refused' = refused \cup {t}
  /\ UNCHANGED <<worker, reserved, holders>>

TakeStart_KeepsMark ==                                                \* mutant
  LET e == Head(inbox) IN
  /\ Takes({"start", "promoted"})
  /\ UNCHANGED pending
  /\ IF e.again
       THEN UNCHANGED <<worker, reserved, holders, refused>>
       ELSE \/ /\ gate = "ready"
               /\ Take(e.claim)
               /\ Becomes([at |-> "look", turn |-> e.turn, claim |-> e.claim])
               /\ UNCHANGED refused
            \/ gate # "ready" /\ NotClaimed(e.turn)
  /\ UNCHANGED <<accepted, queue, draining, drain, orphans, gate, deleted, provider, goal, sent,
                 dropped, budget>>

TakeStart ==
  LET e == Head(inbox) IN
  /\ Takes({"start", "promoted"})
  /\ pending' = FALSE
  /\ IF e.again
       THEN UNCHANGED <<worker, reserved, holders, refused>>
       ELSE \/ /\ gate = "ready"
               /\ Take(e.claim)
               /\ Becomes([at |-> "look", turn |-> e.turn, claim |-> e.claim])
               /\ UNCHANGED refused
            \/ gate # "ready" /\ NotClaimed(e.turn)
  /\ UNCHANGED <<accepted, queue, draining, drain, orphans, gate, deleted, provider, goal, sent,
                 dropped, budget>>

(* hasLiveProviderTurn: the adapters are asked first, the bindings are read
   from the database after that, so the answer is old when it is used. *)
Look_Projection ==                                                    \* mutant
  /\ worker.at = "look"
  /\ IF Deleted
       THEN At("release")
       ELSE Becomes([at |-> "decide", turn |-> worker.turn, claim |-> worker.claim,
                     seen |-> projected = "running"])
  /\ UNCHANGED <<turns, inbox, drain, orphans, authority, provider, goal, history, budget>>

Look ==
  /\ worker.at = "look"
  /\ IF Deleted
       THEN At("release")
       ELSE Becomes([at |-> "decide", turn |-> worker.turn, claim |-> worker.claim,
                     seen |-> live # Null])
  /\ UNCHANGED <<turns, inbox, drain, orphans, authority, provider, goal, history, budget>>

DecideToQueue_Releases ==                                             \* mutant
  /\ worker.at = "decide" /\ worker.seen
  /\ queue' = Enqueued([turn |-> worker.turn, claim |-> worker.claim])
  /\ At("release")
  /\ UNCHANGED <<accepted, draining, pending, inbox, drain, orphans, authority, provider, goal,
                 history, budget>>

(* The claim goes to the queue with the turn. *)
DecideToQueue ==
  /\ worker.at = "decide" /\ worker.seen
  /\ queue' = Enqueued([turn |-> worker.turn, claim |-> worker.claim])
  /\ Becomes(IF worker.turn \in Steer THEN [at |-> "steer"] ELSE IdleWorker)
  /\ UNCHANGED <<accepted, draining, pending, inbox, drain, orphans, authority, provider, goal,
                 history, budget>>

(* The projected session becomes "starting".  A failure of this write is
   logged and nothing else. *)
DecideToStart ==
  /\ worker.at = "decide" /\ ~worker.seen
  /\ \/ /\ gate = "ready"
        /\ projected' = "starting"
        /\ At("send")
        /\ UNCHANGED budget
     \/ /\ IF gate = "ready" THEN Happens("projection") ELSE UNCHANGED budget
        /\ At("release")
        /\ UNCHANGED projected
  /\ UNCHANGED <<turns, inbox, drain, orphans, authority, live, ended, news, goal, history>>

(* sendTurn: the provider has the turn before the call returns, so the turn
   can be over before it does. *)
Accepts(t) ==
  /\ live' = t /\ sent' = Append(sent, t) /\ news' = TRUE
  /\ UNCHANGED <<ended, projected>>

Send ==
  /\ worker.at = "send"
  /\ \/ /\ Accepts(worker.turn)
        /\ Becomes([at |-> "sending", turn |-> worker.turn, claim |-> worker.claim,
                    parked |-> FALSE])
        /\ UNCHANGED budget
     \/ /\ Happens("send")
        /\ At("report")
        /\ UNCHANGED <<provider, sent>>
  /\ UNCHANGED <<turns, inbox, drain, orphans, authority, goal, refused, dropped>>

(* A terminal event that came before the call returned is handled now. *)
Sent ==
  /\ worker.at = "sending"
  /\ Becomes([at |-> IF worker.parked THEN "drain" ELSE "release",
              turn |-> worker.turn, claim |-> worker.claim])
  /\ UNCHANGED <<turns, inbox, drain, orphans, authority, provider, goal, history, budget>>

(* Failure activity, session error, and then the next one may try. *)
Report ==
  /\ worker.at = "report"
  /\ refused' = refused \cup {worker.turn}
  /\ projected' = IF gate = "ready" THEN "idle" ELSE projected
  /\ At("drain")
  /\ UNCHANGED <<turns, inbox, drain, orphans, authority, live, ended, news, goal, sent, dropped,
                 budget>>

WorkerDrains ==
  /\ worker.at = "drain"
  /\ \/ BeginDrain("worker") /\ At("draining")
     \/ NothingToDrain /\ At("release") /\ UNCHANGED <<turns, drain>>
  /\ UNCHANGED <<inbox, orphans, authority, provider, goal, history, budget>>

WorkerDrained ==
  /\ worker.at = "draining" /\ drain["worker"] = NoDrain
  /\ At("release")
  /\ UNCHANGED <<turns, inbox, drain, orphans, authority, provider, goal, history, budget>>

(* The handler of a queued turn has given its claim to the queue. *)
Release ==
  /\ worker.at = "release"
  /\ IF worker.claim = Null THEN UNCHANGED <<reserved, holders>> ELSE LetGo({worker.claim})
  /\ Becomes(IdleWorker)
  /\ UNCHANGED <<turns, inbox, drain, orphans, gate, deleted, provider, goal, history, budget>>

-----------------------------------------------------------------------------
(* The worker takes a turn that was queued from the start: processTurnQueued *)

TakeQueued ==
  LET e == Head(inbox) IN
  /\ Takes({"queued"})
  /\ \/ /\ gate = "ready"
        /\ Take(e.claim)
        /\ queue' = Enqueued([turn |-> e.turn, claim |-> e.claim])
        /\ Becomes([at |-> "queued", turn |-> e.turn, claim |-> Null])
        /\ UNCHANGED refused
     \/ gate # "ready" /\ NotClaimed(e.turn) /\ UNCHANGED queue
  /\ UNCHANGED <<accepted, draining, pending, drain, orphans, gate, deleted, provider, goal, sent,
                 dropped, budget>>

(* If no turn runs any more when it is looked, nobody else will drain. *)
QueuedLook ==
  /\ worker.at = "queued"
  /\ At(IF live # Null THEN "release" ELSE "drain")
  /\ UNCHANGED <<turns, inbox, drain, orphans, authority, provider, goal, history, budget>>

-----------------------------------------------------------------------------
(* Interrupts, for a user and for a turn that steers: interruptProviderTurn *)

TakeInterrupt ==
  /\ Takes({"interrupt"})
  /\ Becomes(IF gate = "ready" THEN [at |-> "interrupt"] ELSE IdleWorker)
  /\ UNCHANGED <<turns, drain, orphans, authority, provider, goal, history, budget>>

Ends(t) == live' = Null /\ ended' = Append(ended, t) /\ news' = TRUE

(* An interrupt that fails, or gets no answer in time, stops the session, and no
   terminal event tells that no turn runs any more; this may fail as well, and
   the projection says that the turn is over although it runs on. *)
Interrupt ==
  /\ worker.at \in {"interrupt", "steer"}
  /\ Becomes(IdleWorker)
  /\ \/ live # Null /\ Ends(live) /\ UNCHANGED <<projected, budget>>
     \/ live = Null /\ UNCHANGED <<provider, budget>>
     \/ /\ Happens("control")
        /\ live' \in {live, Null} /\ projected' = "idle"
        /\ UNCHANGED <<ended, news>>
  /\ UNCHANGED <<turns, inbox, drain, orphans, authority, goal, history>>

-----------------------------------------------------------------------------
(* A session stop: processSessionStopRequested, stopStructuredRuntime *)

TakeStop ==
  /\ Takes({"stop"})
  /\ IF Deleted
       THEN UNCHANGED <<worker, queue, draining, pending, dropped, reserved, holders>>
       ELSE ClearThread /\ Becomes([at |-> "stop"])
  /\ UNCHANGED <<accepted, drain, orphans, gate, deleted, provider, goal, sent, refused, budget>>

(* A thread in the terminal's hands is stopped there, and a transition that
   is under way refuses the stop. *)
BeginStop ==
  /\ worker.at = "stop"
  /\ IF gate = "ready"
       THEN gate' = "stopping" /\ At("await")
       ELSE UNCHANGED gate /\ Becomes(IdleWorker)
  /\ UNCHANGED <<turns, inbox, drain, orphans, reserved, holders, deleted, provider, goal, history,
                 budget>>

(* awaitClaimsDrained gives up after ten seconds. *)
AwaitDrained ==
  /\ worker.at = "await"
  /\ At(IF AuthorityDrained THEN "halt" ELSE "stop-failed")
  /\ UNCHANGED <<turns, inbox, drain, orphans, authority, provider, goal, history, budget>>

(* The provider session ends; it may say that the turn ended, or may not.  When
   it does not end, or not in time, the thread is said to be stopped all the same. *)
Halt ==
  /\ worker.at = "halt"
  /\ \/ live # Null /\ Ends(live) /\ UNCHANGED budget
     \/ live' = Null /\ news' = FALSE /\ UNCHANGED <<ended, budget>>
     \/ Happens("control") /\ UNCHANGED <<live, ended, news>>
  /\ projected' = "idle"
  /\ At("stop-done")
  /\ UNCHANGED <<turns, inbox, drain, orphans, authority, goal, history>>

(* The barrier is taken down whatever came of the stop. *)
EndStop ==
  /\ worker.at \in {"stop-done", "stop-failed"}
  /\ gate' = IF gate = "stopping" THEN "ready" ELSE gate
  /\ Becomes(IdleWorker)
  /\ UNCHANGED <<turns, inbox, drain, orphans, reserved, holders, deleted, provider, goal, history,
                 budget>>

-----------------------------------------------------------------------------
(* The continuation of a goal: makeProviderGoalContinuation *)

TakeGoal ==
  /\ Takes({"goal"})
  /\ \/ /\ gate = "ready" /\ ~Deleted
        /\ Becomes([at |-> "goal-look"])
        /\ UNCHANGED goal
     \/ /\ gate # "ready" \/ Deleted
        /\ goal' = "none" /\ UNCHANGED worker
  /\ UNCHANGED <<turns, drain, orphans, authority, provider, history, budget>>

Blocked == goal' = "blocked" /\ Becomes(IdleWorker)

GoalLook ==
  /\ worker.at = "goal-look"
  /\ \/ (projected # "idle" \/ live # Null) /\ Blocked
     \/ projected = "idle" /\ live = Null /\ At("goal-drain") /\ UNCHANGED goal
  /\ UNCHANGED <<turns, inbox, drain, orphans, authority, provider, history, budget>>

GoalDrains ==
  /\ worker.at = "goal-drain"
  /\ \/ BeginDrain("worker") /\ At("goal-draining")
     \/ NothingToDrain /\ At("goal-check") /\ UNCHANGED <<turns, drain>>
  /\ UNCHANGED <<inbox, orphans, authority, provider, goal, history, budget>>

GoalDrained ==
  /\ worker.at = "goal-draining" /\ drain["worker"] = NoDrain
  /\ At("goal-check")
  /\ UNCHANGED <<turns, inbox, drain, orphans, authority, provider, goal, history, budget>>

(* The users' turns go first. *)
GoalCheck ==
  /\ worker.at = "goal-check"
  /\ \/ HasPending /\ Blocked /\ UNCHANGED projected
     \/ ~HasPending /\ gate = "ready" /\ projected' = "starting" /\ At("goal-send") /\ UNCHANGED goal
     \/ ~HasPending /\ gate # "ready" /\ At("goal-failed") /\ UNCHANGED <<projected, goal>>
  /\ UNCHANGED <<turns, inbox, drain, orphans, authority, live, ended, news, history, budget>>

GoalSend ==
  /\ worker.at = "goal-send"
  /\ \/ Accepts(Goal) /\ goal' = "none" /\ Becomes(IdleWorker) /\ UNCHANGED budget
     \/ Happens("send") /\ At("goal-failed") /\ UNCHANGED <<provider, sent, goal>>
  /\ UNCHANGED <<turns, inbox, drain, orphans, authority, refused, dropped>>

(* The goal is paused. *)
GoalFailed ==
  /\ worker.at = "goal-failed"
  /\ goal' = "none" /\ Becomes(IdleWorker)
  /\ projected' = IF gate = "ready" THEN "idle" ELSE projected
  /\ UNCHANGED <<turns, inbox, drain, orphans, authority, live, ended, news, history, budget>>

(* Every half second: the queue first, then the goal is asked for again. *)
RetryGoal ==
  /\ goal = "blocked"
  /\ projected = "idle" /\ live = Null
  /\ drain["retry"] = NoDrain
  /\ \/ BeginDrain("retry") /\ UNCHANGED <<inbox, goal>>
     \/ /\ NothingToDrain /\ ~HasPending
        /\ goal' = "asked"
        /\ Publish(<<[kind |-> "goal"]>>)
        /\ UNCHANGED <<turns, drain>>
  /\ UNCHANGED <<worker, orphans, authority, provider, history, budget>>

-----------------------------------------------------------------------------
(* The worker gives up on a handler after two minutes: processDomainEventSafely.
   A promotion in flight is interrupted: its command stays with the engine,
   the turn goes back to the queue. *)

Interrupts(d) ==
  \/ /\ d = NoDrain
     /\ UNCHANGED <<turns, drain, orphans, reserved>>
  \/ /\ d.at \in {"reserve", "offered"}
     /\ PutBack(d)
     /\ drain' = [drain EXCEPT !["worker"] = NoDrain]
     /\ IF d.at = "offered"
          THEN /\ orphans' = orphans \cup {[turn |-> d.entry.turn, claim |-> d.claim]}
               /\ reserved' = reserved \ {d.claim}
          ELSE UNCHANGED <<orphans, reserved>>

Timeout ==
  /\ worker.at \in {"send", "sending", "draining", "goal-draining"}
  /\ Happens("timeout")
  /\ Interrupts(drain["worker"])
  /\ Becomes(IF worker.at = "goal-draining" THEN [at |-> "goal-failed"]
             ELSE [at |-> "release", turn |-> worker.turn, claim |-> worker.claim])
  /\ UNCHANGED <<inbox, holders, gate, deleted, provider, goal, history>>

-----------------------------------------------------------------------------
(* The stream fiber: processQueueDrainEvent *)

Parks == AgentGroup /\ worker.at = "sending"

(* Without the lease the event is dropped.  While the send of an agent group
   turn is under way the event is parked with it: no turn is known to end. *)
HearEnd ==
  /\ ended # <<>>
  /\ drain["stream"] = NoDrain
  /\ ended' = Tail(ended)
  /\ \/ gate # "ready" /\ UNCHANGED <<turns, drain, worker>>
     \/ gate = "ready" /\ Parks /\ worker' = [worker EXCEPT !.parked = TRUE] /\ UNCHANGED <<turns, drain>>
     \/ gate = "ready" /\ ~Parks /\ BeginDrain("stream") /\ UNCHANGED worker
     \/ gate = "ready" /\ ~Parks /\ NothingToDrain /\ UNCHANGED <<turns, drain, worker>>
  /\ UNCHANGED <<inbox, orphans, authority, live, projected, news, goal, history, budget>>

(* The listener clears the queue ahead of the events the worker still has. *)
HearDeletion ==
  /\ deleted = "unheard"
  /\ deleted' = "heard"
  /\ ClearThread
  /\ UNCHANGED <<accepted, fibers, gate, provider, goal, sent, refused, budget>>

-----------------------------------------------------------------------------
(* What the users, the provider and the other components do *)

(* thread.turn.start, admitted with a reservation: what the projection says of
   the session decides between a start and a queued turn. *)
Submit(t) ==
  /\ t \notin accepted
  /\ gate = "ready" /\ ~Deleted
  /\ accepted' = accepted \cup {t}
  /\ \E c \in Fresh(t) :
       /\ reserved' = reserved \cup {c}
       /\ Publish(IF projected = "running"
                    THEN <<QueuedOf(t, c)>> \o (IF t \in Steer THEN <<[kind |-> "interrupt"]>> ELSE <<>>)
                    ELSE <<StartOf(t, c)>>)
  /\ UNCHANGED <<queue, draining, pending, worker, drain, orphans, holders, gate, deleted, provider,
                 goal, history, budget>>

TurnEnds ==
  /\ live # Null
  /\ Ends(live)
  /\ UNCHANGED <<turns, fibers, authority, projected, goal, history, budget>>

(* Runtime ingestion projects the session, under a lease of its own. *)
Ingest ==
  /\ news /\ gate = "ready"
  /\ news' = FALSE
  /\ projected' = IF live # Null THEN "running" ELSE "idle"
  /\ UNCHANGED <<turns, fibers, authority, live, ended, goal, history, budget>>

AskStop ==
  /\ budget.stops < MaxStops /\ ~Deleted
  /\ budget' = [budget EXCEPT !.stops = @ + 1]
  /\ Publish(<<[kind |-> "stop"]>>)
  /\ UNCHANGED <<turns, worker, drain, orphans, authority, provider, goal, history>>

AskGoal ==
  /\ budget.goals < MaxGoals /\ ~Deleted
  /\ goal = "none"
  /\ budget' = [budget EXCEPT !.goals = @ + 1]
  /\ goal' = "asked"
  /\ Publish(<<[kind |-> "goal"]>>)
  /\ UNCHANGED <<turns, worker, drain, orphans, authority, provider, history>>

(* The thread is switched to its terminal and back. *)
SwitchAway ==
  /\ gate = "ready" /\ live = Null
  /\ AuthorityDrained
  /\ budget.stops < MaxStops
  /\ budget' = [budget EXCEPT !.stops = @ + 1]
  /\ gate' = "away"
  /\ UNCHANGED <<turns, fibers, reserved, holders, deleted, provider, goal, history>>

SwitchBack ==
  /\ gate = "away"
  /\ gate' = "ready"
  /\ UNCHANGED <<turns, fibers, reserved, holders, deleted, provider, goal, history, budget>>

(* A reservation that was not taken over within five minutes. *)
Expire ==
  \E c \in reserved :
    /\ reserved' = reserved \ {c}
    /\ UNCHANGED <<turns, fibers, holders, gate, deleted, provider, goal, history, budget>>

Delete ==
  /\ Deletes /\ ~Deleted
  /\ deleted' = "unheard"
  /\ UNCHANGED <<turns, fibers, reserved, holders, gate, provider, goal, history, budget>>

(* The deletion reactor closes the thread for good. *)
Teardown ==
  /\ Deleted /\ gate # "deleting"
  /\ gate' = "deleting"
  /\ UNCHANGED <<turns, fibers, reserved, holders, deleted, provider, goal, history, budget>>

(* The engine publishes an event of its log a second time. *)
Redeliver ==
  \E i \in DOMAIN inbox :
    /\ IsTurn(inbox[i])
    /\ Happens("duplicate")
    /\ Publish(<<[inbox[i] EXCEPT !.again = TRUE]>>)
    /\ UNCHANGED <<turns, worker, drain, orphans, authority, provider, goal, history>>

-----------------------------------------------------------------------------
Init ==
  /\ accepted = {} /\ queue = <<>> /\ draining = FALSE /\ pending = FALSE
  /\ inbox = <<>> /\ worker = IdleWorker
  /\ drain = [a \in Actor |-> NoDrain] /\ orphans = {}
  /\ reserved = {} /\ holders = [c \in ClaimId |-> 0]
  /\ gate = "ready" /\ deleted = "no"
  /\ live = Null /\ ended = <<>> /\ projected = "idle" /\ news = FALSE
  /\ goal = "none"
  /\ sent = <<>> /\ refused = {} /\ dropped = {}
  /\ budget = [faults |-> 0, stops |-> 0, goals |-> 0]

Admission ==
  \/ TakeStart \/ Look \/ DecideToQueue \/ DecideToStart \/ Send \/ Sent \/ Report
  \/ WorkerDrains \/ WorkerDrained \/ Release
  \/ TakeQueued \/ QueuedLook

Control ==
  \/ TakeInterrupt \/ Interrupt
  \/ TakeStop \/ BeginStop \/ AwaitDrained \/ Halt \/ EndStop

Continuation ==
  \/ TakeGoal \/ GoalLook \/ GoalDrains \/ GoalDrained \/ GoalCheck \/ GoalSend \/ GoalFailed

Worker == Admission \/ Control \/ Continuation

Promotion(a) == Reserve(a) \/ Commit(a) \/ Reject(a) \/ Promoted(a) \/ NotPromoted(a)

Environment ==
  \/ \E t \in Turn : Submit(t)
  \/ TurnEnds \/ Ingest \/ AskStop \/ AskGoal \/ SwitchAway \/ SwitchBack
  \/ Expire \/ Delete \/ Teardown \/ Redeliver \/ Timeout \/ CommitOrphan

Next ==
  \/ Worker
  \/ \E a \in Actor : Promotion(a)
  \/ HearEnd \/ HearDeletion \/ RetryGoal
  \/ Environment

Spec == Init /\ [][Next]_vars

(* Each fiber goes on, a provider ends its turn, the projection catches up, a
   terminal gives the thread back.  No user has to do anything, and nothing
   has to fail. *)
Fairness ==
  /\ WF_vars(Worker)
  /\ \A a \in Actor : WF_vars(Promotion(a))
  /\ WF_vars(HearEnd) /\ WF_vars(HearDeletion) /\ WF_vars(RetryGoal)
  /\ WF_vars(TurnEnds) /\ WF_vars(Ingest) /\ WF_vars(SwitchBack)

FairSpec == Spec /\ Fairness

-----------------------------------------------------------------------------
(* Properties *)

Drains == {a \in Actor : drain[a] # NoDrain}

(* A turn that waits or is being promoted is covered by a claim that is held,
   so that nothing which waits for the claims can overtake it: the lease of a
   queued turn ends with its promotion or its cancellation. *)
ClaimCovers ==
  /\ \A i \in DOMAIN queue : Claimed(queue[i].claim)
  /\ \A a \in Drains : Claimed(drain[a].entry.claim)

(* Every claim that is held belongs to a turn in the queue, to a promotion or
   to the handler: a claim nobody releases would block all later stops and
   switches of the thread. *)
ClaimOwned ==
  \A c \in ClaimId :
    Claimed(c) =>
      \/ c \in QueuedClaims
      \/ \E a \in Drains : drain[a].entry.claim = c
      \/ "claim" \in DOMAIN worker /\ worker.claim = c

(* When a stop halts the provider, and while the terminal owns the thread, no
   turn waits, is being promoted or can still be started. *)
ClosedMeansEmpty ==
  gate = "away" \/ worker.at = "halt" => queue = <<>> /\ Drains = {} /\ reserved = {}

(* The mark of a pending dispatch is set only while a promotion is not
   committed yet or its event has not been taken: a mark that outlived both
   would keep the queue shut for good. *)
PendingIsTrue ==
  pending => \/ \E a \in Actor : drain[a].at \in {"reserve", "offered", "failed"}
             \/ \E i \in DOMAIN inbox : inbox[i].kind = "promoted"

(* The continuation of a goal is sent only when no user's turn waits or is
   being promoted, whatever happens between the check and the send.  A stop or
   a deletion clears the marks of a promotion that is still under way: if that
   one fails, its turn comes back although the check found nothing. *)
GoalYields ==
  worker.at = "goal-send" /\ budget.stops = 0 /\ ~Deleted => queue = <<>> /\ ~draining /\ ~pending

(* A turn is given to the provider only when it runs none, although the look
   at the provider is old by the time of the send. *)
OneTurnRuns == [][sent' # sent => live = Null]_sent

(* As long as nothing fails, a turn that waits behind a turn the provider runs
   gets away in the end: a terminal event, parked or not, finds it. *)
WaitsBehindLive ==
  \A t \in Turn :
    t \in QueuedTurns /\ live # Null ~> t \notin QueuedTurns \/ budget.faults > 0

-----------------------------------------------------------------------------
(* Refinement: what became of a turn, read off from where it is *)

InHandler(t) ==
  worker.at \in {"look", "decide", "send", "report"} /\ worker.turn = t

Waits(t) ==
  \/ \E i \in DOMAIN inbox : IsTurn(inbox[i]) /\ inbox[i].turn = t
  \/ t \in QueuedTurns
  \/ \E a \in Drains : drain[a].entry.turn = t
  \/ \E o \in orphans : o.turn = t
  \/ InHandler(t)

Outcome(t) ==
  IF t \notin accepted THEN "new"
  ELSE IF t \in Range(sent) THEN "sent"
  ELSE IF t \in refused THEN "refused"
  ELSE IF t \in dropped THEN "dropped"
  ELSE IF Waits(t) THEN "waiting"
  ELSE IF Deleted THEN "dropped"
  ELSE "lost"

Delivery ==
  INSTANCE TurnDelivery WITH
    phase <- [t \in Turn |-> Outcome(t)],
    delivered <- [t \in Turn |-> Cardinality({i \in DOMAIN sent : sent[i] = t})]

(* A turn that was accepted reaches the provider once, or its failure is seen,
   or a stop or the deletion of the thread takes it back: none is lost between
   the inbox, the queue, a promotion and the handler. *)
ImplementsDelivery == Delivery!Spec
=============================================================================
