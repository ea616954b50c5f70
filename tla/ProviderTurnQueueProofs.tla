------------------------ MODULE ProviderTurnQueueProofs ------------------------
(***************************************************************************)
(* The claims, marks and promotions of the turn queue, for any set of      *)
(* turns, any number of failures of every kind, stops and continuations.   *)
(*                                                                         *)
(* Everything rests on one account: each claim is held exactly as often as *)
(* a place of the queue, a promotion or the handler of the worker refers   *)
(* to it.                                                                  *)
(* The last part follows each turn to the one place that still has it, and *)
(* shows that the queue implements TurnDelivery.                           *)
(***************************************************************************)
EXTENDS ProviderTurnQueue, FiniteSetTheorems, TLAPS

-----------------------------------------------------------------------------
(* What the variables hold *)

Played == Turn \cup {Goal}

Bare == {"idle", "steer", "interrupt", "stop", "await", "halt", "stop-done", "stop-failed",
         "goal-look", "goal-drain", "goal-draining", "goal-check", "goal-send", "goal-failed"}

WorkerRow ==
  [at : Bare]
  \cup [at : {"look", "drain", "draining", "release"}, turn : Turn, claim : ClaimId]
  \cup [at : {"queued", "drain", "draining", "release"}, turn : Turn, claim : {Null}]
  \cup [at : {"decide", "send", "report", "drain", "draining", "release"}, turn : Turn,
        claim : ClaimId, seen : BOOLEAN]
  \cup [at : {"sending"}, turn : Turn, claim : ClaimId, parked : BOOLEAN]

DrainRow ==
  {NoDrain}
  \cup [at : {"reserve", "failed"}, entry : Entry]
  \cup [at : {"offered", "done", "failed"}, entry : Entry, claim : ClaimId]

TurnsType ==
  accepted \subseteq Turn /\ queue \in Seq(Entry) /\ draining \in BOOLEAN /\ pending \in BOOLEAN

FibersType ==
  /\ inbox \in Seq(Event) /\ worker \in WorkerRow
  /\ drain \in [Actor -> DrainRow] /\ orphans \subseteq Entry

AuthorityType ==
  /\ reserved \subseteq ClaimId
  /\ gate \in {"ready", "stopping", "away", "deleting"}
  /\ deleted \in {"no", "unheard", "heard"}

ProviderType ==
  /\ live \in Played \cup {Null} /\ ended \in Seq(Played)
  /\ projected \in {"idle", "starting", "running"} /\ news \in BOOLEAN

HistoryType == sent \in Seq(Played) /\ refused \subseteq Turn /\ dropped \subseteq Turn

BudgetType == budget \in [faults : Nat, stops : Nat, goals : Nat]

(* The account of the claims says what holders is. *)
TypeOK == TurnsType /\ FibersType /\ AuthorityType /\ ProviderType /\ HistoryType /\ BudgetType

-----------------------------------------------------------------------------
(* The account of the claims *)

Places(q, c) == {i \in DOMAIN q : q[i].claim = c}

Promotes(d, c) == IF d.at # "no" /\ d.entry.claim = c THEN 1 ELSE 0

Promoting(dr, c) ==
  Promotes(dr["worker"], c) + Promotes(dr["stream"], c) + Promotes(dr["retry"], c)

Handling == {"look", "decide", "send", "sending", "report", "drain", "draining", "release"}
Handles(w, c) == IF w.at \in Handling /\ w.claim = c THEN 1 ELSE 0

Uses(c) == Cardinality(Places(queue, c)) + Promoting(drain, c) + Handles(worker, c)

ClaimInv ==
  /\ holders \in [ClaimId -> Nat]
  /\ \A c \in ClaimId : holders[c] = Uses(c)

(* The worker waits for its promotion. *)
WaitInv == drain["worker"] # NoDrain => worker.at \in {"draining", "goal-draining"}

(* While a stop waits and works, nobody but the deletion can have the thread. *)
Stopping == {"await", "halt", "stop-done", "stop-failed"}

GateInv ==
  /\ worker.at \in Stopping => gate \in {"stopping", "deleting"}
  /\ gate = "deleting" => Deleted
  /\ gate = "away" \/ worker.at = "halt" => reserved = {} /\ \A c \in ClaimId : ~Claimed(c)

(* The worker has found that no turn runs and is about to start one. *)
Starting ==
  \/ worker.at = "decide" /\ ~worker.seen
  \/ worker.at \in {"send", "goal-drain", "goal-draining", "goal-check", "goal-send"}

LiveInv == Starting => live = Null

(* Until a stop or a deletion clears the marks, they are those of one promotion. *)
MarkInv ==
  budget.stops = 0 /\ ~Deleted =>
    /\ \A i \in DOMAIN inbox : inbox[i].kind # "stop"
    /\ \A a \in Drains : draining
    /\ \A a, b \in Drains : a = b
    /\ GoalYields

QueueInv == TypeOK /\ ClaimInv /\ WaitInv /\ GateInv /\ LiveInv /\ MarkInv /\ PendingIsTrue
-----------------------------------------------------------------------------
(* Rows *)

(* A handler that goes on with its row keeps the turn and the claim. *)
LEMMA RowKept ==
  ASSUME NEW w \in WorkerRow, NEW s
  PROVE  /\ [w EXCEPT !.at = s].at = s
         /\ w.at \in Handling \cup {"queued"} =>
              /\ w.turn \in Turn
              /\ [w EXCEPT !.at = s].turn = w.turn /\ [w EXCEPT !.at = s].claim = w.claim
         /\ w.at \in Handling => w.claim \in ClaimId \cup {Null}
         /\ w.at \in {"look", "decide", "send", "sending", "report"} => w.claim \in ClaimId
BY DEF WorkerRow, Handling, Bare

LEMMA WorkerSteps ==
  ASSUME NEW w \in WorkerRow
  PROVE  /\ w.at \in Bare => \A s \in Bare : [w EXCEPT !.at = s] \in WorkerRow
         /\ w.at = "look" => [w EXCEPT !.at = "release"] \in WorkerRow
         /\ w.at = "decide" => /\ w.seen \in BOOLEAN
                               /\ [w EXCEPT !.at = "release"] \in WorkerRow
                               /\ [w EXCEPT !.at = "send"] \in WorkerRow
         /\ w.at = "send" => [w EXCEPT !.at = "report"] \in WorkerRow
         /\ w.at = "sending" => /\ w.parked \in BOOLEAN
                                /\ [w EXCEPT !.parked = TRUE] \in WorkerRow
         /\ w.at = "report" => [w EXCEPT !.at = "drain"] \in WorkerRow
         /\ w.at = "queued" => /\ [w EXCEPT !.at = "drain"] \in WorkerRow
                               /\ [w EXCEPT !.at = "release"] \in WorkerRow
         /\ w.at = "drain" => /\ [w EXCEPT !.at = "draining"] \in WorkerRow
                              /\ [w EXCEPT !.at = "release"] \in WorkerRow
         /\ w.at = "draining" => [w EXCEPT !.at = "release"] \in WorkerRow
BY DEF WorkerRow, Bare
LEMMA NewRows ==
  /\ \A s \in Bare : [at |-> s] \in WorkerRow
  /\ \A t \in Turn, c \in ClaimId : \A s \in {"look", "drain", "draining", "release"} :
       [at |-> s, turn |-> t, claim |-> c] \in WorkerRow
  /\ \A t \in Turn : \A s \in {"queued", "drain", "draining", "release"} :
       [at |-> s, turn |-> t, claim |-> Null] \in WorkerRow
  /\ \A t \in Turn, c \in ClaimId, b \in BOOLEAN :
       /\ [at |-> "decide", turn |-> t, claim |-> c, seen |-> b] \in WorkerRow
       /\ [at |-> "sending", turn |-> t, claim |-> c, parked |-> b] \in WorkerRow
BY DEF WorkerRow

LEMMA DrainRows ==
  ASSUME NEW d \in DrainRow
  PROVE  /\ d.at \in {"no", "reserve", "offered", "done", "failed"}
         /\ d.at = "no" <=> d = NoDrain
         /\ d.at # "no" => d.entry \in Entry /\ d.entry.turn \in Turn /\ d.entry.claim \in ClaimId
         /\ d.at \in {"offered", "done"} => d.claim \in ClaimId
         /\ d.at = "reserve" =>
              /\ [d EXCEPT !.at = "failed"] \in DrainRow
              /\ [d EXCEPT !.at = "failed"].at = "failed" /\ [d EXCEPT !.at = "failed"].entry = d.entry
         /\ d.at = "offered" =>
              /\ [d EXCEPT !.at = "done"] \in DrainRow
              /\ [d EXCEPT !.at = "done"].at = "done" /\ [d EXCEPT !.at = "done"].entry = d.entry
BY DEF DrainRow, NoDrain, Entry

LEMMA NewDrains ==
  /\ NoDrain \in DrainRow /\ NoDrain.at = "no"
  /\ \A e \in Entry : /\ [at |-> "reserve", entry |-> e] \in DrainRow
                      /\ [at |-> "failed", entry |-> e] \in DrainRow
                      /\ \A c \in ClaimId : [at |-> "offered", entry |-> e, claim |-> c] \in DrainRow
BY DEF DrainRow, NoDrain

(* What the inbox may hold. *)
LEMMA Events ==
  /\ \A t \in Turn, c \in ClaimId :
       StartOf(t, c) \in Event /\ QueuedOf(t, c) \in Event /\ PromotedOf(t, c) \in Event
  /\ \A k \in {"interrupt", "stop", "goal"} : [kind |-> k] \in Event
  /\ \A e \in Event : IsTurn(e) =>
       /\ e.turn \in Turn /\ e.claim \in ClaimId /\ [turn |-> e.turn, claim |-> e.claim] \in Entry
       /\ e.again \in BOOLEAN /\ [e EXCEPT !.again = TRUE] \in Event
       /\ [e EXCEPT !.again = TRUE].kind = e.kind
BY DEF Event, StartOf, QueuedOf, PromotedOf, IsTurn, IsStart, Entry

(* A claim that names nothing yet is one of the turn's. *)
LEMMA FreshClaims == \A t \in Turn : \A c \in Fresh(t) : c \in ClaimId
BY DEF Fresh, ClaimId

-----------------------------------------------------------------------------
(* Types *)

LEMMA SameType ==
  ASSUME TypeOK
  PROVE  /\ UNCHANGED turns => TurnsType'
         /\ UNCHANGED authority => AuthorityType'
         /\ UNCHANGED provider => ProviderType'
         /\ UNCHANGED history => HistoryType'
         /\ UNCHANGED budget => BudgetType'
<1>1. UNCHANGED turns => TurnsType'
  BY DEF TypeOK, TurnsType, turns
<1>2. UNCHANGED authority => AuthorityType'
  BY DEF TypeOK, AuthorityType, authority
<1>3. UNCHANGED provider => ProviderType'
  BY DEF TypeOK, ProviderType, provider
<1>4. UNCHANGED history => HistoryType'
  BY DEF TypeOK, HistoryType, history
<1>5. UNCHANGED budget => BudgetType'
  BY DEF TypeOK, BudgetType
<1> QED
  BY <1>1, <1>2, <1>3, <1>4, <1>5

LEMMA HappensType ==
  ASSUME TypeOK, NEW kind, Happens(kind)
  PROVE  BudgetType'
BY DEF TypeOK, BudgetType, Happens

(* The event the worker takes. *)
LEMMA Taken ==
  ASSUME TypeOK, NEW kinds, Takes(kinds)
  PROVE  /\ Head(inbox) \in Event /\ Head(inbox).kind \in kinds /\ worker.at = "idle"
         /\ inbox' \in Seq(Event) /\ inbox # <<>> /\ inbox' = Tail(inbox)
BY DEF TypeOK, FibersType, Takes, Idle

LEMMA QueueGrows ==
  ASSUME TypeOK, NEW e \in Entry
  PROVE  Enqueued(e) \in Seq(Entry) /\ RequeuedFront(e) \in Seq(Entry)
BY DEF TypeOK, TurnsType, Enqueued, RequeuedFront

LEMMA DrainBegins ==
  ASSUME TypeOK, NEW a \in Actor, BeginDrain(a)
  PROVE  /\ TurnsType' /\ drain' \in [Actor -> DrainRow]
         /\ draining' = TRUE /\ pending' = TRUE /\ accepted' = accepted
         /\ Head(queue) \in Entry /\ queue # <<>> /\ queue' = Tail(queue) /\ ~draining /\ ~pending
         /\ drain'[a] = [at |-> "reserve", entry |-> Head(queue)]
         /\ \A b \in Actor \ {a} : drain'[b] = drain[b]
<1>1. queue # <<>> /\ queue \in Seq(Entry) /\ drain \in [Actor -> DrainRow]
  BY DEF BeginDrain, TypeOK, TurnsType, FibersType
<1>2. Head(queue) \in Entry /\ Tail(queue) \in Seq(Entry)
  BY <1>1
<1>3. [at |-> "reserve", entry |-> Head(queue)] \in DrainRow
  BY <1>2, NewDrains
<1>4. TurnsType'
  BY <1>2 DEF BeginDrain, TypeOK, TurnsType
<1> QED
  BY <1>1, <1>2, <1>3, <1>4 DEF BeginDrain, CanDrain

LEMMA PutBackType ==
  ASSUME TypeOK, NEW d, d.entry \in Entry, PutBack(d)
  PROVE  TurnsType'
BY QueueGrows DEF PutBack, TypeOK, TurnsType

LEMMA Cleared ==
  ASSUME TypeOK, ClearThread, UNCHANGED accepted
  PROVE  /\ TurnsType' /\ queue' = <<>> /\ draining' = FALSE /\ pending' = FALSE
         /\ dropped' \subseteq Turn /\ reserved' \subseteq ClaimId
<1>1. QueuedTurns \subseteq Turn
  <2>1. queue \in Seq(Entry)
    BY DEF TypeOK, TurnsType
  <2>2. \A i \in DOMAIN queue : queue[i] \in Entry
    BY <2>1
  <2> QED
    BY <2>2 DEF QueuedTurns, Entry
<1>2. dropped' \subseteq Turn
  BY <1>1 DEF TypeOK, HistoryType, ClearThread
<1>3. reserved' \subseteq ClaimId
  BY DEF TypeOK, AuthorityType, ClearThread
<1>4. TurnsType' /\ queue' = <<>> /\ draining' = FALSE /\ pending' = FALSE
  <2>1. queue' = <<>> /\ draining' = FALSE /\ pending' = FALSE
    BY DEF ClearThread
  <2>2. <<>> \in Seq(Entry)
    OBVIOUS
  <2> QED
    BY <2>1, <2>2 DEF TypeOK, TurnsType
<1> QED
  BY <1>2, <1>3, <1>4

LEMMA EndsType ==
  ASSUME TypeOK, live # Null, live' = Null, ended' = Append(ended, live),
         projected' \in {"idle", "starting", "running"}, news' \in BOOLEAN
  PROVE  ProviderType'
<1>1. live \in Played /\ ended \in Seq(Played)
  BY DEF TypeOK, ProviderType
<1>2. ended' \in Seq(Played)
  BY <1>1
<1> QED
  BY <1>2 DEF ProviderType

LEMMA AcceptsType ==
  ASSUME TypeOK, NEW t \in Played, Accepts(t)
  PROVE  ProviderType' /\ sent' \in Seq(Played)
<1>1. sent \in Seq(Played)
  BY DEF TypeOK, HistoryType
<1>2. sent' \in Seq(Played)
  BY <1>1 DEF Accepts
<1>3. ProviderType'
  BY DEF TypeOK, ProviderType, Accepts
<1> QED
  BY <1>2, <1>3
LEMMA TypeAdmission ==
  ASSUME TypeOK, Admission
  PROVE  TypeOK'
<1>0. worker \in WorkerRow /\ drain \in [Actor -> DrainRow] /\ inbox \in Seq(Event)
      /\ orphans \subseteq Entry
  BY DEF TypeOK, FibersType
<1>1. CASE TakeStart
  <2>1. Head(inbox) \in Event /\ inbox' \in Seq(Event) /\ IsTurn(Head(inbox))
    BY <1>1, Taken DEF TakeStart, IsTurn, IsStart
  <2>2. Head(inbox).turn \in Turn /\ Head(inbox).claim \in ClaimId
    BY <2>1, Events
  <2>3. worker' \in WorkerRow
    <3>1. \/ worker' = worker
          \/ worker' = [at |-> "look", turn |-> Head(inbox).turn, claim |-> Head(inbox).claim]
      BY <1>1 DEF TakeStart, Becomes, NotClaimed
    <3> QED
      BY <1>0, <2>2, <3>1, NewRows
  <2>4. FibersType' /\ TurnsType'
    BY <1>0, <1>1, <2>1, <2>3 DEF TakeStart, FibersType, TypeOK, TurnsType
  <2>5. AuthorityType' /\ HistoryType'
    BY <1>1, <2>2 DEF TakeStart, Take, NotClaimed, TypeOK, AuthorityType, HistoryType
  <2> QED
    BY <1>1, <2>4, <2>5, SameType DEF TakeStart, TypeOK
<1>2. CASE Look
  <2>1. worker.turn \in Turn /\ worker.claim \in ClaimId
    BY <1>0, <1>2, RowKept DEF Look, Handling
  <2>2. \/ worker' = [worker EXCEPT !.at = "release"]
        \/ \E b \in BOOLEAN :
             worker' = [at |-> "decide", turn |-> worker.turn, claim |-> worker.claim, seen |-> b]
    BY <1>2 DEF Look, At, Becomes
  <2>3. worker' \in WorkerRow
    <3>1. [worker EXCEPT !.at = "release"] \in WorkerRow
      BY <1>0, <1>2, WorkerSteps DEF Look
    <3>2. \A b \in BOOLEAN :
            [at |-> "decide", turn |-> worker.turn, claim |-> worker.claim, seen |-> b] \in WorkerRow
      BY <2>1, NewRows
    <3> QED
      BY <2>2, <3>1, <3>2
  <2> QED
    BY <1>0, <1>2, <2>3, SameType DEF Look, TypeOK, FibersType
<1>3. CASE DecideToQueue
  <2>1. [turn |-> worker.turn, claim |-> worker.claim] \in Entry
    BY <1>0, <1>3, RowKept DEF DecideToQueue, Handling, Entry
  <2>2. worker' \in WorkerRow
    BY <1>3, NewRows DEF DecideToQueue, Becomes, Bare, IdleWorker
  <2>3. queue' \in Seq(Entry)
    BY <1>3, <2>1, QueueGrows DEF DecideToQueue
  <2>4. FibersType' /\ TurnsType'
    BY <1>0, <1>3, <2>2, <2>3 DEF DecideToQueue, FibersType, TypeOK, TurnsType
  <2> QED
    BY <1>3, <2>4, SameType DEF DecideToQueue, TypeOK
<1>4. CASE DecideToStart
  <2>1. worker' \in WorkerRow
    BY <1>0, <1>4, WorkerSteps DEF DecideToStart, At
  <2>2. BudgetType'
    BY <1>4, SameType, HappensType DEF DecideToStart
  <2>3. ProviderType'
    BY <1>4 DEF DecideToStart, TypeOK, ProviderType
  <2> QED
    BY <1>0, <1>4, <2>1, <2>2, <2>3, SameType DEF DecideToStart, TypeOK, FibersType
<1>5. CASE Send
  <2>1. worker.turn \in Turn /\ worker.claim \in ClaimId
    BY <1>0, <1>5, RowKept DEF Send, Handling
  <2>2. \/ worker' = [worker EXCEPT !.at = "report"]
        \/ worker' = [at |-> "sending", turn |-> worker.turn, claim |-> worker.claim,
                      parked |-> FALSE]
    BY <1>5 DEF Send, At, Becomes
  <2>3. worker' \in WorkerRow
    BY <1>0, <1>5, <2>1, <2>2, WorkerSteps, NewRows DEF Send
  <2>4. BudgetType'
    BY <1>5, SameType, HappensType DEF Send
  <2>5. ProviderType' /\ HistoryType'
    <3>1. CASE Accepts(worker.turn)
      BY <1>5, <2>1, <3>1, AcceptsType DEF Send, Played, TypeOK, HistoryType
    <3>2. CASE UNCHANGED <<provider, sent>>
      BY <1>5, <3>2, SameType DEF Send, TypeOK, HistoryType
    <3> QED
      BY <1>5, <3>1, <3>2 DEF Send
  <2> QED
    BY <1>0, <1>5, <2>3, <2>4, <2>5, SameType DEF Send, TypeOK, FibersType
<1>6. CASE Sent
  <2>1. worker' \in WorkerRow
    BY <1>0, <1>6, NewRows, RowKept DEF Sent, Becomes, Handling
  <2> QED
    BY <1>0, <1>6, <2>1, SameType DEF Sent, TypeOK, FibersType
<1>7. CASE Report
  <2>1. worker' \in WorkerRow /\ worker.turn \in Turn
    BY <1>0, <1>7, WorkerSteps, RowKept DEF Report, At, Handling
  <2>2. ProviderType' /\ HistoryType'
    BY <1>7, <2>1 DEF Report, TypeOK, ProviderType, HistoryType
  <2> QED
    BY <1>0, <1>7, <2>1, <2>2, SameType DEF Report, TypeOK, FibersType
<1>8. CASE WorkerDrains
  <2>1. worker' \in WorkerRow
    BY <1>0, <1>8, WorkerSteps DEF WorkerDrains, At
  <2>2. TurnsType' /\ drain' \in [Actor -> DrainRow]
    BY <1>0, <1>8, DrainBegins, SameType DEF WorkerDrains, Actor
  <2> QED
    BY <1>0, <1>8, <2>1, <2>2, SameType DEF WorkerDrains, TypeOK, FibersType
<1>9. CASE WorkerDrained
  <2>1. worker' \in WorkerRow
    BY <1>0, <1>9, WorkerSteps DEF WorkerDrained, At
  <2> QED
    BY <1>0, <1>9, <2>1, SameType DEF WorkerDrained, TypeOK, FibersType
<1>10. CASE Release
  <2>1. worker' \in WorkerRow
    BY <1>10, NewRows DEF Release, Becomes, IdleWorker, Bare
  <2>2. AuthorityType'
    BY <1>10 DEF Release, LetGo, TypeOK, AuthorityType
  <2> QED
    BY <1>0, <1>10, <2>1, <2>2, SameType DEF Release, TypeOK, FibersType
<1>11. CASE TakeQueued
  <2>1. Head(inbox) \in Event /\ inbox' \in Seq(Event) /\ IsTurn(Head(inbox))
    BY <1>11, Taken DEF TakeQueued, IsTurn
  <2>2. Head(inbox).turn \in Turn /\ Head(inbox).claim \in ClaimId
        /\ [turn |-> Head(inbox).turn, claim |-> Head(inbox).claim] \in Entry
    BY <2>1, Events
  <2>3. \/ worker' = worker
        \/ worker' = [at |-> "queued", turn |-> Head(inbox).turn, claim |-> Null]
    BY <1>11 DEF TakeQueued, Becomes, NotClaimed
  <2>4. worker' \in WorkerRow
    BY <1>0, <2>2, <2>3, NewRows
  <2>5. queue' \in Seq(Entry)
    BY <1>11, <2>2, QueueGrows DEF TakeQueued, TypeOK, TurnsType
  <2>6. AuthorityType' /\ HistoryType'
    BY <1>11, <2>2 DEF TakeQueued, Take, NotClaimed, TypeOK, AuthorityType, HistoryType
  <2>7. FibersType' /\ TurnsType'
    BY <1>0, <1>11, <2>1, <2>4, <2>5 DEF TakeQueued, FibersType, TypeOK, TurnsType
  <2> QED
    BY <1>11, <2>6, <2>7, SameType DEF TakeQueued, TypeOK
<1>12. CASE QueuedLook
  <2>1. worker' \in WorkerRow
    BY <1>0, <1>12, WorkerSteps DEF QueuedLook, At
  <2> QED
    BY <1>0, <1>12, <2>1, SameType DEF QueuedLook, TypeOK, FibersType
<1> QED
  BY <1>1, <1>2, <1>3, <1>4, <1>5, <1>6, <1>7, <1>8, <1>9, <1>10, <1>11, <1>12 DEF Admission
LEMMA TypeControl ==
  ASSUME TypeOK, Control
  PROVE  TypeOK'
<1>0. worker \in WorkerRow /\ drain \in [Actor -> DrainRow] /\ inbox \in Seq(Event)
      /\ orphans \subseteq Entry
  BY DEF TypeOK, FibersType
<1>1. CASE TakeInterrupt
  <2>1. inbox' \in Seq(Event) /\ worker' \in WorkerRow
    BY <1>1, Taken, NewRows DEF TakeInterrupt, Becomes, IdleWorker, Bare
  <2> QED
    BY <1>0, <1>1, <2>1, SameType DEF TakeInterrupt, TypeOK, FibersType
<1>2. CASE Interrupt
  <2>1. worker' \in WorkerRow
    BY <1>2, NewRows DEF Interrupt, Becomes, IdleWorker, Bare
  <2>2. ProviderType' /\ BudgetType'
    <3>1. CASE live # Null /\ Ends(live) /\ UNCHANGED <<projected, budget>>
      BY <3>1, EndsType, SameType DEF Ends, TypeOK, ProviderType
    <3>2. CASE UNCHANGED <<provider, budget>>
      BY <3>2, SameType
    <3>3. CASE /\ Happens("control")
               /\ live' \in {live, Null} /\ projected' = "idle" /\ UNCHANGED <<ended, news>>
      BY <3>3, HappensType DEF TypeOK, ProviderType
    <3> QED
      BY <1>2, <3>1, <3>2, <3>3 DEF Interrupt
  <2> QED
    BY <1>0, <1>2, <2>1, <2>2, SameType DEF Interrupt, TypeOK, FibersType
<1>3. CASE TakeStop
  <2>1. inbox' \in Seq(Event)
    BY <1>3, Taken DEF TakeStop
  <2>2. worker' \in WorkerRow
    BY <1>0, <1>3, NewRows DEF TakeStop, Becomes, Bare
  <2>3. FibersType'
    BY <1>0, <1>3, <2>1, <2>2 DEF TakeStop, FibersType
  <2>4. CASE Deleted
    BY <1>3, <2>3, <2>4, SameType
    DEF TakeStop, TypeOK, TurnsType, AuthorityType, HistoryType
  <2>5. CASE ~Deleted
    <3>1. ClearThread /\ accepted' = accepted
      BY <1>3, <2>5 DEF TakeStop
    <3>2. TurnsType' /\ dropped' \subseteq Turn /\ reserved' \subseteq ClaimId
      BY <3>1, Cleared
    <3> QED
      BY <1>3, <2>3, <3>2, SameType DEF TakeStop, TypeOK, AuthorityType, HistoryType
  <2> QED
    BY <2>4, <2>5
<1>4. CASE BeginStop
  <2>1. worker' \in WorkerRow
    BY <1>0, <1>4, NewRows, WorkerSteps DEF BeginStop, Becomes, IdleWorker, At, Bare
  <2>2. AuthorityType'
    BY <1>4 DEF BeginStop, TypeOK, AuthorityType
  <2> QED
    BY <1>0, <1>4, <2>1, <2>2, SameType DEF BeginStop, TypeOK, FibersType
<1>5. CASE AwaitDrained
  <2>1. worker' \in WorkerRow
    BY <1>0, <1>5, WorkerSteps DEF AwaitDrained, At, Bare
  <2> QED
    BY <1>0, <1>5, <2>1, SameType DEF AwaitDrained, TypeOK, FibersType
<1>6. CASE Halt
  <2>1. worker' \in WorkerRow
    BY <1>0, <1>6, WorkerSteps DEF Halt, At, Bare
  <2>2. ProviderType' /\ BudgetType'
    <3>1. CASE live # Null /\ Ends(live) /\ UNCHANGED budget
      BY <1>6, <3>1, EndsType, SameType DEF Halt, Ends, TypeOK
    <3>2. CASE live' = Null /\ news' = FALSE /\ UNCHANGED <<ended, budget>>
      BY <1>6, <3>2, SameType DEF Halt, TypeOK, ProviderType
    <3>3. CASE Happens("control") /\ UNCHANGED <<live, ended, news>>
      BY <1>6, <3>3, HappensType DEF Halt, TypeOK, ProviderType
    <3> QED
      BY <1>6, <3>1, <3>2, <3>3 DEF Halt
  <2> QED
    BY <1>0, <1>6, <2>1, <2>2, SameType DEF Halt, TypeOK, FibersType
<1>7. CASE EndStop
  <2>1. worker' \in WorkerRow
    BY <1>7, NewRows DEF EndStop, Becomes, IdleWorker, Bare
  <2>2. AuthorityType'
    BY <1>7 DEF EndStop, TypeOK, AuthorityType
  <2> QED
    BY <1>0, <1>7, <2>1, <2>2, SameType DEF EndStop, TypeOK, FibersType
<1> QED
  BY <1>1, <1>2, <1>3, <1>4, <1>5, <1>6, <1>7 DEF Control

LEMMA TypeContinuation ==
  ASSUME TypeOK, Continuation
  PROVE  TypeOK'
<1>0. worker \in WorkerRow /\ drain \in [Actor -> DrainRow] /\ inbox \in Seq(Event)
      /\ orphans \subseteq Entry
  BY DEF TypeOK, FibersType
<1>1. CASE TakeGoal
  <2>1. inbox' \in Seq(Event)
    BY <1>1, Taken DEF TakeGoal
  <2>2. worker' \in WorkerRow
    BY <1>0, <1>1, NewRows DEF TakeGoal, Becomes, Bare
  <2> QED
    BY <1>0, <1>1, <2>1, <2>2, SameType DEF TakeGoal, TypeOK, FibersType
<1>2. CASE GoalLook
  <2>1. worker' \in WorkerRow
    BY <1>0, <1>2, NewRows, WorkerSteps DEF GoalLook, Blocked, Becomes, IdleWorker, At, Bare
  <2> QED
    BY <1>0, <1>2, <2>1, SameType DEF GoalLook, TypeOK, FibersType
<1>3. CASE GoalDrains
  <2>1. worker' \in WorkerRow
    BY <1>0, <1>3, WorkerSteps DEF GoalDrains, At, Bare
  <2>2. TurnsType' /\ drain' \in [Actor -> DrainRow]
    BY <1>0, <1>3, DrainBegins, SameType DEF GoalDrains, Actor
  <2> QED
    BY <1>0, <1>3, <2>1, <2>2, SameType DEF GoalDrains, TypeOK, FibersType
<1>4. CASE GoalDrained
  <2>1. worker' \in WorkerRow
    BY <1>0, <1>4, WorkerSteps DEF GoalDrained, At, Bare
  <2> QED
    BY <1>0, <1>4, <2>1, SameType DEF GoalDrained, TypeOK, FibersType
<1>5. CASE GoalCheck
  <2>1. worker' \in WorkerRow
    BY <1>0, <1>5, NewRows, WorkerSteps DEF GoalCheck, Blocked, Becomes, IdleWorker, At, Bare
  <2>2. ProviderType'
    BY <1>5 DEF GoalCheck, TypeOK, ProviderType
  <2> QED
    BY <1>0, <1>5, <2>1, <2>2, SameType DEF GoalCheck, TypeOK, FibersType
<1>6. CASE GoalSend
  <2>1. worker' \in WorkerRow
    BY <1>0, <1>6, NewRows, WorkerSteps DEF GoalSend, Becomes, IdleWorker, At, Bare
  <2>2. BudgetType'
    BY <1>6, SameType, HappensType DEF GoalSend
  <2>3. ProviderType' /\ HistoryType'
    <3>1. CASE Accepts(Goal)
      BY <1>6, <3>1, AcceptsType DEF GoalSend, Played, TypeOK, HistoryType
    <3>2. CASE UNCHANGED <<provider, sent>>
      BY <1>6, <3>2, SameType DEF GoalSend, TypeOK, HistoryType
    <3> QED
      BY <1>6, <3>1, <3>2 DEF GoalSend
  <2> QED
    BY <1>0, <1>6, <2>1, <2>2, <2>3, SameType DEF GoalSend, TypeOK, FibersType
<1>7. CASE GoalFailed
  <2>1. worker' \in WorkerRow
    BY <1>7, NewRows DEF GoalFailed, Becomes, IdleWorker, Bare
  <2>2. ProviderType'
    BY <1>7 DEF GoalFailed, TypeOK, ProviderType
  <2> QED
    BY <1>0, <1>7, <2>1, <2>2, SameType DEF GoalFailed, TypeOK, FibersType
<1> QED
  BY <1>1, <1>2, <1>3, <1>4, <1>5, <1>6, <1>7 DEF Continuation

LEMMA TypePromotion ==
  ASSUME TypeOK, NEW a \in Actor, Promotion(a)
  PROVE  TypeOK'
<1>0. /\ worker \in WorkerRow /\ drain \in [Actor -> DrainRow] /\ inbox \in Seq(Event)
      /\ orphans \subseteq Entry
      /\ drain[a] \in DrainRow
  BY DEF TypeOK, FibersType
<1>1. CASE Reserve(a)
  <2>1. drain[a].entry \in Entry /\ drain[a].entry.turn \in Turn
    BY <1>0, <1>1, DrainRows DEF Reserve
  <2>2. CASE gate = "ready"
    <3>1. PICK c \in Fresh(drain[a].entry.turn) :
            /\ reserved' = reserved \cup {c}
            /\ drain' = [drain EXCEPT ![a] = [at |-> "offered", entry |-> drain[a].entry,
                                             claim |-> c]]
      BY <1>1, <2>2 DEF Reserve
    <3>2. c \in ClaimId
      BY <2>1, FreshClaims
    <3>3. drain' \in [Actor -> DrainRow]
      BY <1>0, <2>1, <3>1, <3>2, NewDrains
    <3>4. AuthorityType'
      BY <1>1, <3>1, <3>2 DEF Reserve, TypeOK, AuthorityType
    <3> QED
      BY <1>0, <1>1, <3>3, <3>4, SameType DEF Reserve, TypeOK, FibersType
  <2>3. CASE gate # "ready"
    <3>1. [drain[a] EXCEPT !.at = "failed"] \in DrainRow
      BY <1>0, <1>1, DrainRows DEF Reserve
    <3>2. drain' = [drain EXCEPT ![a] = [drain[a] EXCEPT !.at = "failed"]] /\ reserved' = reserved
      BY <1>0, <1>1, <2>3 DEF Reserve
    <3>3. drain' \in [Actor -> DrainRow]
      BY <1>0, <3>1, <3>2
    <3>4. AuthorityType'
      BY <1>1, <3>2 DEF Reserve, TypeOK, AuthorityType
    <3> QED
      BY <1>0, <1>1, <3>3, <3>4, SameType DEF Reserve, TypeOK, FibersType
  <2> QED
    BY <2>2, <2>3
<1>2. CASE Commit(a)
  <2>1. drain' \in [Actor -> DrainRow]
    BY <1>0, <1>2, DrainRows DEF Commit
  <2>2. PromotedOf(drain[a].entry.turn, drain[a].claim) \in Event
    BY <1>0, <1>2, DrainRows, Events DEF Commit
  <2>3. inbox' \in Seq(Event)
    BY <1>0, <1>2, <2>2 DEF Commit, Publish
  <2> QED
    BY <1>0, <1>2, <2>1, <2>3, SameType DEF Commit, TypeOK, FibersType
<1>3. CASE Reject(a)
  <2>1. drain' \in [Actor -> DrainRow]
    BY <1>0, <1>3, DrainRows, NewDrains DEF Reject
  <2>2. BudgetType'
    BY <1>3, SameType, HappensType DEF Reject
  <2>3. AuthorityType'
    BY <1>3 DEF Reject, TypeOK, AuthorityType
  <2> QED
    BY <1>0, <1>3, <2>1, <2>2, <2>3, SameType DEF Reject, TypeOK, FibersType
<1>4. CASE Promoted(a)
  <2>1. drain' \in [Actor -> DrainRow]
    BY <1>0, <1>4, NewDrains DEF Promoted
  <2>2. TurnsType' /\ AuthorityType'
    BY <1>4 DEF Promoted, LetGo, TypeOK, TurnsType, AuthorityType
  <2> QED
    BY <1>0, <1>4, <2>1, <2>2, SameType DEF Promoted, TypeOK, FibersType
<1>5. CASE NotPromoted(a)
  <2>1. drain' \in [Actor -> DrainRow]
    BY <1>0, <1>5, NewDrains DEF NotPromoted
  <2>2. worker' \in WorkerRow
    BY <1>0, <1>5, NewRows DEF NotPromoted, Bare
  <2>3. drain[a].entry \in Entry /\ PutBack(drain[a])
    BY <1>0, <1>5, DrainRows DEF NotPromoted
  <2>4. TurnsType'
    BY <2>3, PutBackType
  <2> QED
    BY <1>0, <1>5, <2>1, <2>2, <2>4, SameType DEF NotPromoted, TypeOK, FibersType
<1> QED
  BY <1>1, <1>2, <1>3, <1>4, <1>5 DEF Promotion
(* A promotion that is interrupted. *)
LEMMA InterruptsType ==
  ASSUME TypeOK, Interrupts(drain["worker"]), UNCHANGED <<gate, deleted>>
  PROVE  TurnsType' /\ AuthorityType' /\ drain' \in [Actor -> DrainRow] /\ orphans' \subseteq Entry
<1>0. drain \in [Actor -> DrainRow] /\ drain["worker"] \in DrainRow /\ orphans \subseteq Entry
  BY DEF TypeOK, FibersType, Actor
<1>1. CASE UNCHANGED <<turns, drain, orphans, reserved>>
  BY <1>0, <1>1, SameType DEF TypeOK, AuthorityType
<1>2. CASE drain["worker"].at = "reserve" /\ PutBack(drain["worker"])
           /\ drain' = [drain EXCEPT !["worker"] = NoDrain] /\ UNCHANGED <<orphans, reserved>>
  <2>1. TurnsType'
    BY <1>0, <1>2, DrainRows, PutBackType
  <2>2. drain' \in [Actor -> DrainRow]
    BY <1>0, <1>2, NewDrains
  <2> QED
    BY <1>0, <1>2, <2>1, <2>2 DEF TypeOK, AuthorityType
<1>3. CASE /\ drain["worker"].at = "offered" /\ PutBack(drain["worker"])
           /\ drain' = [drain EXCEPT !["worker"] = NoDrain]
           /\ orphans' = orphans \cup {[turn |-> drain["worker"].entry.turn,
                                         claim |-> drain["worker"].claim]}
           /\ reserved' = reserved \ {drain["worker"].claim}
  <2>1. TurnsType'
    BY <1>0, <1>3, DrainRows, PutBackType
  <2>2. drain' \in [Actor -> DrainRow]
    BY <1>0, <1>3, NewDrains
  <2>3. [turn |-> drain["worker"].entry.turn, claim |-> drain["worker"].claim] \in Entry
    BY <1>0, <1>3, DrainRows DEF Entry
  <2>4. orphans' \subseteq Entry
    BY <1>0, <1>3, <2>3
  <2> QED
    BY <1>3, <2>1, <2>2, <2>4 DEF TypeOK, AuthorityType
<1> QED
  BY <1>1, <1>2, <1>3 DEF Interrupts

LEMMA TypeEnvironment ==
  ASSUME TypeOK, Environment
  PROVE  TypeOK'
<1>0. worker \in WorkerRow /\ drain \in [Actor -> DrainRow] /\ inbox \in Seq(Event)
      /\ orphans \subseteq Entry
  BY DEF TypeOK, FibersType
<1>1. ASSUME NEW t \in Turn, Submit(t) PROVE TypeOK'
  <2>1. PICK c \in Fresh(t) :
          /\ reserved' = reserved \cup {c}
          /\ Publish(IF projected = "running"
                       THEN <<QueuedOf(t, c)>>
                              \o (IF t \in Steer THEN <<[kind |-> "interrupt"]>> ELSE <<>>)
                       ELSE <<StartOf(t, c)>>)
    BY <1>1 DEF Submit
  <2>2. c \in ClaimId
    BY FreshClaims
  <2>3. QueuedOf(t, c) \in Event /\ StartOf(t, c) \in Event /\ [kind |-> "interrupt"] \in Event
    BY <2>2, Events
  <2>4. inbox' \in Seq(Event)
    <3>1. CASE projected # "running"
      BY <1>0, <2>1, <2>3, <3>1 DEF Publish
    <3>2. CASE projected = "running" /\ t \in Steer
      BY <1>0, <2>1, <2>3, <3>2 DEF Publish
    <3>3. CASE projected = "running" /\ t \notin Steer
      BY <1>0, <2>1, <2>3, <3>3 DEF Publish
    <3> QED
      BY <3>1, <3>2, <3>3
  <2>5. TurnsType' /\ AuthorityType'
    BY <1>1, <2>1, <2>2 DEF Submit, TypeOK, TurnsType, AuthorityType
  <2> QED
    BY <1>0, <1>1, <2>4, <2>5, SameType DEF Submit, TypeOK, FibersType
<1>2. CASE TurnEnds
  <2>1. ProviderType'
    BY <1>2, EndsType DEF TurnEnds, Ends, TypeOK, ProviderType
  <2> QED
    BY <1>0, <1>2, <2>1, SameType DEF TurnEnds, fibers, TypeOK, FibersType
<1>3. CASE Ingest
  <2>1. ProviderType'
    BY <1>3 DEF Ingest, TypeOK, ProviderType
  <2> QED
    BY <1>0, <1>3, <2>1, SameType DEF Ingest, fibers, TypeOK, FibersType
<1>4. CASE AskStop
  <2>1. inbox' \in Seq(Event)
    BY <1>0, <1>4, Events DEF AskStop, Publish
  <2>2. BudgetType'
    BY <1>4 DEF AskStop, TypeOK, BudgetType
  <2> QED
    BY <1>0, <1>4, <2>1, <2>2, SameType DEF AskStop, TypeOK, FibersType
<1>5. CASE AskGoal
  <2>1. inbox' \in Seq(Event)
    BY <1>0, <1>5, Events DEF AskGoal, Publish
  <2>2. BudgetType'
    BY <1>5 DEF AskGoal, TypeOK, BudgetType
  <2> QED
    BY <1>0, <1>5, <2>1, <2>2, SameType DEF AskGoal, TypeOK, FibersType
<1>6. CASE SwitchAway
  <2>1. BudgetType' /\ AuthorityType'
    BY <1>6 DEF SwitchAway, TypeOK, BudgetType, AuthorityType
  <2> QED
    BY <1>0, <1>6, <2>1, SameType DEF SwitchAway, fibers, TypeOK, FibersType
<1>7. CASE SwitchBack
  <2>1. AuthorityType'
    BY <1>7 DEF SwitchBack, TypeOK, AuthorityType
  <2> QED
    BY <1>0, <1>7, <2>1, SameType DEF SwitchBack, fibers, TypeOK, FibersType
<1>8. CASE Expire
  <2>1. AuthorityType'
    BY <1>8 DEF Expire, TypeOK, AuthorityType
  <2> QED
    BY <1>0, <1>8, <2>1, SameType DEF Expire, fibers, TypeOK, FibersType
<1>9. CASE Delete
  <2>1. AuthorityType'
    BY <1>9 DEF Delete, TypeOK, AuthorityType
  <2> QED
    BY <1>0, <1>9, <2>1, SameType DEF Delete, fibers, TypeOK, FibersType
<1>10. CASE Teardown
  <2>1. AuthorityType'
    BY <1>10 DEF Teardown, TypeOK, AuthorityType
  <2> QED
    BY <1>0, <1>10, <2>1, SameType DEF Teardown, fibers, TypeOK, FibersType
<1>11. CASE Redeliver
  <2>1. PICK i \in DOMAIN inbox :
          IsTurn(inbox[i]) /\ Publish(<<[inbox[i] EXCEPT !.again = TRUE]>>)
    BY <1>11 DEF Redeliver
  <2>2. inbox[i] \in Event
    BY <1>0
  <2>3. [inbox[i] EXCEPT !.again = TRUE] \in Event
    BY <2>1, <2>2, Events
  <2>4. inbox' \in Seq(Event)
    BY <1>0, <2>1, <2>3 DEF Publish
  <2>5. BudgetType'
    BY <1>11, HappensType DEF Redeliver
  <2> QED
    BY <1>0, <1>11, <2>4, <2>5, SameType DEF Redeliver, TypeOK, FibersType
<1>12. CASE Timeout
  <2>1. BudgetType'
    BY <1>12, HappensType DEF Timeout
  <2>2. TurnsType' /\ AuthorityType' /\ drain' \in [Actor -> DrainRow] /\ orphans' \subseteq Entry
    BY <1>12, InterruptsType DEF Timeout
  <2>3. worker' \in WorkerRow
    <3>1. CASE worker.at = "goal-draining"
      BY <1>12, <3>1, NewRows DEF Timeout, Becomes, Bare
    <3>2. CASE worker.at \in {"send", "sending", "draining"}
      <4>1. worker' = [at |-> "release", turn |-> worker.turn, claim |-> worker.claim]
        BY <1>12, <3>2 DEF Timeout, Becomes
      <4>2. worker.turn \in Turn /\ worker.claim \in ClaimId \cup {Null}
        BY <1>0, <3>2, RowKept DEF Handling
      <4> QED
        BY <4>1, <4>2, NewRows
    <3> QED
      BY <1>12, <3>1, <3>2 DEF Timeout
  <2> QED
    BY <1>0, <1>12, <2>1, <2>2, <2>3, SameType DEF Timeout, TypeOK, FibersType
<1>13. CASE CommitOrphan
  <2>1. PICK o \in orphans :
          orphans' = orphans \ {o} /\ inbox' \in {inbox, Append(inbox, PromotedOf(o.turn, o.claim))}
    BY <1>13 DEF CommitOrphan
  <2>2. PromotedOf(o.turn, o.claim) \in Event
    BY <1>0, Events DEF Entry
  <2>3. inbox' \in Seq(Event)
    BY <1>0, <2>1, <2>2
  <2> QED
    BY <1>0, <1>13, <2>1, <2>3, SameType DEF CommitOrphan, TypeOK, FibersType
<1> QED
  BY <1>1, <1>2, <1>3, <1>4, <1>5, <1>6, <1>7, <1>8, <1>9, <1>10, <1>11, <1>12, <1>13
  DEF Environment

LEMMA TypeListeners ==
  ASSUME TypeOK, HearEnd \/ HearDeletion \/ RetryGoal
  PROVE  TypeOK'
<1>0. worker \in WorkerRow /\ drain \in [Actor -> DrainRow] /\ inbox \in Seq(Event)
      /\ orphans \subseteq Entry
  BY DEF TypeOK, FibersType
<1>1. CASE HearEnd
  <2>1. ended' \in Seq(Played)
    <3>1. ended \in Seq(Played)
      BY DEF TypeOK, ProviderType
    <3> QED
      BY <1>1, <3>1 DEF HearEnd
  <2>2. ProviderType'
    BY <1>1, <2>1 DEF HearEnd, TypeOK, ProviderType
  <2>3. worker' \in WorkerRow
    BY <1>0, <1>1, WorkerSteps DEF HearEnd, Parks
  <2>4. TurnsType' /\ drain' \in [Actor -> DrainRow]
    BY <1>0, <1>1, DrainBegins, SameType DEF HearEnd, Actor
  <2> QED
    BY <1>0, <1>1, <2>2, <2>3, <2>4, SameType DEF HearEnd, TypeOK, FibersType
<1>2. CASE HearDeletion
  <2>1. TurnsType' /\ dropped' \subseteq Turn /\ reserved' \subseteq ClaimId
    BY <1>2, Cleared DEF HearDeletion
  <2>2. AuthorityType' /\ HistoryType'
    BY <1>2, <2>1 DEF HearDeletion, TypeOK, AuthorityType, HistoryType
  <2> QED
    BY <1>0, <1>2, <2>1, <2>2, SameType DEF HearDeletion, fibers, TypeOK, FibersType
<1>3. CASE RetryGoal
  <2>1. inbox' \in Seq(Event)
    <3>1. \A e \in Event : inbox \o <<e>> \in Seq(Event)
      BY <1>0
    <3>2. [kind |-> "goal"] \in Event
      BY Events
    <3>3. inbox' = inbox \/ inbox' = inbox \o <<[kind |-> "goal"]>>
      BY <1>3 DEF RetryGoal, Publish
    <3> QED
      BY <1>0, <3>1, <3>2, <3>3
  <2>2. TurnsType' /\ drain' \in [Actor -> DrainRow]
    BY <1>0, <1>3, DrainBegins, SameType DEF RetryGoal, Actor
  <2> QED
    BY <1>0, <1>3, <2>1, <2>2, SameType DEF RetryGoal, TypeOK, FibersType
<1> QED
  BY <1>1, <1>2, <1>3

LEMMA TypeStep == TypeOK /\ [Next]_vars => TypeOK'
<1> SUFFICES ASSUME TypeOK, [Next]_vars PROVE TypeOK'
  OBVIOUS
<1>1. CASE Worker
  BY <1>1, TypeAdmission, TypeControl, TypeContinuation DEF Worker
<1>2. CASE \E a \in Actor : Promotion(a)
  BY <1>2, TypePromotion
<1>3. CASE HearEnd \/ HearDeletion \/ RetryGoal
  BY <1>3, TypeListeners
<1>4. CASE Environment
  BY <1>4, TypeEnvironment
<1>5. CASE UNCHANGED vars
  BY <1>5, SameType DEF vars, fibers, TypeOK, FibersType
<1> QED
  BY <1>1, <1>2, <1>3, <1>4, <1>5 DEF Next
-----------------------------------------------------------------------------
(* Counting the places of a claim in the queue *)

LEMMA PlacesCount ==
  ASSUME NEW q \in Seq(Entry), NEW c
  PROVE  /\ IsFiniteSet(Places(q, c)) /\ Cardinality(Places(q, c)) \in Nat
         /\ Cardinality(Places(q, c)) = 0 <=> \A i \in DOMAIN q : q[i].claim # c
<1>1. Places(q, c) \in SUBSET (1..Len(q)) /\ Len(q) \in Nat
  BY DEF Places
<1>2. IsFiniteSet(1..Len(q))
  BY <1>1, FS_Interval
<1>3. IsFiniteSet(Places(q, c))
  BY <1>1, <1>2, FS_Subset
<1>4. Cardinality(Places(q, c)) \in Nat
  BY <1>3, FS_CardinalityType
<1>5. Cardinality(Places(q, c)) = 0 <=> Places(q, c) = {}
  BY <1>3, FS_EmptySet
<1> QED
  BY <1>3, <1>4, <1>5 DEF Places

(* One more at the end. *)
LEMMA PlacesAppend ==
  ASSUME NEW q \in Seq(Entry), NEW e \in Entry, NEW c
  PROVE  Cardinality(Places(Append(q, e), c))
           = Cardinality(Places(q, c)) + (IF e.claim = c THEN 1 ELSE 0)
<1> DEFINE n == Len(q) + 1
<1>1. /\ Len(q) \in Nat /\ DOMAIN q = 1..Len(q) /\ DOMAIN Append(q, e) = 1..n
      /\ Append(q, e)[n] = e /\ \A i \in 1..Len(q) : Append(q, e)[i] = q[i]
  OBVIOUS
<1>2. n \notin Places(q, c)
  BY <1>1 DEF Places
<1>5. IsFiniteSet(Places(q, c)) /\ Cardinality(Places(q, c)) \in Nat
  BY PlacesCount
<1>3. CASE e.claim = c
  <2>1. Places(Append(q, e), c) = Places(q, c) \cup {n}
    BY <1>1, <1>3 DEF Places
  <2> QED
    BY <1>2, <1>3, <1>5, <2>1, FS_AddElement
<1>4. CASE e.claim # c
  <2>1. Places(Append(q, e), c) = Places(q, c)
    BY <1>1, <1>4 DEF Places
  <2> QED
    BY <1>4, <1>5, <2>1
<1> QED
  BY <1>3, <1>4

(* What q holds, one place further. *)
LEMMA PlacesShift ==
  ASSUME NEW q \in Seq(Entry), NEW r \in Seq(Entry), Len(r) = Len(q) + 1,
         \A i \in 1..Len(q) : r[i + 1] = q[i], NEW c
  PROVE  Cardinality(Places(r, c)) = Cardinality(Places(q, c)) + (IF r[1].claim = c THEN 1 ELSE 0)
<1> DEFINE P == Places(q, c)
           T == Places(r, c) \ {1}
           f == [i \in P |-> i + 1]
<1>1. Len(q) \in Nat /\ DOMAIN q = 1..Len(q) /\ DOMAIN r = 1..(Len(q) + 1)
  OBVIOUS
<1>2. \A i \in P : i \in 1..Len(q) /\ q[i].claim = c
  BY <1>1 DEF Places
<1>3. \A i \in P : i + 1 \in T
  <2> TAKE i \in P
  <2>1. i \in 1..Len(q) /\ r[i + 1].claim = c
    BY <1>2
  <2>2. i + 1 \in 1..(Len(q) + 1) /\ i + 1 # 1
    BY <1>1, <2>1
  <2> QED
    BY <1>1, <2>1, <2>2 DEF Places
<1>4. \A j \in T : j - 1 \in P /\ (j - 1) + 1 = j
  <2> TAKE j \in T
  <2>1. j \in 1..(Len(q) + 1) /\ j # 1 /\ r[j].claim = c
    BY <1>1 DEF Places
  <2>2. j - 1 \in 1..Len(q) /\ (j - 1) + 1 = j
    BY <1>1, <2>1
  <2>3. q[j - 1].claim = c
    BY <2>1, <2>2
  <2> QED
    BY <1>1, <2>2, <2>3 DEF Places
<1>5. f \in [P -> T]
  BY <1>3
<1>6. \A i, j \in P : f[i] = f[j] => i = j
  BY <1>2
<1>7. \A j \in T : \E i \in P : f[i] = j
  BY <1>4
<1>8. ExistsBijection(P, T)
  <2> HIDE DEF P, T, f
  <2>1. f \in Injection(P, T)
    BY <1>5, <1>6 DEF Injection, IsInjective
  <2>2. f \in Surjection(P, T)
    BY <1>5, <1>7 DEF Surjection
  <2>3. f \in Bijection(P, T)
    BY <2>1, <2>2 DEF Bijection
  <2> QED
    BY <2>3 DEF ExistsBijection
<1>9. IsFiniteSet(P) /\ Cardinality(P) \in Nat /\ IsFiniteSet(Places(r, c))
      /\ Cardinality(Places(r, c)) \in Nat
  BY PlacesCount
<1>10. Cardinality(T) = Cardinality(P)
  BY <1>8, <1>9, FS_Bijection
<1>11. Cardinality(T) = IF 1 \in Places(r, c) THEN Cardinality(Places(r, c)) - 1
                        ELSE Cardinality(Places(r, c))
  BY <1>9, FS_RemoveElement
<1>12. 1 \in Places(r, c) <=> r[1].claim = c
  BY <1>1 DEF Places
<1> QED
  BY <1>9, <1>10, <1>11, <1>12

LEMMA PlacesFront ==
  ASSUME NEW q \in Seq(Entry), NEW e \in Entry, NEW c
  PROVE  Cardinality(Places(<<e>> \o q, c))
           = Cardinality(Places(q, c)) + (IF e.claim = c THEN 1 ELSE 0)
<1>1. ASSUME NEW r, r = <<e>> \o q
      PROVE  r \in Seq(Entry) /\ Len(r) = Len(q) + 1 /\ r[1] = e
             /\ \A i \in 1..Len(q) : r[i + 1] = q[i]
  BY <1>1
<1>2. ASSUME NEW r \in Seq(Entry), Len(r) = Len(q) + 1, r[1] = e,
             \A i \in 1..Len(q) : r[i + 1] = q[i]
      PROVE  Cardinality(Places(r, c))
               = Cardinality(Places(q, c)) + (IF e.claim = c THEN 1 ELSE 0)
  BY <1>2, PlacesShift
<1>3. \A r : r = <<e>> \o q =>
        Cardinality(Places(r, c)) = Cardinality(Places(q, c)) + (IF e.claim = c THEN 1 ELSE 0)
  BY <1>1, <1>2
<1> QED
  BY <1>3, Zenon

LEMMA PlacesTail ==
  ASSUME NEW q \in Seq(Entry), q # <<>>, NEW c
  PROVE  Cardinality(Places(q, c))
           = Cardinality(Places(Tail(q), c)) + (IF Head(q).claim = c THEN 1 ELSE 0)
<1>1. ASSUME NEW r, r = Tail(q)
      PROVE  r \in Seq(Entry) /\ Len(q) = Len(r) + 1 /\ q[1] = Head(q)
             /\ \A i \in 1..Len(r) : q[i + 1] = r[i]
  BY <1>1
<1>2. ASSUME NEW r \in Seq(Entry), Len(q) = Len(r) + 1, q[1] = Head(q),
             \A i \in 1..Len(r) : q[i + 1] = r[i]
      PROVE  Cardinality(Places(q, c))
               = Cardinality(Places(r, c)) + (IF q[1].claim = c THEN 1 ELSE 0)
  BY <1>2, PlacesShift
<1>3. \A r : r = Tail(q) =>
        Cardinality(Places(q, c)) = Cardinality(Places(r, c)) + (IF Head(q).claim = c THEN 1 ELSE 0)
  BY <1>1, <1>2
<1> QED
  BY <1>3, Zenon

-----------------------------------------------------------------------------
(* The account, step by step *)

LEMMA PromotingSet ==
  ASSUME NEW dr, NEW a \in Actor, NEW dr2, \A b \in Actor \ {a} : dr2[b] = dr[b], NEW c
  PROVE  /\ Promotes(dr[a], c) \in {0, 1} /\ Promotes(dr2[a], c) \in {0, 1}
         /\ Promoting(dr, c) \in Nat /\ Promotes(dr[a], c) <= Promoting(dr, c)
         /\ Promoting(dr2, c) = (Promoting(dr, c) - Promotes(dr[a], c)) + Promotes(dr2[a], c)
<1>1. \A x : Promotes(x, c) \in {0, 1}
  BY DEF Promotes
<1>2. CASE a = "worker"
  BY <1>1, <1>2 DEF Promoting, Actor
<1>3. CASE a = "stream"
  BY <1>1, <1>3 DEF Promoting, Actor
<1>4. CASE a = "retry"
  BY <1>1, <1>4 DEF Promoting, Actor
<1> QED
  BY <1>2, <1>3, <1>4 DEF Actor

LEMMA PromotingNat ==
  ASSUME NEW dr, NEW c
  PROVE  Promoting(dr, c) \in Nat
BY DEF Promoting, Promotes

(* One fiber's promotion changes. *)
LEMMA PromotingStep ==
  ASSUME NEW a \in Actor, \A b \in Actor \ {a} : drain'[b] = drain[b], NEW c
  PROVE  Promoting(drain', c) = (Promoting(drain, c) - Promotes(drain[a], c)) + Promotes(drain'[a], c)
<1>1. ASSUME NEW dr2, \A b \in Actor \ {a} : dr2[b] = drain[b]
      PROVE  Promoting(dr2, c) = (Promoting(drain, c) - Promotes(drain[a], c)) + Promotes(dr2[a], c)
  BY <1>1, PromotingSet
<1>2. \A dr2 : (\A b \in Actor \ {a} : dr2[b] = drain[b]) =>
        Promoting(dr2, c) = (Promoting(drain, c) - Promotes(drain[a], c)) + Promotes(dr2[a], c)
  BY <1>1
<1> QED
  BY <1>2, Zenon

LEMMA HandlesBit == \A w, c : Handles(w, c) \in {0, 1}
BY DEF Handles

SameHandles == \A c \in ClaimId : Handles(worker', c) = Handles(worker, c)

(* Nothing that counts changes. *)
LEMMA AccountSame ==
  ASSUME TypeOK, ClaimInv, UNCHANGED <<queue, holders>>, SameHandles,
         \A c \in ClaimId : Promoting(drain', c) = Promoting(drain, c)
  PROVE  ClaimInv'
BY DEF ClaimInv, Uses, SameHandles

(* The head of the queue is promoted. *)
LEMMA AccountBegins ==
  ASSUME TypeOK, ClaimInv, NEW a \in Actor, BeginDrain(a), drain[a] = NoDrain,
         UNCHANGED holders, SameHandles
  PROVE  ClaimInv'
<1>1. queue \in Seq(Entry) /\ queue # <<>> /\ queue' = Tail(queue) /\ drain \in [Actor -> DrainRow]
      /\ drain' = [drain EXCEPT ![a] = [at |-> "reserve", entry |-> Head(queue)]]
  BY DEF TypeOK, TurnsType, FibersType, BeginDrain
<1>2. ASSUME NEW c \in ClaimId PROVE Uses(c)' = Uses(c)
  <2>1. Cardinality(Places(queue, c))
          = Cardinality(Places(queue', c)) + (IF Head(queue).claim = c THEN 1 ELSE 0)
    BY <1>1, PlacesTail
  <2>2. Promoting(drain', c) = Promoting(drain, c) + (IF Head(queue).claim = c THEN 1 ELSE 0)
    <3>1. Promotes(drain[a], c) = 0
      BY DEF Promotes, NoDrain
    <3>2. Promotes([at |-> "reserve", entry |-> Head(queue)], c)
            = IF Head(queue).claim = c THEN 1 ELSE 0
      BY DEF Promotes
    <3>3. Promoting(drain', c) = (Promoting(drain, c) - Promotes(drain[a], c)) + Promotes(drain'[a], c)
      <4>1. \A b \in Actor \ {a} : drain'[b] = drain[b]
        BY <1>1
      <4> QED
        BY <4>1, PromotingStep
    <3>5. drain'[a] = [at |-> "reserve", entry |-> Head(queue)]
      BY <1>1
    <3>4. Promoting(drain, c) \in Nat
      BY PromotingNat
    <3> QED
      BY <3>1, <3>2, <3>3, <3>4, <3>5
  <2>3. Cardinality(Places(queue', c)) \in Nat
    <3>1. queue' \in Seq(Entry)
      BY <1>1
    <3> QED
      BY <3>1, PlacesCount
  <2>4. Promoting(drain, c) \in Nat /\ Handles(worker, c) \in Nat
    BY PromotingNat, HandlesBit
  <2> QED
    BY <2>1, <2>2, <2>3, <2>4 DEF Uses, SameHandles
<1> QED
  BY <1>2 DEF ClaimInv

(* A promotion that failed gives its claim back to the queue. *)
LEMMA AccountPutBack ==
  ASSUME TypeOK, ClaimInv, NEW a \in Actor, drain[a].at # "no", PutBack(drain[a]),
         drain' = [drain EXCEPT ![a] = NoDrain], UNCHANGED holders, SameHandles
  PROVE  ClaimInv'
<1>1. queue \in Seq(Entry) /\ drain \in [Actor -> DrainRow] /\ drain[a].entry \in Entry
      /\ queue' = <<drain[a].entry>> \o queue
  BY DrainRows DEF TypeOK, TurnsType, FibersType, PutBack, RequeuedFront
<1>2. ASSUME NEW c \in ClaimId PROVE Uses(c)' = Uses(c)
  <2>1. Cardinality(Places(queue', c))
          = Cardinality(Places(queue, c)) + (IF drain[a].entry.claim = c THEN 1 ELSE 0)
    BY <1>1, PlacesFront
  <2>2. Promoting(drain, c) = Promoting(drain', c) + (IF drain[a].entry.claim = c THEN 1 ELSE 0)
    <3>1. Promotes(NoDrain, c) = 0
      BY DEF Promotes, NoDrain
    <3>2. Promotes(drain[a], c) = IF drain[a].entry.claim = c THEN 1 ELSE 0
      BY DEF Promotes
    <3>3. Promoting(drain', c) = (Promoting(drain, c) - Promotes(drain[a], c)) + Promotes(drain'[a], c)
      <4>1. \A b \in Actor \ {a} : drain'[b] = drain[b]
        BY <1>1
      <4> QED
        BY <4>1, PromotingStep
    <3>5. drain'[a] = NoDrain
      BY <1>1
    <3>4. Promoting(drain, c) \in Nat
      BY PromotingNat
    <3> QED
      BY <3>1, <3>2, <3>3, <3>4, <3>5
  <2>3. Cardinality(Places(queue, c)) \in Nat
    BY <1>1, PlacesCount
  <2>4. Promoting(drain, c) \in Nat /\ Promoting(drain', c) \in Nat /\ Handles(worker, c) \in Nat
    BY PromotingNat, HandlesBit
  <2> QED
    BY <2>1, <2>2, <2>3, <2>4 DEF Uses, SameHandles
<1> QED
  BY <1>2 DEF ClaimInv

(* What is canceled lets go of all its places. *)
LEMMA AccountCleared ==
  ASSUME TypeOK, ClaimInv, ClearThread, UNCHANGED drain, SameHandles
  PROVE  ClaimInv'
<1>1. queue \in Seq(Entry) /\ queue' = <<>> /\ <<>> \in Seq(Entry) /\ drain \in [Actor -> DrainRow]
      /\ holders' = [c \in ClaimId |-> holders[c] - Cardinality(Places(queue, c))]
  BY DEF TypeOK, TurnsType, FibersType, ClearThread, Places
<1>2. ASSUME NEW c \in ClaimId PROVE holders'[c] \in Nat /\ holders'[c] = Uses(c)'
  <2>1. Cardinality(Places(queue', c)) = 0
    <3>1. Places(<<>>, c) = {}
      BY DEF Places
    <3> QED
      BY <1>1, <3>1, FS_EmptySet
  <2>2. Cardinality(Places(queue, c)) \in Nat /\ Promoting(drain, c) \in Nat
        /\ Handles(worker, c) \in Nat
    <3>1. Cardinality(Places(queue, c)) \in Nat
      BY <1>1, PlacesCount
    <3> QED
      BY <3>1, PromotingNat, HandlesBit
  <2>3. holders[c] = Cardinality(Places(queue, c)) + Promoting(drain, c) + Handles(worker, c)
    BY DEF ClaimInv, Uses
  <2>4. holders'[c] = Promoting(drain, c) + Handles(worker, c)
    BY <1>1, <2>2, <2>3
  <2> QED
    BY <2>1, <2>2, <2>4 DEF Uses, SameHandles
<1> QED
  BY <1>1, <1>2 DEF ClaimInv
(* A turn gets in line with the claim the handler held, or has just taken. *)
LEMMA AccountEnqueued ==
  ASSUME TypeOK, ClaimInv, NEW e \in Entry, queue' = Enqueued(e), UNCHANGED drain,
         holders' \in [ClaimId -> Nat],
         \A c \in ClaimId :
           holders'[c] + Handles(worker, c)
             = holders[c] + Handles(worker', c) + (IF e.claim = c THEN 1 ELSE 0)
  PROVE  ClaimInv'
<1>1. queue \in Seq(Entry)
  BY DEF TypeOK, TurnsType
<1>2. ASSUME NEW c \in ClaimId PROVE holders'[c] = Uses(c)'
  <2>1. Cardinality(Places(queue', c))
          = Cardinality(Places(queue, c)) + (IF e.claim = c THEN 1 ELSE 0)
    <3>1. CASE queue' = <<e>> \o queue
      BY <1>1, <3>1, PlacesFront
    <3>2. CASE queue' = Append(queue, e)
      BY <1>1, <3>2, PlacesAppend
    <3> QED
      BY <3>1, <3>2 DEF Enqueued
  <2>2. Cardinality(Places(queue, c)) \in Nat
    BY <1>1, PlacesCount
  <2>3. Promoting(drain, c) \in Nat /\ Handles(worker, c) \in {0, 1} /\ Handles(worker', c) \in {0, 1}
    BY PromotingNat, HandlesBit
  <2>4. holders[c] = Cardinality(Places(queue, c)) + Promoting(drain, c) + Handles(worker, c)
    BY DEF ClaimInv, Uses
  <2>5. holders'[c] \in Nat
        /\ holders'[c] + Handles(worker, c)
             = holders[c] + Handles(worker', c) + (IF e.claim = c THEN 1 ELSE 0)
    OBVIOUS
  <2> QED
    BY <2>1, <2>2, <2>3, <2>4, <2>5 DEF Uses
<1> QED
  BY <1>2 DEF ClaimInv

(* The handler takes or lets go of a claim. *)
LEMMA AccountHandler ==
  ASSUME TypeOK, ClaimInv, UNCHANGED <<queue, drain>>, holders' \in [ClaimId -> Nat],
         \A c \in ClaimId : holders'[c] + Handles(worker, c) = holders[c] + Handles(worker', c)
  PROVE  ClaimInv'
<1>1. queue \in Seq(Entry)
  BY DEF TypeOK, TurnsType
<1>2. ASSUME NEW c \in ClaimId PROVE holders'[c] = Uses(c)'
  <2>1. Cardinality(Places(queue, c)) \in Nat
    BY <1>1, PlacesCount
  <2>2. Promoting(drain, c) \in Nat /\ Handles(worker, c) \in {0, 1} /\ Handles(worker', c) \in {0, 1}
    BY PromotingNat, HandlesBit
  <2>3. holders[c] = Cardinality(Places(queue, c)) + Promoting(drain, c) + Handles(worker, c)
    BY DEF ClaimInv, Uses
  <2>4. holders'[c] \in Nat /\ holders'[c] + Handles(worker, c) = holders[c] + Handles(worker', c)
    OBVIOUS
  <2> QED
    BY <2>1, <2>2, <2>3, <2>4 DEF Uses
<1> QED
  BY <1>2 DEF ClaimInv

(* Who refers to a claim holds it. *)
LEMMA ClaimCounts ==
  ASSUME TypeOK, ClaimInv, NEW c \in ClaimId
  PROVE  /\ holders[c] \in Nat
         /\ Cardinality(Places(queue, c)) \in Nat /\ Cardinality(Places(queue, c)) <= holders[c]
         /\ \A a \in Actor : Promotes(drain[a], c) <= holders[c]
         /\ Handles(worker, c) <= holders[c]
         /\ holders[c] = Cardinality(Places(queue, c)) + Promoting(drain, c) + Handles(worker, c)
<1>1. Cardinality(Places(queue, c)) \in Nat
  BY PlacesCount DEF TypeOK, TurnsType
<1>2. Promoting(drain, c) \in Nat /\ Handles(worker, c) \in {0, 1}
  BY PromotingNat, HandlesBit
<1>3. \A a \in Actor : Promotes(drain[a], c) \in {0, 1} /\ Promotes(drain[a], c) <= Promoting(drain, c)
  BY PromotingSet
<1>4. holders[c] = Cardinality(Places(queue, c)) + Promoting(drain, c) + Handles(worker, c)
      /\ holders[c] \in Nat
  BY DEF ClaimInv, Uses
<1> QED
  BY <1>1, <1>2, <1>3, <1>4

LEMMA Let ==
  ASSUME holders \in [ClaimId -> Nat], NEW k \in ClaimId, LetGo({k})
  PROVE  /\ holders' \in [ClaimId -> Nat]
         /\ \A c \in ClaimId : holders'[c] = IF c = k /\ holders[c] > 0 THEN holders[c] - 1
                                             ELSE holders[c]
<1>1. holders' = [c \in ClaimId |-> IF c \in {k} /\ holders[c] > 0 THEN holders[c] - 1 ELSE holders[c]]
  BY DEF LetGo
<1>2. \A c \in ClaimId : holders[c] \in Nat
  OBVIOUS
<1> QED
  BY <1>1, <1>2

-----------------------------------------------------------------------------
(* Where the claim of the handler goes *)

LEMMA HandlesKept ==
  ASSUME worker.at \in Handling, worker'.at \in Handling, worker'.claim = worker.claim
  PROVE  SameHandles
BY DEF SameHandles, Handles

(* A handler without a claim of its own. *)
LEMMA HandlesNone ==
  ASSUME NEW w, w.at \notin Handling \/ w.claim = Null
  PROVE  \A c \in ClaimId : Handles(w, c) = 0
BY ClaimAssumption DEF Handles

LEMMA HandlesNever ==
  ASSUME worker.at \notin Handling \/ worker.claim = Null,
         worker'.at \notin Handling \/ worker'.claim = Null
  PROVE  SameHandles
<1>1. \A c \in ClaimId : Handles(worker, c) = 0
  BY HandlesNone
<1>2. \A c \in ClaimId : Handles(worker', c) = 0
  <2>1. \A w : (w.at \notin Handling \/ w.claim = Null) => \A c \in ClaimId : Handles(w, c) = 0
    BY HandlesNone
  <2> QED
    BY <2>1, Zenon
<1> QED
  BY <1>1, <1>2 DEF SameHandles

LEMMA HandlesUnmoved == UNCHANGED worker => SameHandles
BY DEF SameHandles

(* The steps of a handler that keep what it holds. *)
HandlerGoesOn ==
  \/ Look \/ DecideToStart \/ Send \/ Sent \/ Report \/ WorkerDrains \/ WorkerDrained

LEMMA HandlesGoesOn ==
  ASSUME TypeOK, HandlerGoesOn
  PROVE  SameHandles
<1>0. worker \in WorkerRow
  BY DEF TypeOK, FibersType
<1>1. worker.at \in Handling
  BY DEF HandlerGoesOn, Look, DecideToStart, Send, Sent, Report, WorkerDrains, WorkerDrained, Handling
<1>2. \A s : [worker EXCEPT !.at = s].at = s /\ [worker EXCEPT !.at = s].claim = worker.claim
  BY <1>0, <1>1, RowKept
<1>3. \/ \E s \in Handling : worker' = [worker EXCEPT !.at = s]
      \/ worker'.at \in Handling /\ worker'.claim = worker.claim
  <2>1. CASE Look
    BY <2>1 DEF Look, At, Becomes, Handling
  <2>2. CASE DecideToStart
    BY <2>2 DEF DecideToStart, At, Handling
  <2>3. CASE Send
    BY <2>3 DEF Send, At, Becomes, Handling
  <2>4. CASE Sent
    BY <2>4 DEF Sent, Becomes, Handling
  <2>5. CASE Report
    BY <2>5 DEF Report, At, Handling
  <2>6. CASE WorkerDrains
    BY <2>6 DEF WorkerDrains, At, Handling
  <2>7. CASE WorkerDrained
    BY <2>7 DEF WorkerDrained, At, Handling
  <2> QED
    BY <2>1, <2>2, <2>3, <2>4, <2>5, <2>6, <2>7 DEF HandlerGoesOn
<1>4. worker'.at \in Handling /\ worker'.claim = worker.claim
  BY <1>2, <1>3
<1> QED
  BY <1>1, <1>4, HandlesKept

(* The handlers that hold no claim. *)
HandlerBare ==
  \/ QueuedLook \/ TakeInterrupt \/ Interrupt \/ BeginStop \/ AwaitDrained \/ Halt \/ EndStop
  \/ Continuation

LEMMA BareAfter ==
  ASSUME NEW w \in WorkerRow, w.at \in Bare, NEW s \in Bare
  PROVE  [w EXCEPT !.at = s].at \notin Handling
<1>1. [w EXCEPT !.at = s].at = s
  BY RowKept
<1> QED
  BY <1>1 DEF Bare, Handling

LEMMA HandlesBare ==
  ASSUME TypeOK, HandlerBare
  PROVE  SameHandles
<1>0. worker \in WorkerRow
  BY DEF TypeOK, FibersType
<1>a. IdleWorker.at = "idle" /\ "idle" \notin Handling
  BY DEF IdleWorker, Handling
<1>b. worker.at \in Bare => worker.at \notin Handling
  BY DEF Bare, Handling
<1>c. \A s \in Bare : worker.at \in Bare /\ At(s) => worker'.at \notin Handling
  BY <1>0, BareAfter DEF At
<1>1. CASE QueuedLook
  <2>1. worker.at = "queued" /\ worker.claim = Null
    BY <1>0, <1>1 DEF QueuedLook, WorkerRow, Bare
  <2>2. \E s : worker' = [worker EXCEPT !.at = s]
    BY <1>1 DEF QueuedLook, At
  <2>3. worker'.claim = Null
    BY <1>0, <2>1, <2>2, RowKept
  <2> QED
    BY <2>1, <2>3, HandlesNever
<1>2. CASE TakeInterrupt
  BY <1>2, <1>a, HandlesNever DEF TakeInterrupt, Takes, Idle, Becomes, IdleWorker, Handling
<1>3. CASE Interrupt
  BY <1>3, <1>a, HandlesNever DEF Interrupt, Becomes, Handling
<1>4. CASE BeginStop
  <2>1. worker.at \in Bare /\ (worker' = IdleWorker \/ At("await")) /\ "await" \in Bare
    BY <1>4 DEF BeginStop, Becomes, Bare
  <2> QED
    BY <1>a, <1>b, <1>c, <2>1, HandlesNever
<1>5. CASE AwaitDrained
  <2>1. worker.at \in Bare /\ \E s \in Bare : At(s)
    BY <1>5 DEF AwaitDrained, Bare
  <2> QED
    BY <1>b, <1>c, <2>1, HandlesNever
<1>6. CASE Halt
  <2>1. worker.at \in Bare /\ \E s \in Bare : At(s)
    BY <1>6 DEF Halt, Bare
  <2> QED
    BY <1>b, <1>c, <2>1, HandlesNever
<1>7. CASE EndStop
  BY <1>7, <1>a, HandlesNever DEF EndStop, Becomes, Handling
<1>8. CASE Continuation
  <2>1. CASE TakeGoal
    <3>1. worker.at = "idle" /\ (worker' = worker \/ worker' = [at |-> "goal-look"])
      BY <2>1 DEF TakeGoal, Takes, Idle, Becomes
    <3> QED
      BY <3>1, HandlesNever DEF Handling
  <2>2. CASE GoalLook \/ GoalDrains \/ GoalDrained \/ GoalCheck \/ GoalSend \/ GoalFailed
    <3>1. worker.at \in Bare
      BY <2>2 DEF GoalLook, GoalDrains, GoalDrained, GoalCheck, GoalSend, GoalFailed, Bare
    <3>2. worker' = IdleWorker \/ \E s \in Bare : At(s)
      <4>1. CASE GoalLook
        BY <4>1 DEF GoalLook, Blocked, Becomes, Bare
      <4>2. CASE GoalDrains
        BY <4>2 DEF GoalDrains, Bare
      <4>3. CASE GoalDrained
        BY <4>3 DEF GoalDrained, Bare
      <4>4. CASE GoalCheck
        BY <4>4 DEF GoalCheck, Blocked, Becomes, Bare
      <4>5. CASE GoalSend
        BY <4>5 DEF GoalSend, Becomes, Bare
      <4>6. CASE GoalFailed
        BY <4>6 DEF GoalFailed, Becomes
      <4> QED
        BY <2>2, <4>1, <4>2, <4>3, <4>4, <4>5, <4>6
    <3> QED
      BY <1>a, <1>b, <1>c, <3>1, <3>2, HandlesNever
  <2> QED
    BY <1>8, <2>1, <2>2 DEF Continuation
<1> QED
  BY <1>1, <1>2, <1>3, <1>4, <1>5, <1>6, <1>7, <1>8 DEF HandlerBare

-----------------------------------------------------------------------------
(* The account is kept *)

LEMMA TakeHolds ==
  ASSUME holders \in [ClaimId -> Nat], NEW k \in ClaimId, Take(k)
  PROVE  /\ holders' \in [ClaimId -> Nat]
         /\ \A c \in ClaimId : holders'[c] = holders[c] + (IF k = c THEN 1 ELSE 0)
BY DEF Take

LEMMA HandlesRow ==
  ASSUME NEW w, w.at \in Handling, NEW c
  PROVE  Handles(w, c) = IF w.claim = c THEN 1 ELSE 0
BY DEF Handles

LEMMA SamePlaces ==
  ASSUME TypeOK, ClaimInv, UNCHANGED <<queue, drain, holders>>, SameHandles
  PROVE  ClaimInv'
BY AccountSame

LEMMA ClaimAdmission ==
  ASSUME TypeOK, ClaimInv, WaitInv, Admission
  PROVE  ClaimInv'
<1>0. worker \in WorkerRow /\ holders \in [ClaimId -> Nat]
  BY DEF TypeOK, FibersType, ClaimInv
<1>1. CASE TakeStart
  <2> DEFINE e == Head(inbox)
  <2>1. e \in Event /\ IsTurn(e) /\ worker.at = "idle" /\ UNCHANGED <<queue, drain>>
    BY <1>1, Taken DEF TakeStart, IsTurn, IsStart
  <2>2. e.turn \in Turn /\ e.claim \in ClaimId
    BY <2>1, Events
  <2>3. CASE UNCHANGED <<worker, holders>>
    BY <2>1, <2>3, SamePlaces, HandlesUnmoved
  <2>4. CASE Take(e.claim) /\ worker' = [at |-> "look", turn |-> e.turn, claim |-> e.claim]
    <3>1. holders' \in [ClaimId -> Nat]
          /\ \A c \in ClaimId : holders'[c] = holders[c] + (IF e.claim = c THEN 1 ELSE 0)
      BY <1>0, <2>2, <2>4, TakeHolds
    <3>2. \A c \in ClaimId : Handles(worker, c) = 0
      BY <2>1, HandlesNone DEF Handling
    <3>3. \A c \in ClaimId : Handles(worker', c) = IF e.claim = c THEN 1 ELSE 0
      BY <2>4 DEF Handles, Handling
    <3>4. ASSUME NEW c \in ClaimId
          PROVE  holders'[c] + Handles(worker, c) = holders[c] + Handles(worker', c)
      BY <1>0, <3>1, <3>2, <3>3
    <3> QED
      BY <2>1, <3>1, <3>4, AccountHandler
  <2> QED
    BY <1>1, <2>3, <2>4 DEF TakeStart, NotClaimed, Becomes
<1>2. CASE HandlerGoesOn /\ UNCHANGED <<queue, drain, holders>>
  BY <1>2, HandlesGoesOn, SamePlaces
<1>3. CASE WorkerDrains /\ BeginDrain("worker")
  <2>1. drain["worker"] = NoDrain /\ UNCHANGED holders
    BY <1>3 DEF WaitInv, WorkerDrains, authority
  <2>2. SameHandles
    BY <1>3, HandlesGoesOn DEF HandlerGoesOn
  <2> QED
    BY <1>3, <2>1, <2>2, AccountBegins DEF Actor
<1>4. CASE DecideToQueue
  <2> DEFINE e == [turn |-> worker.turn, claim |-> worker.claim]
  <2>1. worker.turn \in Turn /\ worker.claim \in ClaimId /\ worker.at \in Handling
    BY <1>0, <1>4, RowKept DEF DecideToQueue, Handling
  <2>2. e \in Entry /\ e.claim = worker.claim /\ queue' = Enqueued(e) /\ UNCHANGED <<drain, holders>>
    BY <1>4, <2>1 DEF DecideToQueue, Entry, authority
  <2>3. \A c \in ClaimId : Handles(worker, c) = IF e.claim = c THEN 1 ELSE 0
    BY <2>1, HandlesRow
  <2>4. \A c \in ClaimId : Handles(worker', c) = 0
    BY <1>4 DEF DecideToQueue, Becomes, IdleWorker, Handles, Handling
  <2>5. ASSUME NEW c \in ClaimId
        PROVE  holders'[c] + Handles(worker, c)
                 = holders[c] + Handles(worker', c) + (IF e.claim = c THEN 1 ELSE 0)
    BY <1>0, <2>2, <2>3, <2>4
  <2> HIDE DEF e
  <2> QED
    BY <1>0, <2>2, <2>5, AccountEnqueued
<1>5. CASE TakeQueued
  <2> DEFINE h == Head(inbox)
             e == [turn |-> h.turn, claim |-> h.claim]
  <2>1. h \in Event /\ IsTurn(h) /\ worker.at = "idle" /\ UNCHANGED drain
    BY <1>5, Taken DEF TakeQueued, IsTurn, IsStart
  <2>2. e \in Entry /\ e.claim = h.claim /\ h.claim \in ClaimId
    BY <2>1, Events
  <2>3. CASE UNCHANGED <<worker, holders, queue>>
    BY <2>1, <2>3, SamePlaces, HandlesUnmoved
  <2>4. CASE Take(h.claim) /\ queue' = Enqueued(e)
             /\ worker' = [at |-> "queued", turn |-> h.turn, claim |-> Null]
    <3>1. holders' \in [ClaimId -> Nat]
          /\ \A c \in ClaimId : holders'[c] = holders[c] + (IF e.claim = c THEN 1 ELSE 0)
      BY <1>0, <2>2, <2>4, TakeHolds
    <3>2. \A c \in ClaimId : Handles(worker, c) = 0
      BY <2>1, HandlesNone DEF Handling
    <3>3. \A c \in ClaimId : Handles(worker', c) = 0
      BY <2>4 DEF Handles, Handling
    <3>4. ASSUME NEW c \in ClaimId
          PROVE  holders'[c] + Handles(worker, c)
                   = holders[c] + Handles(worker', c) + (IF e.claim = c THEN 1 ELSE 0)
      BY <1>0, <3>1, <3>2, <3>3
    <3>5. queue' = Enqueued(e)
      BY <2>4
    <3> HIDE DEF e
    <3> QED
      BY <2>1, <2>2, <3>1, <3>4, <3>5, AccountEnqueued
  <2> QED
    BY <1>5, <2>3, <2>4 DEF TakeQueued, NotClaimed, Becomes
<1>6. CASE Release
  <2>1. worker.at \in Handling /\ worker.claim \in ClaimId \cup {Null} /\ UNCHANGED <<queue, drain>>
    BY <1>0, <1>6, RowKept DEF Release, Handling, turns
  <2>2. \A c \in ClaimId : Handles(worker', c) = 0
    BY <1>6 DEF Release, Becomes, IdleWorker, Handles, Handling
  <2>3. CASE worker.claim = Null
    <3>1. UNCHANGED holders
      BY <1>6, <2>3 DEF Release
    <3>2. SameHandles
      BY <2>2, <2>3, HandlesNone DEF SameHandles
    <3> QED
      BY <2>1, <3>1, <3>2, SamePlaces
  <2>4. CASE worker.claim \in ClaimId
    <3>1. LetGo({worker.claim})
      BY <1>6, <2>4, ClaimAssumption DEF Release
    <3>2. /\ holders' \in [ClaimId -> Nat]
          /\ \A c \in ClaimId : holders'[c] = IF c = worker.claim /\ holders[c] > 0 THEN holders[c] - 1
                                              ELSE holders[c]
      BY <1>0, <2>4, <3>1, Let
    <3>3. ASSUME NEW c \in ClaimId
          PROVE  holders'[c] + Handles(worker, c) = holders[c] + Handles(worker', c)
      <4>1. holders[c] \in Nat /\ Handles(worker, c) <= holders[c]
        BY ClaimCounts
      <4>2. Handles(worker, c) = IF worker.claim = c THEN 1 ELSE 0
        BY <2>1, HandlesRow
      <4> QED
        BY <2>2, <3>2, <4>1, <4>2
    <3> QED
      BY <2>1, <3>2, <3>3, AccountHandler
  <2> QED
    BY <2>1, <2>3, <2>4
<1>7. CASE QueuedLook
  BY <1>7, HandlesBare, SamePlaces DEF HandlerBare, QueuedLook, turns, authority
<1>8. ASSUME HandlerGoesOn
      PROVE  UNCHANGED <<queue, drain, holders>> \/ (WorkerDrains /\ BeginDrain("worker"))
  BY <1>8 DEF HandlerGoesOn, Look, DecideToStart, Send, Sent, Report, WorkerDrains, WorkerDrained,
       turns, authority
<1> QED
  BY <1>1, <1>2, <1>3, <1>4, <1>5, <1>6, <1>7, <1>8 DEF Admission, HandlerGoesOn

LEMMA ClaimControl ==
  ASSUME TypeOK, ClaimInv, WaitInv, Control
  PROVE  ClaimInv'
<1>1. CASE TakeStop
  <2>1. worker.at = "idle" /\ UNCHANGED drain
    BY <1>1 DEF TakeStop, Takes, Idle
  <2>2. CASE Deleted
    BY <1>1, <2>1, <2>2, SamePlaces, HandlesUnmoved DEF TakeStop
  <2>3. CASE ~Deleted
    <3>1. worker' = [at |-> "stop"] /\ ClearThread
      BY <1>1, <2>3 DEF TakeStop, Becomes
    <3>2. SameHandles
      BY <2>1, <3>1, HandlesNever DEF Handling
    <3> QED
      BY <2>1, <3>1, <3>2, AccountCleared
  <2> QED
    BY <2>2, <2>3
<1>2. CASE TakeInterrupt \/ Interrupt \/ BeginStop \/ AwaitDrained \/ Halt \/ EndStop
  <2>1. SameHandles
    BY <1>2, HandlesBare DEF HandlerBare
  <2>2. UNCHANGED <<queue, drain, holders>>
    BY <1>2 DEF TakeInterrupt, Interrupt, BeginStop, AwaitDrained, Halt, EndStop, turns, authority
  <2> QED
    BY <2>1, <2>2, SamePlaces
<1> QED
  BY <1>1, <1>2 DEF Control

LEMMA ClaimContinuation ==
  ASSUME TypeOK, ClaimInv, WaitInv, Continuation
  PROVE  ClaimInv'
<1>1. SameHandles
  BY HandlesBare DEF HandlerBare
<1>2. UNCHANGED holders /\ (UNCHANGED <<queue, drain>> \/ (GoalDrains /\ BeginDrain("worker")))
  BY DEF Continuation, TakeGoal, GoalLook, GoalDrains, GoalDrained, GoalCheck, GoalSend, GoalFailed,
       turns, authority
<1>3. CASE GoalDrains /\ BeginDrain("worker")
  <2>1. drain["worker"] = NoDrain
    BY <1>3 DEF WaitInv, GoalDrains
  <2> QED
    BY <1>1, <1>2, <1>3, <2>1, AccountBegins DEF Actor
<1> QED
  BY <1>1, <1>2, <1>3, SamePlaces

(* A promotion that goes on keeps its turn, one that is over lets go of it. *)
LEMMA ClaimPromotion ==
  ASSUME TypeOK, ClaimInv, WaitInv, NEW a \in Actor, Promotion(a)
  PROVE  ClaimInv'
<1>0. drain \in [Actor -> DrainRow] /\ drain[a] \in DrainRow /\ holders \in [ClaimId -> Nat]
      /\ queue \in Seq(Entry)
  BY DEF TypeOK, TurnsType, FibersType, ClaimInv
<1>1. CASE Reserve(a) \/ Commit(a) \/ Reject(a)
  <2>1. UNCHANGED <<queue, worker, holders>>
    BY <1>1 DEF Reserve, Commit, Reject, turns, authority
  <2>2. /\ \A b \in Actor \ {a} : drain'[b] = drain[b]
        /\ drain[a].at # "no" /\ drain'[a].at # "no" /\ drain'[a].entry = drain[a].entry
    <3>1. CASE Reserve(a)
      <4>1. drain[a].at = "reserve"
        BY <3>1 DEF Reserve
      <4>2. \/ drain' = [drain EXCEPT ![a] = [drain[a] EXCEPT !.at = "failed"]]
            \/ \E c : drain' = [drain EXCEPT ![a] = [at |-> "offered", entry |-> drain[a].entry,
                                                    claim |-> c]]
        BY <3>1 DEF Reserve
      <4>3. [drain[a] EXCEPT !.at = "failed"].at = "failed"
            /\ [drain[a] EXCEPT !.at = "failed"].entry = drain[a].entry
        BY <1>0, <4>1, DrainRows
      <4>4. ASSUME NEW r, drain' = [drain EXCEPT ![a] = r], r.at # "no", r.entry = drain[a].entry
            PROVE  /\ \A b \in Actor \ {a} : drain'[b] = drain[b]
                   /\ drain'[a].at # "no" /\ drain'[a].entry = drain[a].entry
        BY <1>0, <4>4
      <4>5. CASE drain' = [drain EXCEPT ![a] = [drain[a] EXCEPT !.at = "failed"]]
        BY <4>1, <4>3, <4>4, <4>5
      <4>6. CASE \E c : drain' = [drain EXCEPT ![a] = [at |-> "offered", entry |-> drain[a].entry,
                                                      claim |-> c]]
        BY <4>1, <4>4, <4>6
      <4> QED
        BY <4>1, <4>2, <4>5, <4>6
    <3>2. CASE Commit(a)
      BY <1>0, <3>2, DrainRows DEF Commit
    <3>3. CASE Reject(a)
      BY <1>0, <3>3, DrainRows DEF Reject
    <3> QED
      BY <1>1, <3>1, <3>2, <3>3
  <2>3. ASSUME NEW c \in ClaimId PROVE Promoting(drain', c) = Promoting(drain, c)
    <3>1. Promotes(drain'[a], c) = Promotes(drain[a], c) /\ Promotes(drain[a], c) \in {0, 1}
      BY <2>2 DEF Promotes
    <3>2. Promoting(drain', c)
            = (Promoting(drain, c) - Promotes(drain[a], c)) + Promotes(drain'[a], c)
      BY <2>2, PromotingStep
    <3> QED
      BY <3>1, <3>2, PromotingNat
  <2> QED
    BY <2>1, <2>3, HandlesUnmoved, AccountSame
<1>2. CASE Promoted(a)
  <2> DEFINE k == drain[a].entry.claim
  <2>1. /\ k \in ClaimId /\ LetGo({k}) /\ UNCHANGED <<queue, worker>> /\ drain[a].at = "done"
        /\ drain'[a] = NoDrain /\ \A b \in Actor \ {a} : drain'[b] = drain[b]
    <3>1. drain[a].at = "done" /\ LetGo({k}) /\ UNCHANGED <<queue, worker>>
          /\ drain' = [drain EXCEPT ![a] = NoDrain]
      BY <1>2 DEF Promoted
    <3>2. k \in ClaimId
      BY <1>0, <3>1, DrainRows
    <3> QED
      BY <1>0, <3>1, <3>2
  <2>2. /\ holders' \in [ClaimId -> Nat]
        /\ \A c \in ClaimId : holders'[c] = IF c = k /\ holders[c] > 0 THEN holders[c] - 1
                                            ELSE holders[c]
    BY <1>0, <2>1, Let
  <2>3. ASSUME NEW c \in ClaimId PROVE holders'[c] = Uses(c)'
    <3>1. Promotes(drain[a], c) = (IF k = c THEN 1 ELSE 0) /\ Promotes(drain'[a], c) = 0
      BY <2>1 DEF Promotes, NoDrain
    <3>2. Promoting(drain', c)
            = (Promoting(drain, c) - Promotes(drain[a], c)) + Promotes(drain'[a], c)
      BY <2>1, PromotingStep
    <3>3. /\ holders[c] \in Nat /\ Cardinality(Places(queue, c)) \in Nat
          /\ Promotes(drain[a], c) <= holders[c]
          /\ holders[c] = Cardinality(Places(queue, c)) + Promoting(drain, c) + Handles(worker, c)
      BY ClaimCounts
    <3>4. Promoting(drain, c) \in Nat /\ Handles(worker, c) \in {0, 1}
      BY PromotingNat, HandlesBit
    <3>5. holders'[c] = Cardinality(Places(queue, c)) + Promoting(drain', c) + Handles(worker, c)
      BY <2>2, <3>1, <3>2, <3>3, <3>4
    <3> QED
      BY <2>1, <3>5 DEF Uses
  <2> QED
    BY <2>2, <2>3 DEF ClaimInv
<1>3. CASE NotPromoted(a)
  <2>1. /\ drain[a].at # "no" /\ PutBack(drain[a]) /\ drain' = [drain EXCEPT ![a] = NoDrain]
        /\ UNCHANGED holders
    BY <1>3 DEF NotPromoted, authority
  <2>2. SameHandles
    <3>1. worker' = worker \/ (worker.at = "goal-draining" /\ worker' = [at |-> "goal-failed"])
      BY <1>3 DEF NotPromoted
    <3> QED
      BY <3>1, HandlesUnmoved, HandlesNever DEF Handling
  <2> QED
    BY <2>1, <2>2, AccountPutBack
<1> QED
  BY <1>1, <1>2, <1>3 DEF Promotion

(* The listeners, and what interrupts the handler. *)
LEMMA ClaimOthers ==
  ASSUME TypeOK, ClaimInv, WaitInv, HearEnd \/ HearDeletion \/ RetryGoal \/ Environment
  PROVE  ClaimInv'
<1>0. worker \in WorkerRow /\ drain \in [Actor -> DrainRow]
  BY DEF TypeOK, FibersType
<1>1. CASE HearEnd
  <2>1. SameHandles
    <3>1. worker' = worker \/ (worker.at = "sending" /\ worker' = [worker EXCEPT !.parked = TRUE])
      BY <1>1 DEF HearEnd, Parks
    <3>2. worker.at = "sending" => [worker EXCEPT !.parked = TRUE].at = "sending"
                                   /\ [worker EXCEPT !.parked = TRUE].claim = worker.claim
      BY <1>0 DEF WorkerRow
    <3> QED
      BY <3>1, <3>2, HandlesUnmoved, HandlesKept DEF Handling
  <2>2. UNCHANGED holders /\ drain["stream"] = NoDrain
        /\ (UNCHANGED <<queue, drain>> \/ BeginDrain("stream"))
    BY <1>1 DEF HearEnd, turns, authority
  <2> QED
    BY <2>1, <2>2, SamePlaces, AccountBegins DEF Actor
<1>2. CASE HearDeletion
  BY <1>2, AccountCleared, HandlesUnmoved DEF HearDeletion, fibers
<1>3. CASE RetryGoal
  <2>1. UNCHANGED <<holders, worker>> /\ drain["retry"] = NoDrain
        /\ (UNCHANGED <<queue, drain>> \/ BeginDrain("retry"))
    BY <1>3 DEF RetryGoal, turns, authority
  <2> QED
    BY <2>1, SamePlaces, AccountBegins, HandlesUnmoved DEF Actor
<1>4. CASE Timeout
  <2>1. SameHandles
    <3>1. CASE worker.at = "goal-draining"
      BY <1>4, <3>1, HandlesNever DEF Timeout, Becomes, Handling
    <3>2. CASE worker.at \in {"send", "sending", "draining"}
      BY <1>4, <3>2, HandlesKept DEF Timeout, Becomes, Handling
    <3> QED
      BY <1>4, <3>1, <3>2 DEF Timeout
  <2>2. CASE drain["worker"] = NoDrain /\ UNCHANGED <<turns, drain>>
    BY <1>4, <2>1, <2>2, SamePlaces DEF Timeout, turns
  <2>3. CASE /\ drain["worker"].at \in {"reserve", "offered"} /\ PutBack(drain["worker"])
             /\ drain' = [drain EXCEPT !["worker"] = NoDrain]
    BY <1>4, <2>1, <2>3, AccountPutBack DEF Timeout, Actor
  <2> QED
    BY <1>4, <2>2, <2>3 DEF Timeout, Interrupts
<1>5. CASE Environment /\ ~Timeout
  <2>1. UNCHANGED <<queue, drain, holders, worker>>
    BY <1>5 DEF Environment, Submit, TurnEnds, Ingest, AskStop, AskGoal, SwitchAway, SwitchBack,
         Expire, Delete, Teardown, Redeliver, CommitOrphan, turns, fibers, authority
  <2> QED
    BY <2>1, SamePlaces, HandlesUnmoved
<1> QED
  BY <1>1, <1>2, <1>3, <1>4, <1>5 DEF Environment

LEMMA ClaimStep == TypeOK /\ ClaimInv /\ WaitInv /\ [Next]_vars => ClaimInv'
<1> SUFFICES ASSUME TypeOK, ClaimInv, WaitInv, [Next]_vars PROVE ClaimInv'
  OBVIOUS
<1>1. CASE Worker
  BY <1>1, ClaimAdmission, ClaimControl, ClaimContinuation DEF Worker
<1>2. CASE \E a \in Actor : Promotion(a)
  BY <1>2, ClaimPromotion
<1>3. CASE HearEnd \/ HearDeletion \/ RetryGoal \/ Environment
  BY <1>3, ClaimOthers
<1>4. CASE UNCHANGED vars
  BY <1>4, SamePlaces, HandlesUnmoved DEF vars, turns, fibers, authority
<1> QED
  BY <1>1, <1>2, <1>3, <1>4 DEF Next

-----------------------------------------------------------------------------
(* The worker and its promotion *)

LEMMA WaitStep == TypeOK /\ WaitInv /\ [Next]_vars => WaitInv'
<1> SUFFICES ASSUME TypeOK, WaitInv, [Next]_vars PROVE WaitInv'
  OBVIOUS
<1>0. worker \in WorkerRow /\ drain \in [Actor -> DrainRow]
  BY DEF TypeOK, FibersType
<1>a. ASSUME NEW a \in Actor \ {"worker"}, BeginDrain(a) PROVE UNCHANGED drain["worker"]
  BY <1>0, <1>a DEF BeginDrain
<1>b. CASE drain'["worker"] = NoDrain
  BY <1>b DEF WaitInv
<1>c. CASE UNCHANGED <<drain["worker"], worker>>
  BY <1>c DEF WaitInv
<1>1. CASE Worker
  <2>1. CASE WorkerDrains
    <3>1. CASE BeginDrain("worker") /\ At("draining")
      <4>1. worker' = [worker EXCEPT !.at = "draining"]
        BY <3>1 DEF At
      <4>2. worker'.at = "draining"
        BY <1>0, <4>1, RowKept
      <4> QED
        BY <4>2 DEF WaitInv
    <3> QED
      BY <2>1, <3>1, <1>b DEF WorkerDrains, WaitInv
  <2>2. CASE GoalDrains
    <3>1. CASE BeginDrain("worker") /\ At("goal-draining")
      <4>1. worker' = [worker EXCEPT !.at = "goal-draining"]
        BY <3>1 DEF At
      <4>2. worker'.at = "goal-draining"
        BY <1>0, <4>1, RowKept
      <4> QED
        BY <4>2 DEF WaitInv
    <3> QED
      BY <2>2, <3>1, <1>b DEF GoalDrains, WaitInv
  <2>3. ASSUME Worker, ~WorkerDrains, ~GoalDrains
        PROVE  UNCHANGED drain /\ (worker.at \notin {"draining", "goal-draining"}
                                   \/ drain["worker"] = NoDrain)
    <3>1. CASE Admission
      BY <2>3, <3>1 DEF Admission, TakeStart, Look, DecideToQueue, DecideToStart, Send, Sent, Report,
           WorkerDrained, Release, TakeQueued, QueuedLook, Takes, Idle
    <3>2. CASE Control
      BY <3>2 DEF Control, TakeInterrupt, Interrupt, TakeStop, BeginStop, AwaitDrained, Halt, EndStop,
           Takes, Idle
    <3>3. CASE Continuation
      BY <2>3, <3>3 DEF Continuation, TakeGoal, GoalLook, GoalDrained, GoalCheck, GoalSend, GoalFailed,
           Takes, Idle
    <3> QED
      BY <2>3, <3>1, <3>2, <3>3 DEF Worker
  <2> QED
    BY <1>1, <2>1, <2>2, <2>3, <1>b DEF WaitInv
<1>2. ASSUME NEW a \in Actor, Promotion(a) PROVE WaitInv'
  <2>1. CASE a # "worker"
    <3>1. UNCHANGED worker
      BY <1>2, <2>1 DEF Promotion, Reserve, Commit, Reject, Promoted, NotPromoted
    <3>2. \E r : drain' = [drain EXCEPT ![a] = r]
      BY <1>2 DEF Promotion, Reserve, Commit, Reject, Promoted, NotPromoted
    <3>3. UNCHANGED drain["worker"]
      BY <1>0, <2>1, <3>2
    <3> QED
      BY <1>c, <3>1, <3>3
  <2>2. CASE a = "worker" /\ (Reserve(a) \/ Commit(a) \/ Reject(a))
    <3>1. UNCHANGED worker /\ drain[a].at # "no"
      BY <2>2 DEF Reserve, Commit, Reject
    <3> QED
      BY <2>2, <3>1, NewDrains DEF WaitInv
  <2>3. CASE a = "worker" /\ (Promoted(a) \/ NotPromoted(a))
    BY <1>0, <1>b, <2>3 DEF Promoted, NotPromoted
  <2> QED
    BY <1>2, <2>1, <2>2, <2>3 DEF Promotion
<1>3. CASE HearEnd
  <2>1. UNCHANGED drain["worker"]
    BY <1>3, <1>a DEF HearEnd, Actor
  <2>2. worker' = worker \/ worker.at = "sending"
    BY <1>3 DEF HearEnd, Parks
  <2> QED
    BY <2>1, <2>2 DEF WaitInv
<1>4. CASE HearDeletion
  BY <1>4, <1>c DEF HearDeletion, fibers
<1>5. CASE RetryGoal
  <2>1. UNCHANGED <<drain["worker"], worker>>
    BY <1>5, <1>a DEF RetryGoal, Actor
  <2> QED
    BY <2>1, <1>c
<1>6. CASE Timeout
  BY <1>0, <1>6, <1>b DEF Timeout, Interrupts, Actor
<1>7. CASE Environment /\ ~Timeout
  BY <1>7, <1>c DEF Environment, Submit, TurnEnds, Ingest, AskStop, AskGoal, SwitchAway, SwitchBack,
       Expire, Delete, Teardown, Redeliver, CommitOrphan, fibers
<1>8. CASE UNCHANGED vars
  BY <1>8, <1>c DEF vars, fibers
<1> QED
  BY <1>1, <1>2, <1>3, <1>4, <1>5, <1>6, <1>7, <1>8 DEF Next

-----------------------------------------------------------------------------
(* Who has the thread *)

StopsOnlyWhenClosed == worker.at \in Stopping => gate \in {"stopping", "deleting"}
DeletesOnlyDeleted == gate = "deleting" => Deleted
ClosedHoldsNothing ==
  gate = "away" \/ worker.at = "halt" => reserved = {} /\ \A c \in ClaimId : ~Claimed(c)

(* Where the worker goes, seen from the stop. *)
LEMMA StopMoves ==
  ASSUME TypeOK, [Next]_vars
  PROVE  /\ worker'.at \in Stopping => worker.at \in Stopping \/ (BeginStop /\ gate = "ready")
         /\ worker'.at = "halt" => worker.at = "halt" \/ AwaitDrained
<1>0. worker \in WorkerRow
  BY DEF TypeOK, FibersType
<1>a. \A s : worker' = [worker EXCEPT !.at = s] => worker'.at = s
  BY <1>0, RowKept
<1>1. CASE Admission
  <2>1. CASE TakeStart \/ TakeQueued
    BY <2>1 DEF TakeStart, TakeQueued, Takes, Idle, Becomes, NotClaimed, Stopping
  <2>2. CASE Look \/ DecideToQueue \/ DecideToStart \/ Send
    BY <1>a, <2>2 DEF Look, DecideToQueue, DecideToStart, Send, At, Becomes, IdleWorker, Stopping
  <2>3. CASE Sent \/ Report \/ WorkerDrains \/ WorkerDrained
    BY <1>a, <2>3 DEF Sent, Report, WorkerDrains, WorkerDrained, At, Becomes, Stopping
  <2>4. CASE Release \/ QueuedLook
    BY <1>a, <2>4 DEF Release, QueuedLook, At, Becomes, IdleWorker, Stopping
  <2> QED
    BY <1>1, <2>1, <2>2, <2>3, <2>4 DEF Admission
<1>2. CASE Control
  <2>1. CASE TakeInterrupt \/ Interrupt \/ TakeStop \/ EndStop
    BY <2>1 DEF TakeInterrupt, Interrupt, TakeStop, EndStop, Takes, Idle, Becomes, IdleWorker, Stopping
  <2>2. CASE BeginStop
    BY <2>2, <1>a DEF BeginStop, Becomes, IdleWorker, At, Stopping
  <2>3. CASE AwaitDrained
    BY <2>3 DEF AwaitDrained, Stopping
  <2>4. CASE Halt
    BY <2>4, <1>a DEF Halt, At, Stopping
  <2> QED
    BY <1>2, <2>1, <2>2, <2>3, <2>4 DEF Control
<1>3. CASE Continuation
  <2>1. CASE TakeGoal
    BY <2>1 DEF TakeGoal, Takes, Idle, Becomes, Stopping
  <2>2. CASE GoalLook \/ GoalDrains \/ GoalDrained
    BY <1>a, <2>2 DEF GoalLook, GoalDrains, GoalDrained, Blocked, Becomes, IdleWorker, At, Stopping
  <2>3. CASE GoalCheck \/ GoalSend \/ GoalFailed
    BY <1>a, <2>3 DEF GoalCheck, GoalSend, GoalFailed, Blocked, Becomes, IdleWorker, At, Stopping
  <2> QED
    BY <1>3, <2>1, <2>2, <2>3 DEF Continuation
<1>4. CASE \E a \in Actor : Promotion(a)
  BY <1>4 DEF Promotion, Reserve, Commit, Reject, Promoted, NotPromoted, Stopping
<1>5. CASE HearEnd
  <2>1. worker.at = "sending" => [worker EXCEPT !.parked = TRUE].at = "sending"
    BY <1>0 DEF WorkerRow
  <2> QED
    BY <1>5, <2>1 DEF HearEnd, Parks, Stopping
<1>6. CASE HearDeletion \/ RetryGoal
  BY <1>6 DEF HearDeletion, RetryGoal, fibers
<1>7. CASE Environment
  <2>1. CASE Timeout
    <3>1. worker'.at \in {"goal-failed", "release"}
      BY <2>1 DEF Timeout, Becomes
    <3> QED
      BY <3>1 DEF Stopping
  <2>2. CASE ~Timeout
    BY <1>7, <2>2 DEF Environment, Submit, TurnEnds, Ingest, AskStop, AskGoal, SwitchAway, SwitchBack,
         Expire, Delete, Teardown, Redeliver, CommitOrphan, fibers
  <2> QED
    BY <2>1, <2>2
<1>8. CASE UNCHANGED vars
  BY <1>8 DEF vars, fibers
<1> QED
  BY <1>1, <1>2, <1>3, <1>4, <1>5, <1>6, <1>7, <1>8 DEF Next, Worker

(* Who moves the gate, and when. *)
LEMMA GateMoves ==
  ASSUME [Next]_vars
  PROVE  \/ UNCHANGED gate
         \/ BeginStop /\ gate = "ready" /\ gate' = "stopping"
         \/ EndStop /\ gate = "stopping" /\ gate' = "ready"
         \/ SwitchAway /\ gate' = "away"
         \/ SwitchBack /\ gate = "away" /\ gate' = "ready"
         \/ Teardown /\ gate' = "deleting"
<1>1. CASE Admission
  BY <1>1 DEF Admission, TakeStart, Look, DecideToQueue, DecideToStart, Send, Sent, Report,
       WorkerDrains, WorkerDrained, Release, TakeQueued, QueuedLook, authority
<1>2. CASE Control
  BY <1>2 DEF Control, TakeInterrupt, Interrupt, TakeStop, BeginStop, AwaitDrained, Halt, EndStop,
       authority
<1>3. CASE Continuation
  BY <1>3 DEF Continuation, TakeGoal, GoalLook, GoalDrains, GoalDrained, GoalCheck, GoalSend,
       GoalFailed, authority
<1>4. CASE \E a \in Actor : Promotion(a)
  BY <1>4 DEF Promotion, Reserve, Commit, Reject, Promoted, NotPromoted, authority
<1>5. CASE HearEnd \/ HearDeletion \/ RetryGoal
  BY <1>5 DEF HearEnd, HearDeletion, RetryGoal, authority
<1>6. CASE Environment
  BY <1>6 DEF Environment, Submit, TurnEnds, Ingest, AskStop, AskGoal, SwitchAway, SwitchBack,
       Expire, Delete, Teardown, Redeliver, CommitOrphan, Timeout, authority
<1>7. CASE UNCHANGED vars
  BY <1>7 DEF vars, authority
<1> QED
  BY <1>1, <1>2, <1>3, <1>4, <1>5, <1>6, <1>7 DEF Next, Worker

LEMMA StaysDeleted ==
  ASSUME [Next]_vars, Deleted
  PROVE  Deleted'
<1>1. CASE Admission
  BY <1>1 DEF Admission, TakeStart, Look, DecideToQueue, DecideToStart, Send, Sent, Report,
       WorkerDrains, WorkerDrained, Release, TakeQueued, QueuedLook, authority, Deleted
<1>2. CASE Control
  BY <1>2 DEF Control, TakeInterrupt, Interrupt, TakeStop, BeginStop, AwaitDrained, Halt, EndStop,
       authority, Deleted
<1>3. CASE Continuation
  BY <1>3 DEF Continuation, TakeGoal, GoalLook, GoalDrains, GoalDrained, GoalCheck, GoalSend,
       GoalFailed, authority, Deleted
<1>4. CASE \E a \in Actor : Promotion(a)
  BY <1>4 DEF Promotion, Reserve, Commit, Reject, Promoted, NotPromoted, authority, Deleted
<1>5. CASE HearEnd \/ HearDeletion \/ RetryGoal
  BY <1>5 DEF HearEnd, HearDeletion, RetryGoal, authority, Deleted
<1>6. CASE Environment
  BY <1>6 DEF Environment, Submit, TurnEnds, Ingest, AskStop, AskGoal, SwitchAway, SwitchBack,
       Expire, Delete, Teardown, Redeliver, CommitOrphan, Timeout, authority, Deleted
<1>7. CASE UNCHANGED vars
  BY <1>7 DEF vars, authority, Deleted
<1> QED
  BY <1>1, <1>2, <1>3, <1>4, <1>5, <1>6, <1>7 DEF Next, Worker

LEMMA DropClaims ==
  ASSUME TypeOK, ClaimInv, ClearThread, NEW c \in ClaimId, ~Claimed(c)
  PROVE  ~Claimed(c)'
<1>1. holders[c] = 0 /\ Cardinality(Places(queue, c)) \in Nat
  BY ClaimCounts DEF Claimed
<1>2. holders'[c] = holders[c] - Cardinality(Places(queue, c))
  BY DEF ClearThread, Places
<1> QED
  BY <1>1, <1>2 DEF Claimed

(* Claims are reserved and held anew only while the thread is structured. *)
LEMMA NewClaims ==
  ASSUME TypeOK, ClaimInv, [Next]_vars, gate # "ready"
  PROVE  reserved' \subseteq reserved /\ \A c \in ClaimId : ~Claimed(c) => ~Claimed(c)'
<1>0. holders \in [ClaimId -> Nat]
  BY DEF ClaimInv
<1>1. CASE Admission
  <2>1. CASE Release
    BY <1>0, <2>1 DEF Release, LetGo, Claimed
  <2>2. CASE ~Release
    <3>1. UNCHANGED <<reserved, holders>>
      BY <1>1, <2>2 DEF Admission, TakeStart, Look, DecideToQueue, DecideToStart, Send, Sent, Report,
       WorkerDrains, WorkerDrained, TakeQueued, QueuedLook, NotClaimed, authority
    <3> QED
      BY <3>1 DEF Claimed
  <2> QED
    BY <2>1, <2>2
<1>2. CASE Control
  <2>1. CASE ClearThread
    BY <2>1, DropClaims DEF ClearThread
  <2>2. CASE ~ClearThread
    <3>1. UNCHANGED <<reserved, holders>>
      BY <1>2, <2>2 DEF Control, TakeInterrupt, Interrupt, TakeStop, BeginStop, AwaitDrained, Halt,
         EndStop, authority
    <3> QED
      BY <3>1 DEF Claimed
  <2> QED
    BY <2>1, <2>2
<1>3. CASE Continuation
  <2>1. UNCHANGED <<reserved, holders>>
    BY <1>3 DEF Continuation, TakeGoal, GoalLook, GoalDrains, GoalDrained, GoalCheck, GoalSend,
       GoalFailed, authority
  <2> QED
    BY <2>1 DEF Claimed
<1>4. ASSUME NEW a \in Actor, Promotion(a)
      PROVE  reserved' \subseteq reserved /\ \A c \in ClaimId : ~Claimed(c) => ~Claimed(c)'
  <2>1. CASE Promoted(a)
    BY <1>0, <2>1 DEF Promoted, LetGo, Claimed
  <2>2. CASE ~Promoted(a)
    <3>1. reserved' \subseteq reserved /\ UNCHANGED holders
      BY <1>4, <2>2 DEF Promotion, Reserve, Commit, Reject, NotPromoted, authority
    <3> QED
      BY <3>1 DEF Claimed
  <2> QED
    BY <2>1, <2>2
<1>5. CASE HearDeletion
  BY <1>5, DropClaims DEF HearDeletion, ClearThread
<1>6. CASE HearEnd \/ RetryGoal
  BY <1>6 DEF HearEnd, RetryGoal, authority, Claimed
<1>7. CASE Environment
  <2>1. reserved' \subseteq reserved /\ UNCHANGED holders
    BY <1>7 DEF Environment, Submit, TurnEnds, Ingest, AskStop, AskGoal, SwitchAway, SwitchBack,
       Expire, Delete, Teardown, Redeliver, CommitOrphan, Timeout, Interrupts, authority
  <2> QED
    BY <2>1 DEF Claimed
<1>8. CASE UNCHANGED vars
  BY <1>8 DEF vars, authority, Claimed
<1> QED
  BY <1>1, <1>2, <1>3, <1>4, <1>5, <1>6, <1>7, <1>8 DEF Next, Worker

LEMMA GateStep == TypeOK /\ ClaimInv /\ GateInv /\ [Next]_vars => GateInv'
<1> SUFFICES ASSUME TypeOK, ClaimInv, GateInv, [Next]_vars PROVE GateInv'
  OBVIOUS
<1>1. StopsOnlyWhenClosed'
  <2> SUFFICES ASSUME worker'.at \in Stopping PROVE gate' \in {"stopping", "deleting"}
    BY DEF StopsOnlyWhenClosed
  <2>1. CASE BeginStop /\ gate = "ready"
    BY <2>1 DEF BeginStop
  <2>2. CASE worker.at \in Stopping
    <3>1. gate \in {"stopping", "deleting"}
      BY <2>2 DEF GateInv
    <3>2. ~EndStop
      BY DEF EndStop, Becomes, IdleWorker, Stopping
    <3> QED
      BY <3>1, <3>2, GateMoves DEF SwitchAway
  <2> QED
    BY <2>1, <2>2, StopMoves
<1>2. DeletesOnlyDeleted'
  BY GateMoves, StaysDeleted DEF GateInv, DeletesOnlyDeleted, Teardown
<1>3. ClosedHoldsNothing'
  <2>1. CASE AwaitDrained \/ SwitchAway
    <3>1. CASE SwitchAway
      BY <3>1 DEF SwitchAway, AuthorityDrained, ClosedHoldsNothing, Claimed
    <3>2. CASE AwaitDrained
      <4>1. UNCHANGED authority /\ worker.at = "await"
        BY <3>2 DEF AwaitDrained
      <4>2. gate' # "away"
        BY <4>1 DEF GateInv, Stopping, authority
      <4>3. worker'.at = "halt" => AuthorityDrained
        <5>1. worker \in WorkerRow
          BY DEF TypeOK, FibersType
        <5>2. worker' = [worker EXCEPT !.at = IF AuthorityDrained THEN "halt" ELSE "stop-failed"]
          BY <3>2 DEF AwaitDrained, At
        <5> QED
          BY <5>1, <5>2, RowKept
      <4> QED
        BY <4>1, <4>2, <4>3 DEF AuthorityDrained, ClosedHoldsNothing, Claimed, authority
    <3> QED
      BY <2>1, <3>1, <3>2
  <2>2. CASE ~AwaitDrained /\ ~SwitchAway
    <3> SUFFICES ASSUME gate' = "away" \/ worker'.at = "halt"
                 PROVE  (reserved = {})' /\ \A c \in ClaimId : ~Claimed(c)'
      BY DEF ClosedHoldsNothing
    <3>1. gate = "away" \/ worker.at = "halt"
      BY <2>2, GateMoves, StopMoves
    <3>2. reserved = {} /\ \A c \in ClaimId : ~Claimed(c)
      BY <3>1 DEF GateInv
    <3>3. gate # "ready"
      BY <3>1 DEF GateInv, Stopping
    <3> QED
      BY <3>2, <3>3, NewClaims
  <2> QED
    BY <2>1, <2>2
<1> QED
  BY <1>1, <1>2, <1>3 DEF GateInv, StopsOnlyWhenClosed, DeletesOnlyDeleted, ClosedHoldsNothing

-----------------------------------------------------------------------------
(* One turn at a time *)

(* Only the worker gives turns to the provider. *)
LEMMA LiveMoves ==
  ASSUME [Next]_vars
  PROVE  \/ live' = live \/ live' = Null
         \/ Send /\ worker'.at = "sending"
         \/ GoalSend /\ worker'.at = "idle"
<1>1. CASE Admission
  <2>1. CASE Send
    BY <2>1 DEF Send, Becomes, provider
  <2>2. CASE ~Send
    BY <1>1, <2>2 DEF Admission, TakeStart, Look, DecideToQueue, DecideToStart, Sent, Report,
         WorkerDrains, WorkerDrained, Release, TakeQueued, QueuedLook, provider
  <2> QED
    BY <2>1, <2>2
<1>2. CASE Control
  BY <1>2 DEF Control, TakeInterrupt, Interrupt, TakeStop, BeginStop, AwaitDrained, Halt, EndStop,
       provider, Ends
<1>3. CASE Continuation
  <2>1. CASE GoalSend
    BY <2>1 DEF GoalSend, Becomes, IdleWorker, provider
  <2>2. CASE ~GoalSend
    BY <1>3, <2>2 DEF Continuation, TakeGoal, GoalLook, GoalDrains, GoalDrained, GoalCheck, GoalFailed,
         provider
  <2> QED
    BY <2>1, <2>2
<1>4. CASE \E a \in Actor : Promotion(a)
  BY <1>4 DEF Promotion, Reserve, Commit, Reject, Promoted, NotPromoted, provider
<1>5. CASE HearEnd \/ HearDeletion \/ RetryGoal
  BY <1>5 DEF HearEnd, HearDeletion, RetryGoal, provider
<1>6. CASE Environment
  BY <1>6 DEF Environment, Submit, TurnEnds, Ingest, AskStop, AskGoal, SwitchAway, SwitchBack,
       Expire, Delete, Teardown, Redeliver, CommitOrphan, Timeout, provider, Ends
<1>7. CASE UNCHANGED vars
  BY <1>7 DEF vars, provider
<1> QED
  BY <1>1, <1>2, <1>3, <1>4, <1>5, <1>6, <1>7 DEF Next, Worker

(* The worker sets out to start a turn only after it saw that none runs. *)
LEMMA StartMoves ==
  ASSUME TypeOK, [Next]_vars, Starting'
  PROVE  Starting \/ live = Null
<1>0. worker \in WorkerRow
  BY DEF TypeOK, FibersType
<1>a. \A s : worker' = [worker EXCEPT !.at = s] => worker'.at = s
  BY <1>0, RowKept
<1>b. worker'.at \in {"decide", "send", "goal-drain", "goal-draining", "goal-check", "goal-send"}
  BY DEF Starting
<1>1. CASE Admission
  <2>1. CASE TakeStart \/ TakeQueued
    BY <1>b, <2>1 DEF TakeStart, TakeQueued, Takes, Idle, Becomes, NotClaimed
  <2>2. CASE Look
    <3>1. CASE worker' = [at |-> "decide", turn |-> worker.turn, claim |-> worker.claim,
                          seen |-> live # Null]
      BY <3>1 DEF Starting
    <3>2. CASE At("release")
      BY <1>a, <1>b, <3>2 DEF At
    <3> QED
      BY <2>2, <3>1, <3>2 DEF Look, Becomes
  <2>3. CASE DecideToStart
    BY <2>3 DEF DecideToStart, Starting
  <2>4. CASE Send
    BY <2>4 DEF Send, Starting
  <2>5. CASE DecideToQueue \/ Sent \/ Report \/ WorkerDrains \/ WorkerDrained
    BY <1>a, <1>b, <2>5 DEF DecideToQueue, Sent, Report, WorkerDrains, WorkerDrained, At, Becomes,
         IdleWorker
  <2>6. CASE Release \/ QueuedLook
    BY <1>a, <1>b, <2>6 DEF Release, QueuedLook, At, Becomes, IdleWorker
  <2> QED
    BY <1>1, <2>1, <2>2, <2>3, <2>4, <2>5, <2>6 DEF Admission
<1>2. CASE Control
  <2>1. CASE TakeInterrupt \/ Interrupt \/ TakeStop \/ EndStop
    BY <1>b, <2>1 DEF TakeInterrupt, Interrupt, TakeStop, EndStop, Takes, Idle, Becomes, IdleWorker
  <2>2. CASE BeginStop \/ AwaitDrained \/ Halt
    BY <1>a, <1>b, <2>2 DEF BeginStop, AwaitDrained, Halt, Becomes, IdleWorker, At
  <2> QED
    BY <1>2, <2>1, <2>2 DEF Control
<1>3. CASE Continuation
  <2>1. CASE TakeGoal
    BY <1>b, <2>1 DEF TakeGoal, Takes, Idle, Becomes
  <2>2. CASE GoalLook
    BY <1>b, <2>2 DEF GoalLook, Blocked, Becomes, IdleWorker
  <2>3. CASE GoalDrains \/ GoalDrained \/ GoalCheck \/ GoalSend
    BY <2>3 DEF GoalDrains, GoalDrained, GoalCheck, GoalSend, Starting
  <2>4. CASE GoalFailed
    BY <1>b, <2>4 DEF GoalFailed, Becomes, IdleWorker
  <2> QED
    BY <1>3, <2>1, <2>2, <2>3, <2>4 DEF Continuation
<1>4. CASE worker' = worker
  BY <1>4 DEF Starting
<1>5. CASE \E a \in Actor : Promotion(a)
  <2>1. worker' = worker \/ worker'.at = "goal-failed"
    BY <1>5 DEF Promotion, Reserve, Commit, Reject, Promoted, NotPromoted
  <2> QED
    BY <1>4, <1>b, <2>1
<1>6. CASE HearEnd
  <2>1. worker.at = "sending" => [worker EXCEPT !.parked = TRUE].at = "sending"
    BY <1>0 DEF WorkerRow
  <2>2. worker' = worker \/ worker'.at = "sending"
    BY <1>6, <2>1 DEF HearEnd, Parks
  <2> QED
    BY <1>4, <1>b, <2>2
<1>7. CASE HearDeletion \/ RetryGoal
  BY <1>4, <1>7 DEF HearDeletion, RetryGoal, fibers
<1>8. CASE Timeout
  <2>1. worker'.at \in {"goal-failed", "release"}
    BY <1>8 DEF Timeout, Becomes
  <2> QED
    BY <1>b, <2>1
<1>9. CASE Environment /\ ~Timeout
  BY <1>4, <1>9 DEF Environment, Submit, TurnEnds, Ingest, AskStop, AskGoal, SwitchAway, SwitchBack,
       Expire, Delete, Teardown, Redeliver, CommitOrphan, fibers
<1>10. CASE UNCHANGED vars
  BY <1>4, <1>10 DEF vars, fibers
<1> QED
  BY <1>1, <1>2, <1>3, <1>5, <1>6, <1>7, <1>8, <1>9, <1>10 DEF Next, Worker

LEMMA LiveStep == TypeOK /\ LiveInv /\ [Next]_vars => LiveInv'
<1> SUFFICES ASSUME TypeOK, LiveInv, [Next]_vars, Starting' PROVE live' = Null
  BY DEF LiveInv
<1>1. live = Null
  BY StartMoves DEF LiveInv
<1>2. worker'.at \notin {"sending", "idle"}
  BY DEF Starting
<1> QED
  BY <1>1, <1>2, LiveMoves

-----------------------------------------------------------------------------
(* The inbox *)

LEMMA InboxGrows ==
  ASSUME NEW q \in Seq(Event), NEW s \in Seq(Event)
  PROVE  /\ \A i \in DOMAIN q : i \in DOMAIN (q \o s) /\ (q \o s)[i] = q[i]
         /\ \A j \in DOMAIN (q \o s) :
              (\E i \in DOMAIN q : (q \o s)[j] = q[i]) \/ (\E i \in DOMAIN s : (q \o s)[j] = s[i])
         /\ \A i \in DOMAIN s : \E j \in DOMAIN (q \o s) : (q \o s)[j] = s[i]
<1>1. /\ DOMAIN q = 1..Len(q) /\ DOMAIN s = 1..Len(s) /\ DOMAIN (q \o s) = 1..(Len(q) + Len(s))
      /\ Len(q) \in Nat /\ Len(s) \in Nat
      /\ \A i \in 1..(Len(q) + Len(s)) :
           (q \o s)[i] = IF i <= Len(q) THEN q[i] ELSE s[i - Len(q)]
  OBVIOUS
<1>2. \A i \in DOMAIN q : i \in DOMAIN (q \o s) /\ (q \o s)[i] = q[i]
  BY <1>1
<1>3. ASSUME NEW j \in DOMAIN (q \o s)
      PROVE  (\E i \in DOMAIN q : (q \o s)[j] = q[i]) \/ (\E i \in DOMAIN s : (q \o s)[j] = s[i])
  <2>1. CASE j <= Len(q)
    BY <1>1, <2>1
  <2>2. CASE j > Len(q)
    <3>1. j - Len(q) \in DOMAIN s /\ (q \o s)[j] = s[j - Len(q)]
      BY <1>1, <2>2
    <3> QED
      BY <3>1
  <2> QED
    BY <1>1, <2>1, <2>2
<1>4. ASSUME NEW i \in DOMAIN s
      PROVE  \E j \in DOMAIN (q \o s) : (q \o s)[j] = s[i]
  <2>1. i + Len(q) \in DOMAIN (q \o s) /\ (q \o s)[i + Len(q)] = s[i]
    BY <1>1
  <2> QED
    BY <2>1
<1> QED
  BY <1>2, <1>3, <1>4

LEMMA InboxTail ==
  ASSUME NEW q \in Seq(Event), q # <<>>
  PROVE  /\ \A j \in DOMAIN Tail(q) : \E i \in DOMAIN q : Tail(q)[j] = q[i]
         /\ \A i \in DOMAIN q : q[i] = Head(q) \/ \E j \in DOMAIN Tail(q) : Tail(q)[j] = q[i]
<1>1. /\ DOMAIN q = 1..Len(q) /\ DOMAIN Tail(q) = 1..(Len(q) - 1) /\ Len(q) \in Nat /\ Len(q) # 0
      /\ \A j \in 1..(Len(q) - 1) : Tail(q)[j] = q[j + 1]
      /\ Head(q) = q[1]
  OBVIOUS
<1>2. ASSUME NEW j \in DOMAIN Tail(q) PROVE \E i \in DOMAIN q : Tail(q)[j] = q[i]
  <2>1. j + 1 \in DOMAIN q /\ Tail(q)[j] = q[j + 1]
    BY <1>1
  <2> QED
    BY <2>1
<1>3. ASSUME NEW i \in DOMAIN q
      PROVE  q[i] = Head(q) \/ \E j \in DOMAIN Tail(q) : Tail(q)[j] = q[i]
  <2>1. CASE i = 1
    BY <1>1, <2>1
  <2>2. CASE i # 1
    <3>1. i - 1 \in DOMAIN Tail(q) /\ Tail(q)[i - 1] = q[i]
      BY <1>1, <2>2
    <3> QED
      BY <3>1
  <2> QED
    BY <2>1, <2>2
<1> QED
  BY <1>2, <1>3

Heard(k) == \E i \in DOMAIN inbox : inbox[i].kind = k

LEMMA InboxAppended ==
  ASSUME TypeOK, NEW s \in Seq(Event), inbox' = inbox \o s, NEW k
  PROVE  /\ Heard(k) => Heard(k)'
         /\ Heard(k)' => Heard(k) \/ \E i \in DOMAIN s : s[i].kind = k
         /\ (\E i \in DOMAIN s : s[i].kind = k) => Heard(k)'
<1>1. inbox \in Seq(Event)
  BY DEF TypeOK, FibersType
<1>2. ASSUME NEW r, r = inbox \o s
      PROVE  /\ \A i \in DOMAIN inbox : i \in DOMAIN r /\ r[i] = inbox[i]
             /\ \A j \in DOMAIN r :
                  (\E i \in DOMAIN inbox : r[j] = inbox[i]) \/ (\E i \in DOMAIN s : r[j] = s[i])
             /\ \A i \in DOMAIN s : \E j \in DOMAIN r : r[j] = s[i]
  BY <1>1, <1>2, InboxGrows
<1>3. /\ \A i \in DOMAIN inbox : i \in DOMAIN inbox' /\ inbox'[i] = inbox[i]
      /\ \A j \in DOMAIN inbox' :
           (\E i \in DOMAIN inbox : inbox'[j] = inbox[i]) \/ (\E i \in DOMAIN s : inbox'[j] = s[i])
      /\ \A i \in DOMAIN s : \E j \in DOMAIN inbox' : inbox'[j] = s[i]
  BY <1>2
<1>4. Heard(k) => Heard(k)'
  BY <1>3 DEF Heard
<1>5. (\E i \in DOMAIN s : s[i].kind = k) => Heard(k)'
  BY <1>3 DEF Heard
<1>6. ASSUME NEW j \in DOMAIN inbox', inbox'[j].kind = k
      PROVE  Heard(k) \/ \E i \in DOMAIN s : s[i].kind = k
  BY <1>3, <1>6 DEF Heard
<1> QED
  BY <1>4, <1>5, <1>6 DEF Heard

LEMMA InboxTaken ==
  ASSUME TypeOK, NEW kinds, Takes(kinds), NEW k
  PROVE  /\ Heard(k)' => Heard(k)
         /\ Heard(k) /\ k \notin kinds => Heard(k)'
<1>1. inbox \in Seq(Event) /\ inbox # <<>> /\ inbox' = Tail(inbox) /\ Head(inbox).kind \in kinds
  BY DEF TypeOK, FibersType, Takes
<1>2. ASSUME NEW r, r = Tail(inbox)
      PROVE  /\ \A j \in DOMAIN r : \E i \in DOMAIN inbox : r[j] = inbox[i]
             /\ \A i \in DOMAIN inbox : inbox[i] = Head(inbox) \/ \E j \in DOMAIN r : r[j] = inbox[i]
  BY <1>1, <1>2, InboxTail
<1>3. /\ \A j \in DOMAIN inbox' : \E i \in DOMAIN inbox : inbox'[j] = inbox[i]
      /\ \A i \in DOMAIN inbox :
           inbox[i] = Head(inbox) \/ \E j \in DOMAIN inbox' : inbox'[j] = inbox[i]
  BY <1>1, <1>2
<1> QED
  BY <1>1, <1>3 DEF Heard

(* A promoted turn stays in the inbox until a start is taken, and only the user
   asks for a stop. *)
InboxKeeps ==
  /\ Heard("promoted") => Heard("promoted")' \/ TakeStart
  /\ Heard("stop")' => Heard("stop") \/ AskStop

LEMMA InboxUnmoved == UNCHANGED inbox => InboxKeeps
BY DEF InboxKeeps, Heard

LEMMA InboxPublished ==
  ASSUME TypeOK, NEW s \in Seq(Event), Publish(s), AskStop \/ \A i \in DOMAIN s : s[i].kind # "stop"
  PROVE  InboxKeeps
BY InboxAppended DEF Publish, InboxKeeps

LEMMA InboxMoves ==
  ASSUME TypeOK, [Next]_vars
  PROVE  InboxKeeps
<1>0. inbox \in Seq(Event)
  BY DEF TypeOK, FibersType
<1>a. ASSUME NEW e \in Event, e.kind # "stop", Publish(<<e>>) PROVE InboxKeeps
  <2>1. <<e>> \in Seq(Event) /\ \A i \in DOMAIN <<e>> : <<e>>[i].kind # "stop"
    BY <1>a
  <2> QED
    BY <1>a, <2>1, InboxPublished
<1>b. ASSUME NEW kinds, Takes(kinds), "promoted" \notin kinds PROVE InboxKeeps
  BY <1>b, InboxTaken DEF InboxKeeps
<1>1. CASE Admission
  <2>1. CASE TakeStart
    BY <2>1, InboxTaken DEF TakeStart, InboxKeeps
  <2>2. CASE TakeQueued
    BY <2>2, <1>b DEF TakeQueued
  <2>3. CASE ~TakeStart /\ ~TakeQueued
    BY <1>1, <2>3, InboxUnmoved DEF Admission, Look, DecideToQueue, DecideToStart, Send, Sent, Report,
       WorkerDrains, WorkerDrained, Release, QueuedLook
  <2> QED
    BY <2>1, <2>2, <2>3
<1>2. CASE Control
  BY <1>2, <1>b, InboxUnmoved DEF Control, TakeInterrupt, Interrupt, TakeStop, BeginStop, AwaitDrained,
     Halt, EndStop
<1>3. CASE Continuation
  BY <1>3, <1>b, InboxUnmoved DEF Continuation, TakeGoal, GoalLook, GoalDrains, GoalDrained, GoalCheck,
     GoalSend, GoalFailed
<1>4. ASSUME NEW a \in Actor, Promotion(a) PROVE InboxKeeps
  <2>1. CASE Commit(a)
    <3>1. drain[a] \in DrainRow /\ drain[a].at = "offered"
      BY <2>1 DEF TypeOK, FibersType, Commit
    <3>2. PromotedOf(drain[a].entry.turn, drain[a].claim) \in Event
      BY <3>1, DrainRows, Events
    <3>3. PromotedOf(drain[a].entry.turn, drain[a].claim).kind # "stop"
      BY DEF PromotedOf
    <3> QED
      BY <2>1, <3>2, <3>3, <1>a DEF Commit
  <2>2. CASE ~Commit(a)
    BY <1>4, <2>2, InboxUnmoved DEF Promotion, Reserve, Reject, Promoted, NotPromoted
  <2> QED
    BY <2>1, <2>2
<1>5. CASE HearEnd \/ HearDeletion
  BY <1>5, InboxUnmoved DEF HearEnd, HearDeletion, fibers
<1>6. CASE RetryGoal
  <2>1. [kind |-> "goal"] \in Event
    BY Events
  <2> QED
    BY <1>6, <2>1, <1>a, InboxUnmoved DEF RetryGoal
<1>7. CASE Environment
  <2>1. ASSUME NEW t \in Turn, Submit(t) PROVE InboxKeeps
    <3>1. PICK c \in Fresh(t) :
            Publish(IF projected = "running"
                    THEN <<QueuedOf(t, c)>> \o (IF t \in Steer THEN <<[kind |-> "interrupt"]>> ELSE <<>>)
                    ELSE <<StartOf(t, c)>>)
      BY <2>1 DEF Submit
    <3>2. QueuedOf(t, c) \in Event /\ StartOf(t, c) \in Event /\ [kind |-> "interrupt"] \in Event
      BY FreshClaims, Events
    <3>3. QueuedOf(t, c).kind # "stop" /\ StartOf(t, c).kind # "stop"
          /\ [kind |-> "interrupt"].kind # "stop"
      BY DEF QueuedOf, StartOf
    <3>4. CASE projected # "running"
      BY <1>a, <3>1, <3>2, <3>3, <3>4
    <3>5. CASE projected = "running" /\ t \notin Steer
      <4>1. Publish(<<QueuedOf(t, c)>>)
        BY <3>1, <3>5
      <4> QED
        BY <1>a, <3>2, <3>3, <4>1
    <3>6. CASE projected = "running" /\ t \in Steer
      <4> DEFINE s == <<QueuedOf(t, c)>> \o <<[kind |-> "interrupt"]>>
      <4>1. Publish(s)
        BY <3>1, <3>6
      <4>2. s \in Seq(Event) /\ \A i \in DOMAIN s : s[i].kind # "stop"
        <5>1. \A x, y \in Event : x.kind # "stop" /\ y.kind # "stop" =>
                <<x>> \o <<y>> \in Seq(Event)
                /\ \A i \in DOMAIN (<<x>> \o <<y>>) : (<<x>> \o <<y>>)[i].kind # "stop"
          OBVIOUS
        <5> QED
          BY <3>2, <3>3, <5>1
      <4> HIDE DEF s
      <4> QED
        BY <4>1, <4>2, InboxPublished
    <3> QED
      BY <3>4, <3>5, <3>6
  <2>2. CASE AskStop
    <3>1. <<[kind |-> "stop"]>> \in Seq(Event)
      BY Events
    <3> QED
      BY <2>2, <3>1, InboxPublished DEF AskStop
  <2>3. CASE AskGoal
    <3>1. [kind |-> "goal"] \in Event
      BY Events
    <3> QED
      BY <2>3, <3>1, <1>a DEF AskGoal
  <2>4. CASE Redeliver
    <3>1. PICK i \in DOMAIN inbox :
            IsTurn(inbox[i]) /\ Publish(<<[inbox[i] EXCEPT !.again = TRUE]>>)
      BY <2>4 DEF Redeliver
    <3>2. inbox[i] \in Event /\ inbox[i].kind # "stop"
      BY <1>0, <3>1 DEF IsTurn, IsStart
    <3>3. [inbox[i] EXCEPT !.again = TRUE] \in Event
          /\ [inbox[i] EXCEPT !.again = TRUE].kind # "stop"
      BY <3>1, <3>2, Events
    <3> QED
      BY <1>a, <3>1, <3>3
  <2>5. CASE CommitOrphan
    <3>1. PICK o \in orphans : inbox' \in {inbox, Append(inbox, PromotedOf(o.turn, o.claim))}
      BY <2>5 DEF CommitOrphan
    <3>2. PromotedOf(o.turn, o.claim) \in Event /\ PromotedOf(o.turn, o.claim).kind # "stop"
      <4>1. o \in Entry
        BY DEF TypeOK, FibersType
      <4> QED
        BY <4>1, Events DEF Entry, PromotedOf
    <3>3. \A e \in Event : Append(inbox, e) = inbox \o <<e>>
      BY <1>0
    <3>4. inbox' = inbox \/ Publish(<<PromotedOf(o.turn, o.claim)>>)
      BY <3>1, <3>2, <3>3 DEF Publish
    <3> QED
      BY <1>a, <3>2, <3>4, InboxUnmoved
  <2>6. CASE TurnEnds \/ Ingest \/ SwitchAway \/ SwitchBack \/ Expire \/ Delete \/ Teardown \/ Timeout
    BY <2>6, InboxUnmoved DEF TurnEnds, Ingest, SwitchAway, SwitchBack, Expire, Delete, Teardown,
       Timeout, fibers
  <2> QED
    BY <1>7, <2>1, <2>2, <2>3, <2>4, <2>5, <2>6 DEF Environment
<1>8. CASE UNCHANGED vars
  BY <1>8, InboxUnmoved DEF vars, fibers
<1> QED
  BY <1>1, <1>2, <1>3, <1>4, <1>5, <1>6, <1>7, <1>8 DEF Next, Worker

-----------------------------------------------------------------------------
(* The marks *)

(* What a step does to the queue and its marks. *)
LEMMA MarkMoves ==
  ASSUME TypeOK, WaitInv, [Next]_vars
  PROVE  \/ UNCHANGED <<draining, pending, drain>> /\ (UNCHANGED queue \/ TakeQueued \/ DecideToQueue)
         \/ TakeStart /\ pending' = FALSE /\ UNCHANGED <<queue, draining, drain>>
         \/ \E a \in Actor : BeginDrain(a) /\ drain[a] = NoDrain
         \/ \E a \in Actor : Promotion(a)
         \/ (TakeStop \/ HearDeletion) /\ ClearThread /\ UNCHANGED drain
         \/ /\ drain["worker"].at \in {"reserve", "offered"} /\ PutBack(drain["worker"])
            /\ drain' = [drain EXCEPT !["worker"] = NoDrain]
<1>a. "worker" \in Actor /\ "stream" \in Actor /\ "retry" \in Actor
  BY DEF Actor
<1>1. CASE Admission
  <2>1. CASE TakeStart
    BY <2>1 DEF TakeStart
  <2>2. CASE WorkerDrains
    BY <1>a, <2>2 DEF WorkerDrains, WaitInv, turns
  <2>3. CASE ~TakeStart /\ ~WorkerDrains
    BY <1>1, <2>3 DEF Admission, Look, DecideToQueue, DecideToStart, Send, Sent, Report, WorkerDrained,
       Release, TakeQueued, QueuedLook, turns
  <2> QED
    BY <2>1, <2>2, <2>3
<1>2. CASE Control
  BY <1>2 DEF Control, TakeInterrupt, Interrupt, TakeStop, BeginStop, AwaitDrained, Halt, EndStop, turns
<1>3. CASE Continuation
  <2>1. CASE GoalDrains
    BY <1>a, <2>1 DEF GoalDrains, WaitInv, turns
  <2>2. CASE ~GoalDrains
    BY <1>3, <2>2 DEF Continuation, TakeGoal, GoalLook, GoalDrained, GoalCheck, GoalSend, GoalFailed,
       turns
  <2> QED
    BY <2>1, <2>2
<1>5. CASE HearEnd
  BY <1>a, <1>5 DEF HearEnd, turns
<1>6. CASE HearDeletion
  BY <1>6 DEF HearDeletion, fibers
<1>7. CASE RetryGoal
  BY <1>a, <1>7 DEF RetryGoal, turns
<1>8. CASE Timeout
  BY <1>8 DEF Timeout, Interrupts, turns
<1>9. CASE Environment /\ ~Timeout
  BY <1>9 DEF Environment, Submit, TurnEnds, Ingest, AskStop, AskGoal, SwitchAway, SwitchBack,
     Expire, Delete, Teardown, Redeliver, CommitOrphan, turns, fibers
<1>10. CASE UNCHANGED vars
  BY <1>10 DEF vars, turns, fibers
<1> QED
  BY <1>1, <1>2, <1>3, <1>5, <1>6, <1>7, <1>8, <1>9, <1>10 DEF Next, Worker

(* A promotion of the fiber a goes on, or is over. *)
LEMMA PromotionMoves ==
  ASSUME TypeOK, NEW a \in Actor, Promotion(a)
  PROVE  /\ drain[a] # NoDrain /\ \A b \in Actor \ {a} : drain'[b] = drain[b]
         /\ Commit(a) => drain'[a] # NoDrain /\ UNCHANGED <<draining, pending, queue>>
         /\ Reserve(a) \/ Reject(a) => /\ drain'[a].at \in {"offered", "failed"}
                                       /\ UNCHANGED <<draining, pending, queue>>
         /\ Promoted(a) => drain[a].at = "done" /\ drain'[a] = NoDrain /\ UNCHANGED <<pending, queue>>
         /\ NotPromoted(a) => drain'[a] = NoDrain /\ pending' = FALSE
<1>0. drain \in [Actor -> DrainRow] /\ drain[a] \in DrainRow
  BY DEF TypeOK, FibersType
<1>1. drain[a].at # "no"
  BY DEF Promotion, Reserve, Commit, Reject, Promoted, NotPromoted
<1>2. drain[a] # NoDrain
  BY <1>1 DEF NoDrain
<1>3. \E r : drain' = [drain EXCEPT ![a] = r]
  BY DEF Promotion, Reserve, Commit, Reject, Promoted, NotPromoted
<1>4. \A b \in Actor \ {a} : drain'[b] = drain[b]
  BY <1>0, <1>3
<1>5. \A r : drain' = [drain EXCEPT ![a] = r] => drain'[a] = r
  BY <1>0
<1>6. ASSUME Commit(a) PROVE drain'[a] # NoDrain /\ UNCHANGED <<draining, pending, queue>>
  <2>1. drain[a].at = "offered" /\ drain' = [drain EXCEPT ![a] = [drain[a] EXCEPT !.at = "done"]]
    BY <1>6 DEF Commit
  <2>2. drain'[a].at = "done"
    BY <1>0, <1>5, <2>1, DrainRows
  <2>3. drain'[a] # NoDrain
    BY <2>2 DEF NoDrain
  <2> QED
    BY <1>6, <2>3 DEF Commit, turns
<1>7. ASSUME Reserve(a)
      PROVE  drain'[a].at \in {"offered", "failed"} /\ UNCHANGED <<draining, pending, queue>>
  <2>1. drain[a].at = "reserve"
    BY <1>7 DEF Reserve
  <2>2. \/ drain' = [drain EXCEPT ![a] = [drain[a] EXCEPT !.at = "failed"]]
        \/ \E c : drain' = [drain EXCEPT ![a] = [at |-> "offered", entry |-> drain[a].entry,
                                                claim |-> c]]
    BY <1>7 DEF Reserve
  <2>3. [drain[a] EXCEPT !.at = "failed"].at = "failed"
    BY <1>0, <2>1, DrainRows
  <2>4. drain'[a].at \in {"offered", "failed"}
    <3>1. CASE drain' = [drain EXCEPT ![a] = [drain[a] EXCEPT !.at = "failed"]]
      BY <1>5, <2>3, <3>1
    <3>2. ASSUME NEW c, drain' = [drain EXCEPT ![a] = [at |-> "offered", entry |-> drain[a].entry,
                                                       claim |-> c]]
          PROVE  drain'[a].at = "offered"
      BY <1>5, <3>2
    <3> QED
      BY <2>2, <3>1, <3>2
  <2> QED
    BY <1>7, <2>4 DEF Reserve, turns
<1>8. ASSUME Reject(a)
      PROVE  drain'[a].at \in {"offered", "failed"} /\ UNCHANGED <<draining, pending, queue>>
  <2>1. drain'[a] = [at |-> "failed", entry |-> drain[a].entry]
    BY <1>5, <1>8 DEF Reject
  <2> QED
    BY <1>8, <2>1 DEF Reject, turns
<1>9. ASSUME Promoted(a)
      PROVE  drain[a].at = "done" /\ drain'[a] = NoDrain /\ UNCHANGED <<pending, queue>>
  BY <1>5, <1>9 DEF Promoted
<1>10. ASSUME NotPromoted(a) PROVE drain'[a] = NoDrain /\ pending' = FALSE
  BY <1>5, <1>10 DEF NotPromoted, PutBack
<1> QED
  BY <1>2, <1>4, <1>6, <1>7, <1>8, <1>9, <1>10

PromotesNow == \E a \in Actor : drain[a].at \in {"reserve", "offered", "failed"}

LEMMA PendingStep == TypeOK /\ WaitInv /\ PendingIsTrue /\ [Next]_vars => PendingIsTrue'
<1> SUFFICES ASSUME TypeOK, WaitInv, PendingIsTrue, [Next]_vars, pending'
             PROVE  PromotesNow' \/ Heard("promoted")'
  BY DEF PendingIsTrue, PromotesNow, Heard
<1>a. pending => PromotesNow \/ Heard("promoted")
  BY DEF PendingIsTrue, PromotesNow, Heard
<1>b. Heard("promoted") => Heard("promoted")' \/ TakeStart
  BY InboxMoves DEF InboxKeeps
<1>c. ~TakeStart
  BY DEF TakeStart
<1>1. CASE UNCHANGED <<pending, drain>>
  BY <1>1, <1>a, <1>b, <1>c DEF PromotesNow
<1>2. ASSUME NEW a \in Actor, BeginDrain(a) PROVE PromotesNow'
  <2>1. drain'[a] = [at |-> "reserve", entry |-> Head(queue)]
    BY <1>2, DrainBegins
  <2> QED
    BY <2>1 DEF PromotesNow
<1>3. ASSUME NEW a \in Actor, Promotion(a) PROVE PromotesNow' \/ Heard("promoted")'
  <2>1. CASE Commit(a)
    <3>1. drain[a] \in DrainRow /\ drain[a].at = "offered"
      BY <2>1 DEF TypeOK, FibersType, Commit
    <3> DEFINE e == PromotedOf(drain[a].entry.turn, drain[a].claim)
               s == <<e>>
    <3>2. e \in Event /\ e.kind = "promoted"
      BY <3>1, DrainRows, Events DEF PromotedOf
    <3>3. inbox' = inbox \o s /\ s \in Seq(Event) /\ \E i \in DOMAIN s : s[i].kind = "promoted"
      <4>1. inbox' = inbox \o s
        BY <2>1 DEF Commit, Publish
      <4> HIDE DEF e
      <4>2. s \in Seq(Event) /\ 1 \in DOMAIN s /\ s[1] = e
        BY <3>2
      <4> QED
        BY <3>2, <4>1, <4>2
    <3> HIDE DEF s
    <3> QED
      BY <3>3, InboxAppended
  <2>2. CASE Reserve(a) \/ Reject(a)
    <3>1. drain'[a].at \in {"offered", "failed"}
      BY <1>3, <2>2, PromotionMoves
    <3> QED
      BY <3>1 DEF PromotesNow
  <2>3. CASE Promoted(a)
    <3>1. pending /\ drain[a].at = "done" /\ \A b \in Actor \ {a} : drain'[b] = drain[b]
      BY <2>3, <1>3, PromotionMoves DEF Promoted
    <3>2. PromotesNow => PromotesNow'
      BY <3>1 DEF PromotesNow
    <3> QED
      BY <1>a, <1>b, <1>c, <3>1, <3>2
  <2>4. CASE NotPromoted(a)
    BY <2>4 DEF NotPromoted, PutBack
  <2> QED
    BY <1>3, <2>1, <2>2, <2>3, <2>4 DEF Promotion
<1> QED
  BY <1>1, <1>2, <1>3, <1>c, MarkMoves DEF ClearThread, PutBack

(* The worker gets to the send of a goal only from a check that found nothing. *)
LEMMA GoalSendMoves ==
  ASSUME TypeOK, [Next]_vars, worker'.at = "goal-send"
  PROVE  worker.at = "goal-send" \/ (GoalCheck /\ ~HasPending)
<1>0. worker \in WorkerRow
  BY DEF TypeOK, FibersType
<1>a. \A s : worker' = [worker EXCEPT !.at = s] => s = "goal-send"
  BY <1>0, RowKept
<1>1. CASE Admission
  <2>1. CASE TakeStart \/ TakeQueued
    BY <2>1 DEF TakeStart, TakeQueued, Takes, Idle, Becomes, NotClaimed
  <2>2. CASE Look \/ DecideToQueue \/ DecideToStart \/ Send
    BY <1>a, <2>2 DEF Look, DecideToQueue, DecideToStart, Send, At, Becomes, IdleWorker
  <2>3. CASE Sent \/ Report \/ WorkerDrains \/ WorkerDrained
    BY <1>a, <2>3 DEF Sent, Report, WorkerDrains, WorkerDrained, At, Becomes
  <2>4. CASE Release \/ QueuedLook
    BY <1>a, <2>4 DEF Release, QueuedLook, At, Becomes, IdleWorker
  <2> QED
    BY <1>1, <2>1, <2>2, <2>3, <2>4 DEF Admission
<1>2. CASE Control
  <2>1. CASE TakeInterrupt \/ Interrupt \/ TakeStop \/ EndStop
    BY <2>1 DEF TakeInterrupt, Interrupt, TakeStop, EndStop, Takes, Idle, Becomes, IdleWorker
  <2>2. CASE BeginStop \/ AwaitDrained \/ Halt
    BY <1>a, <2>2 DEF BeginStop, AwaitDrained, Halt, Becomes, IdleWorker, At
  <2> QED
    BY <1>2, <2>1, <2>2 DEF Control
<1>3. CASE Continuation
  <2>1. CASE TakeGoal
    BY <2>1 DEF TakeGoal, Takes, Idle, Becomes
  <2>2. CASE GoalLook \/ GoalDrains \/ GoalDrained
    BY <1>a, <2>2 DEF GoalLook, GoalDrains, GoalDrained, Blocked, Becomes, IdleWorker, At
  <2>3. CASE GoalCheck
    BY <1>a, <2>3 DEF GoalCheck, Blocked, Becomes, IdleWorker, At
  <2>4. CASE GoalSend \/ GoalFailed
    BY <1>a, <2>4 DEF GoalSend, GoalFailed, Becomes, IdleWorker, At
  <2> QED
    BY <1>3, <2>1, <2>2, <2>3, <2>4 DEF Continuation
<1>4. CASE \E a \in Actor : Promotion(a)
  BY <1>4 DEF Promotion, Reserve, Commit, Reject, Promoted, NotPromoted
<1>5. CASE HearEnd
  <2>1. worker.at = "sending" => [worker EXCEPT !.parked = TRUE].at = "sending"
    BY <1>0 DEF WorkerRow
  <2> QED
    BY <1>5, <2>1 DEF HearEnd, Parks
<1>6. CASE HearDeletion \/ RetryGoal
  BY <1>6 DEF HearDeletion, RetryGoal, fibers
<1>7. CASE Timeout
  BY <1>7 DEF Timeout, Becomes
<1>8. CASE Environment /\ ~Timeout
  BY <1>8 DEF Environment, Submit, TurnEnds, Ingest, AskStop, AskGoal, SwitchAway, SwitchBack,
     Expire, Delete, Teardown, Redeliver, CommitOrphan, fibers
<1>9. CASE UNCHANGED vars
  BY <1>9 DEF vars, fibers
<1> QED
  BY <1>1, <1>2, <1>3, <1>4, <1>5, <1>6, <1>7, <1>8, <1>9 DEF Next, Worker

LEMMA StopsCounted ==
  ASSUME TypeOK, [Next]_vars, budget'.stops = 0
  PROVE  budget.stops = 0 /\ ~AskStop
<1>0. budget \in [faults : Nat, stops : Nat, goals : Nat]
  BY DEF TypeOK, BudgetType
<1>a. ASSUME NEW k, Happens(k) PROVE budget'.stops = budget.stops
  BY <1>0, <1>a DEF Happens
<1>b. ~AskStop /\ ~SwitchAway
  BY <1>0 DEF AskStop, SwitchAway
<1>1. CASE UNCHANGED budget
  BY <1>1, <1>b
<1>2. CASE Admission
  BY <1>1, <1>2, <1>a, <1>b DEF Admission, TakeStart, Look, DecideToQueue, DecideToStart, Send, Sent,
     Report, WorkerDrains, WorkerDrained, Release, TakeQueued, QueuedLook
<1>3. CASE Control
  BY <1>1, <1>3, <1>a, <1>b DEF Control, TakeInterrupt, Interrupt, TakeStop, BeginStop, AwaitDrained,
     Halt, EndStop
<1>4. CASE Continuation
  BY <1>1, <1>4, <1>a, <1>b DEF Continuation, TakeGoal, GoalLook, GoalDrains, GoalDrained, GoalCheck,
     GoalSend, GoalFailed
<1>5. CASE \E a \in Actor : Promotion(a)
  BY <1>1, <1>5, <1>a, <1>b DEF Promotion, Reserve, Commit, Reject, Promoted, NotPromoted
<1>6. CASE HearEnd \/ HearDeletion \/ RetryGoal
  BY <1>1, <1>6 DEF HearEnd, HearDeletion, RetryGoal
<1>7. CASE AskGoal
  BY <1>0, <1>7, <1>b DEF AskGoal
<1>8. CASE Environment /\ ~AskGoal
  BY <1>1, <1>8, <1>a, <1>b DEF Environment, Submit, TurnEnds, Ingest, SwitchBack, Expire, Delete,
     Teardown, Redeliver, CommitOrphan, Timeout
<1>9. CASE UNCHANGED vars
  BY <1>1, <1>9 DEF vars
<1> QED
  BY <1>2, <1>3, <1>4, <1>5, <1>6, <1>7, <1>8, <1>9 DEF Next, Worker

OnePromotion == (\A a \in Drains : draining) /\ (\A a, b \in Drains : a = b)

(* The promotion that is over was the only one. *)
LEMMA OneOver ==
  ASSUME OnePromotion, NEW a \in Actor, drain[a] # NoDrain, drain'[a] = NoDrain,
         \A b \in Actor \ {a} : drain'[b] = drain[b]
  PROVE  OnePromotion'
<1>1. \A b \in Actor : drain'[b] = NoDrain
  BY DEF OnePromotion, Drains
<1> QED
  BY <1>1 DEF OnePromotion, Drains

(* Nothing is promoted while the continuation is sent: nothing waits. *)
LEMMA MarkStep == TypeOK /\ WaitInv /\ MarkInv /\ [Next]_vars => MarkInv'
<1> SUFFICES ASSUME TypeOK, WaitInv, MarkInv, [Next]_vars, budget'.stops = 0, ~Deleted'
             PROVE  ~Heard("stop")' /\ OnePromotion' /\ GoalYields'
  BY DEF MarkInv, Heard, OnePromotion
<1>0. budget.stops = 0 /\ ~AskStop /\ ~Deleted
  BY StopsCounted, StaysDeleted
<1>1. ~Heard("stop") /\ OnePromotion /\ GoalYields
  BY <1>0 DEF MarkInv, Heard, OnePromotion
<1>2. ~Heard("stop")'
  BY <1>0, <1>1, InboxMoves DEF InboxKeeps
<1>3. ~TakeStop /\ ~HearDeletion
  <2>1. ~HearDeletion
    BY <1>0 DEF HearDeletion, Deleted
  <2>2. ASSUME TakeStop PROVE FALSE
    <3>1. inbox \in Seq(Event) /\ inbox # <<>> /\ Head(inbox).kind = "stop"
      BY <2>2 DEF TakeStop, Takes, TypeOK, FibersType
    <3>2. 1 \in DOMAIN inbox /\ inbox[1].kind = "stop"
      BY <3>1
    <3> QED
      BY <1>1, <3>2 DEF Heard
  <2> QED
    BY <2>1, <2>2
<1>0a. drain \in [Actor -> DrainRow]
  BY DEF TypeOK, FibersType
<1>a. \A a \in Actor : drain[a] # NoDrain => draining
  BY <1>1 DEF OnePromotion, Drains
<1>4. OnePromotion'
  <2>1. CASE UNCHANGED <<draining, drain>>
    BY <1>1, <2>1 DEF OnePromotion, Drains
  <2>2. ASSUME NEW a \in Actor, BeginDrain(a) PROVE OnePromotion'
    <3>1. draining' = TRUE /\ ~draining /\ \A b \in Actor \ {a} : drain'[b] = drain[b]
      BY <2>2, DrainBegins
    <3>2. \A b \in Actor \ {a} : drain'[b] = NoDrain
      BY <1>a, <3>1
    <3> QED
      BY <3>1, <3>2 DEF OnePromotion, Drains
  <2>3. ASSUME NEW a \in Actor, Promotion(a) PROVE OnePromotion'
    <3>1. drain[a] # NoDrain /\ \A b \in Actor \ {a} : drain'[b] = drain[b]
      BY <2>3, PromotionMoves
    <3>2. drain'[a] = NoDrain \/ UNCHANGED draining
      BY <2>3, PromotionMoves DEF Promotion
    <3>3. CASE UNCHANGED draining
      <4>1. Drains' \subseteq Drains
        BY <3>1 DEF Drains
      <4> QED
        BY <1>1, <3>3, <4>1 DEF OnePromotion
    <3> QED
      BY <1>1, <3>1, <3>2, <3>3, OneOver
  <2>4. CASE /\ drain["worker"].at \in {"reserve", "offered"}
             /\ drain' = [drain EXCEPT !["worker"] = NoDrain]
    <3>1. drain["worker"] # NoDrain /\ "worker" \in Actor
      BY <2>4 DEF NoDrain, Actor
    <3>2. drain'["worker"] = NoDrain /\ \A b \in Actor \ {"worker"} : drain'[b] = drain[b]
      BY <1>0a, <2>4, <3>1
    <3> QED
      BY <1>1, <3>1, <3>2, OneOver
  <2> QED
    BY <1>3, <2>1, <2>2, <2>3, <2>4, MarkMoves
<1>5. ASSUME worker'.at = "goal-send"
      PROVE  queue' = <<>> /\ ~draining' /\ ~pending'
  <2>1. CASE GoalCheck /\ ~HasPending
    BY <2>1 DEF GoalCheck, HasPending, turns
  <2>2. CASE worker.at = "goal-send"
    <3>1. queue = <<>> /\ ~draining /\ ~pending
      BY <1>0, <1>1, <2>2 DEF GoalYields
    <3>2. \A a \in Actor : drain[a] = NoDrain
      BY <1>a, <3>1
    <3>3. \A a \in Actor : ~BeginDrain(a) /\ ~Promotion(a)
      BY <3>1, <3>2, PromotionMoves DEF BeginDrain
    <3>4. drain["worker"].at \notin {"reserve", "offered"}
      BY <3>2 DEF NoDrain, Actor
    <3>5. ~TakeStart /\ ~TakeQueued /\ ~DecideToQueue
      BY <2>2 DEF TakeStart, TakeQueued, DecideToQueue, Takes, Idle
    <3>6. UNCHANGED <<draining, pending, queue>>
      <4>1. UNCHANGED <<draining, pending, drain>> /\ (UNCHANGED queue \/ TakeQueued \/ DecideToQueue)
        BY <1>3, <3>3, <3>4, <3>5, MarkMoves
      <4> QED
        BY <3>5, <4>1
    <3> QED
      BY <3>1, <3>6
  <2> QED
    BY <1>5, <2>1, <2>2, GoalSendMoves
<1> QED
  BY <1>2, <1>4, <1>5 DEF GoalYields

-----------------------------------------------------------------------------
(* The theorems *)

LEMMA QueueInit == Init => QueueInv
<1> SUFFICES ASSUME Init PROVE QueueInv
  OBVIOUS
<1>1. TypeOK
  <2>1. TurnsType
    <3>1. accepted \subseteq Turn /\ queue \in Seq(Entry)
      BY DEF Init
    <3>2. draining \in BOOLEAN /\ pending \in BOOLEAN
      BY DEF Init
    <3> QED
      BY <3>1, <3>2 DEF TurnsType
  <2>2. FibersType
    BY NewRows, NewDrains DEF Init, FibersType, IdleWorker, Bare
  <2>3. AuthorityType /\ BudgetType
    BY DEF Init, AuthorityType, BudgetType
  <2>4. ProviderType
    <3>1. live \in Played \cup {Null} /\ ended \in Seq(Played)
      BY DEF Init
    <3>2. projected \in {"idle", "starting", "running"} /\ news \in BOOLEAN
      BY DEF Init
    <3> QED
      BY <3>1, <3>2 DEF ProviderType
  <2>5. HistoryType
    BY DEF Init, HistoryType
  <2> QED
    BY <2>1, <2>2, <2>3, <2>4, <2>5 DEF TypeOK
<1>2. ClaimInv
  <2>1. holders \in [ClaimId -> Nat] /\ \A c \in ClaimId : holders[c] = 0
    BY DEF Init
  <2>2. ASSUME NEW c \in ClaimId PROVE Uses(c) = 0
    <3>1. Cardinality(Places(queue, c)) = 0
      <4>1. Places(<<>>, c) = {}
        BY DEF Places
      <4> QED
        BY <4>1, FS_EmptySet DEF Init
    <3>2. Promoting(drain, c) = 0 /\ Handles(worker, c) = 0
      BY DEF Init, Promoting, Promotes, NoDrain, Actor, Handles, Handling, IdleWorker
    <3> QED
      BY <3>1, <3>2 DEF Uses
  <2> QED
    BY <2>1, <2>2 DEF ClaimInv
<1>3. WaitInv /\ LiveInv /\ PendingIsTrue
  BY DEF Init, WaitInv, LiveInv, PendingIsTrue, Starting, IdleWorker, Actor
<1>4. GateInv
  BY DEF Init, GateInv, Stopping, IdleWorker, Claimed
<1>5. MarkInv
  BY DEF Init, MarkInv, GoalYields, Drains, IdleWorker
<1> QED
  BY <1>1, <1>2, <1>3, <1>4, <1>5 DEF QueueInv

LEMMA QueueStep == QueueInv /\ [Next]_vars => QueueInv'
BY TypeStep, ClaimStep, WaitStep, GateStep, LiveStep, MarkStep, PendingStep DEF QueueInv

(* The inductive invariant of the turn queue: the types, the account of the
   claims, who has the thread, and whose the marks are. *)
THEOREM QueueInvariant == Spec => []QueueInv
BY QueueInit, QueueStep, PTL DEF Spec

(* Every variable of the queue, the handlers, the promotions and the provider
   keeps its type, the rows of the worker and of the promotions included. *)
THEOREM QueueTypeCorrect == Spec => []TypeOK
<1>1. QueueInv => TypeOK
  BY DEF QueueInv
<1> QED
  BY <1>1, QueueInvariant, PTL

(* Each claim is held once for each place that refers to it. *)
THEOREM ClaimsAccounted == Spec => []ClaimInv
<1>1. QueueInv => ClaimInv
  BY DEF QueueInv
<1> QED
  BY <1>1, QueueInvariant, PTL

(* A turn that waits or is being promoted is covered by a held claim, so that
   a stop, a switch or a deletion waits for it. *)
THEOREM WaitingTurnsAreCovered == Spec => []ClaimCovers
<1>1. ASSUME QueueInv PROVE ClaimCovers
  <2>0. TypeOK /\ ClaimInv /\ queue \in Seq(Entry) /\ drain \in [Actor -> DrainRow]
    BY <1>1 DEF QueueInv, TypeOK, TurnsType, FibersType
  <2>1. ASSUME NEW i \in DOMAIN queue PROVE Claimed(queue[i].claim)
    <3> DEFINE c == queue[i].claim
    <3>1. c \in ClaimId
      <4>1. queue[i] \in Entry
        BY <2>0
      <4> QED
        BY <4>1 DEF Entry
    <3>2. Cardinality(Places(queue, c)) # 0 /\ Cardinality(Places(queue, c)) \in Nat
      BY <2>0, PlacesCount
    <3>3. holders[c] \in Nat /\ Cardinality(Places(queue, c)) <= holders[c]
      BY <2>0, <3>1, ClaimCounts
    <3> QED
      BY <3>2, <3>3 DEF Claimed
  <2>2. ASSUME NEW a \in Drains PROVE Claimed(drain[a].entry.claim)
    <3> DEFINE c == drain[a].entry.claim
    <3>1. a \in Actor /\ drain[a].at # "no" /\ c \in ClaimId
      BY <2>0, DrainRows DEF Drains
    <3>2. Promotes(drain[a], c) = 1
      BY <3>1 DEF Promotes
    <3>3. holders[c] \in Nat /\ Promotes(drain[a], c) <= holders[c]
      BY <2>0, <3>1, ClaimCounts
    <3> QED
      BY <3>2, <3>3 DEF Claimed
  <2> QED
    BY <2>1, <2>2 DEF ClaimCovers
<1> QED
  BY <1>1, QueueInvariant, PTL

(* No claim is held by nobody: it belongs to a turn that waits, to a promotion
   or to the handler, and goes with it. *)
THEOREM NoClaimIsLeaked == Spec => []ClaimOwned
<1>1. ASSUME QueueInv PROVE ClaimOwned
  <2>0. TypeOK /\ ClaimInv /\ queue \in Seq(Entry) /\ drain \in [Actor -> DrainRow]
        /\ worker \in WorkerRow
    BY <1>1 DEF QueueInv, TypeOK, TurnsType, FibersType
  <2> SUFFICES ASSUME NEW c \in ClaimId, Claimed(c),
                      c \notin QueuedClaims, \A a \in Drains : drain[a].entry.claim # c
               PROVE  "claim" \in DOMAIN worker /\ worker.claim = c
    BY DEF ClaimOwned
  <2>1. Cardinality(Places(queue, c)) = 0
    <3>1. \A i \in DOMAIN queue : queue[i].claim # c
      BY DEF QueuedClaims
    <3> QED
      BY <2>0, <3>1, PlacesCount
  <2>2. Promoting(drain, c) = 0
    <3>1. ASSUME NEW a \in Actor PROVE Promotes(drain[a], c) = 0
      <4>1. CASE drain[a] = NoDrain
        BY <4>1, NewDrains DEF Promotes
      <4>2. CASE a \in Drains
        BY <4>2 DEF Promotes
      <4> QED
        BY <4>1, <4>2 DEF Drains
    <3> QED
      BY <3>1 DEF Promoting, Actor
  <2>3. holders[c] = Handles(worker, c) /\ holders[c] > 0
    <3>1. holders[c] = Cardinality(Places(queue, c)) + Promoting(drain, c) + Handles(worker, c)
      BY <2>0, ClaimCounts
    <3> QED
      BY <2>1, <2>2, <3>1, HandlesBit DEF Claimed
  <2>4. worker.at \in Handling /\ worker.claim = c
    BY <2>3 DEF Handles
  <2>5. "claim" \in DOMAIN worker
    BY <2>0, <2>4 DEF WorkerRow, Handling, Bare
  <2> QED
    BY <2>4, <2>5
<1> QED
  BY <1>1, QueueInvariant, PTL

(* When a stop halts the provider, and while the terminal has the thread, no
   turn waits, is being promoted or can still be started. *)
THEOREM ClosedThreadIsEmpty == Spec => []ClosedMeansEmpty
<1>1. ASSUME QueueInv PROVE ClosedMeansEmpty
  <2> SUFFICES ASSUME gate = "away" \/ worker.at = "halt"
               PROVE  queue = <<>> /\ Drains = {} /\ reserved = {}
    BY DEF ClosedMeansEmpty
  <2>0. TypeOK /\ ClaimInv /\ queue \in Seq(Entry) /\ drain \in [Actor -> DrainRow]
    BY <1>1 DEF QueueInv, TypeOK, TurnsType, FibersType
  <2>1. reserved = {} /\ \A c \in ClaimId : ~Claimed(c)
    BY <1>1 DEF QueueInv, GateInv
  <2>2. \A c \in ClaimId : Cardinality(Places(queue, c)) = 0
                           /\ \A a \in Actor : Promotes(drain[a], c) <= 0
    BY <2>0, <2>1, ClaimCounts DEF Claimed
  <2>3. queue = <<>>
    <3> SUFFICES ASSUME queue # <<>> PROVE FALSE
      OBVIOUS
    <3>1. 1 \in DOMAIN queue /\ queue[1] \in Entry
      BY <2>0
    <3>2. queue[1].claim \in ClaimId
      BY <3>1 DEF Entry
    <3> QED
      BY <2>0, <2>2, <3>1, <3>2, PlacesCount
  <2>4. Drains = {}
    <3> SUFFICES ASSUME NEW a \in Drains PROVE FALSE
      OBVIOUS
    <3>1. a \in Actor /\ drain[a].at # "no" /\ drain[a].entry.claim \in ClaimId
      BY <2>0, DrainRows DEF Drains
    <3>2. Promotes(drain[a], drain[a].entry.claim) = 1
      BY <3>1 DEF Promotes
    <3> QED
      BY <2>2, <3>1, <3>2
  <2> QED
    BY <2>1, <2>3, <2>4
<1> QED
  BY <1>1, QueueInvariant, PTL

(* The mark of a pending dispatch never outlives the promotion it is for. *)
THEOREM MarksAreTrue == Spec => []PendingIsTrue
<1>1. QueueInv => PendingIsTrue
  BY DEF QueueInv
<1> QED
  BY <1>1, QueueInvariant, PTL

(* The continuation of a goal is sent only when no user's turn waits or is
   being promoted, as long as nobody stops or deletes the thread. *)
THEOREM GoalsYieldToTurns == Spec => []GoalYields
<1>1. QueueInv => GoalYields
  BY DEF QueueInv, MarkInv, GoalYields
<1> QED
  BY <1>1, QueueInvariant, PTL

(* A turn is given to the provider only when it runs none. *)
THEOREM OneTurnAtATime == Spec => OneTurnRuns
<1>1. ASSUME QueueInv, [Next]_vars PROVE [sent' # sent => live = Null]_sent
  <2>1. CASE Send \/ GoalSend
    BY <1>1, <2>1 DEF QueueInv, LiveInv, Starting, Send, GoalSend
  <2>2. CASE ~Send /\ ~GoalSend
    <3>1. UNCHANGED sent
      <4>1. CASE Admission
        BY <2>2, <4>1 DEF Admission, TakeStart, Look, DecideToQueue, DecideToStart, Sent, Report,
           WorkerDrains, WorkerDrained, Release, TakeQueued, QueuedLook, history
      <4>2. CASE Control
        BY <4>2 DEF Control, TakeInterrupt, Interrupt, TakeStop, BeginStop, AwaitDrained, Halt,
           EndStop, history
      <4>3. CASE Continuation
        BY <2>2, <4>3 DEF Continuation, TakeGoal, GoalLook, GoalDrains, GoalDrained, GoalCheck,
           GoalFailed, history
      <4>4. CASE \E a \in Actor : Promotion(a)
        BY <4>4 DEF Promotion, Reserve, Commit, Reject, Promoted, NotPromoted, history
      <4>5. CASE HearEnd \/ HearDeletion \/ RetryGoal
        BY <4>5 DEF HearEnd, HearDeletion, RetryGoal, history
      <4>6. CASE Environment
        BY <4>6 DEF Environment, Submit, TurnEnds, Ingest, AskStop, AskGoal, SwitchAway, SwitchBack,
           Expire, Delete, Teardown, Redeliver, CommitOrphan, Timeout, history
      <4>7. CASE UNCHANGED vars
        BY <4>7 DEF vars, history
      <4> QED
        BY <1>1, <4>1, <4>2, <4>3, <4>4, <4>5, <4>6, <4>7 DEF Next, Worker
    <3> QED
      BY <3>1
  <2> QED
    BY <2>1, <2>2
<1> QED
  BY <1>1, QueueInvariant, PTL DEF Spec, OneTurnRuns

-----------------------------------------------------------------------------
(* What became of the turns: where each of them is, and what was done to it *)

InboxTurns == {inbox[i].turn : i \in {j \in DOMAIN inbox : IsTurn(inbox[j])}}

Undone(d) == d.at \in {"reserve", "offered", "failed"}

PromotedTurns == {drain[a].entry.turn : a \in {b \in Actor : Undone(drain[b])}}

CommittedTurns == {drain[a].entry.turn : a \in {b \in Actor : drain[b].at = "done"}}

HandlerTurns == {t \in Turn : InHandler(t)}

GivenTurns == {t \in Turn : \E i \in DOMAIN sent : sent[i] = t}

(* No turn is twice in the same place. *)
OnceInQueue == \A i, j \in DOMAIN queue : queue[i].turn = queue[j].turn => i = j

OnceInInbox ==
  \A i, j \in DOMAIN inbox :
    IsTurn(inbox[i]) /\ IsTurn(inbox[j]) /\ inbox[i].turn = inbox[j].turn => i = j

PromotedOnce ==
  \A a, b \in Actor :
    Undone(drain[a]) /\ Undone(drain[b]) /\ drain[a].entry.turn = drain[b].entry.turn => a = b

Once == OnceInQueue /\ OnceInInbox /\ PromotedOnce

(* No turn is in two places, except that the fiber which promoted it has not
   noticed yet. *)
Apart ==
  /\ QueuedTurns \cap InboxTurns = {} /\ QueuedTurns \cap PromotedTurns = {}
  /\ QueuedTurns \cap HandlerTurns = {} /\ InboxTurns \cap PromotedTurns = {}
  /\ InboxTurns \cap HandlerTurns = {} /\ PromotedTurns \cap HandlerTurns = {}

Unsettled == QueuedTurns \cup InboxTurns \cup PromotedTurns \cup HandlerTurns

Settled == GivenTurns \cup refused \cup dropped

(* A turn that is somewhere was accepted and is still owed, and an accepted one
   is nowhere only when it is settled or the thread deleted. *)
Owed ==
  /\ Unsettled \subseteq accepted /\ Unsettled \cap Settled = {}
  /\ Settled \subseteq accepted /\ CommittedTurns \subseteq accepted
  /\ accepted \subseteq Settled \cup Unsettled \/ Deleted

(* What the faults that are left out here would bring. *)
NewEvents == \A i \in DOMAIN inbox : IsTurn(inbox[i]) => ~inbox[i].again

Calm == orphans = {} /\ NewEvents

(* Only a stop closes the gate to the worker, and it is the worker. *)
OneStop == gate = "stopping" => worker.at \in Stopping

DeliveryInv == Once /\ Apart /\ Owed

-----------------------------------------------------------------------------
(* A turn gets in line, or out of it *)

LEMMA QueueOut ==
  ASSUME TypeOK, OnceInQueue, queue # <<>>, queue' = Tail(queue)
  PROVE  /\ OnceInQueue' /\ QueuedTurns' = QueuedTurns \ {Head(queue).turn}
         /\ Head(queue).turn \in QueuedTurns
<1>0. queue \in Seq(Entry)
  BY DEF TypeOK, TurnsType
<1>1. /\ DOMAIN queue = 1..Len(queue) /\ DOMAIN queue' = 1..(Len(queue) - 1)
      /\ Len(queue) \in Nat /\ Len(queue) # 0
      /\ \A j \in 1..(Len(queue) - 1) : queue'[j] = queue[j + 1]
      /\ Head(queue) = queue[1]
  BY <1>0
<1>2. OnceInQueue'
  <2> SUFFICES ASSUME NEW i \in DOMAIN queue', NEW j \in DOMAIN queue', queue'[i].turn = queue'[j].turn
               PROVE  i = j
    BY DEF OnceInQueue
  <2>1. i + 1 \in DOMAIN queue /\ j + 1 \in DOMAIN queue /\ queue[i + 1].turn = queue[j + 1].turn
    BY <1>1
  <2>2. i + 1 = j + 1
    BY <2>1 DEF OnceInQueue
  <2> QED
    BY <1>1, <2>2
<1>3. Head(queue).turn \in QueuedTurns
  BY <1>1 DEF QueuedTurns
<1>4. ASSUME NEW t \in QueuedTurns' PROVE t \in QueuedTurns \ {Head(queue).turn}
  <2>1. PICK j \in DOMAIN queue' : t = queue'[j].turn
    BY <1>4 DEF QueuedTurns
  <2>2. j + 1 \in DOMAIN queue /\ t = queue[j + 1].turn /\ 1 \in DOMAIN queue /\ j + 1 # 1
    BY <1>1, <2>1
  <2> QED
    BY <1>1, <2>2 DEF QueuedTurns, OnceInQueue
<1>5. ASSUME NEW t \in QueuedTurns, t # Head(queue).turn PROVE t \in QueuedTurns'
  <2>1. PICK i \in DOMAIN queue : t = queue[i].turn
    BY <1>5 DEF QueuedTurns
  <2>2. i - 1 \in DOMAIN queue' /\ queue'[i - 1] = queue[i]
    BY <1>1, <1>5, <2>1
  <2> QED
    BY <2>1, <2>2 DEF QueuedTurns
<1> QED
  BY <1>2, <1>3, <1>4, <1>5

LEMMA QueueIn ==
  ASSUME TypeOK, OnceInQueue, NEW e \in Entry, queue' \in {Enqueued(e), RequeuedFront(e)},
         e.turn \notin QueuedTurns
  PROVE  OnceInQueue' /\ QueuedTurns' = QueuedTurns \cup {e.turn}
<1>0. queue \in Seq(Entry)
  BY DEF TypeOK, TurnsType
<1> DEFINE n == Len(queue)
<1>a. DOMAIN queue = 1..n /\ n \in Nat
  BY <1>0
<1>b. \A i \in DOMAIN queue : queue[i].turn \in QueuedTurns
  BY DEF QueuedTurns
<1>1. CASE queue' = <<e>> \o queue
  <2>1. ASSUME NEW r, r = <<e>> \o queue
        PROVE  /\ DOMAIN r = 1..(n + 1) /\ r[1] = e
               /\ \A i \in 1..n : r[i + 1] = queue[i]
               /\ \A i \in 2..(n + 1) : r[i] = queue[i - 1]
    BY <1>0, <2>1
  <2>2. /\ DOMAIN queue' = 1..(n + 1) /\ queue'[1] = e
        /\ \A i \in 1..n : queue'[i + 1] = queue[i]
        /\ \A i \in 2..(n + 1) : queue'[i] = queue[i - 1]
    BY <1>1, <2>1
  <2>3. \A i \in 1..(n + 1) : i = 1 \/ (i \in 2..(n + 1) /\ i - 1 \in 1..n)
    BY <1>a
  <2>4. OnceInQueue'
    <3> SUFFICES ASSUME NEW i \in DOMAIN queue', NEW j \in DOMAIN queue',
                        queue'[i].turn = queue'[j].turn
                 PROVE  i = j
      BY DEF OnceInQueue
    <3>0. \A k \in 2..(n + 1) : queue'[k].turn \in QueuedTurns
      <4> TAKE k \in 2..(n + 1)
      <4>1. k - 1 \in DOMAIN queue /\ queue'[k] = queue[k - 1]
        BY <1>a, <2>2
      <4> QED
        BY <1>b, <4>1
    <3>1. CASE i = 1 \/ j = 1
      <4>1. i \in 1..(n + 1) /\ j \in 1..(n + 1)
        BY <2>2
      <4> QED
        BY <2>2, <2>3, <3>0, <3>1, <4>1
    <3>2. CASE i # 1 /\ j # 1
      <4>1. i - 1 \in DOMAIN queue /\ j - 1 \in DOMAIN queue
            /\ queue[i - 1].turn = queue[j - 1].turn
        BY <1>a, <2>2, <2>3, <3>2
      <4>2. i - 1 = j - 1
        BY <4>1 DEF OnceInQueue
      <4> QED
        BY <1>a, <2>2, <4>2
    <3> QED
      BY <3>1, <3>2
  <2>5. ASSUME NEW t \in QueuedTurns' PROVE t \in QueuedTurns \cup {e.turn}
    <3>1. PICK j \in DOMAIN queue' : t = queue'[j].turn
      BY <2>5 DEF QueuedTurns
    <3> QED
      BY <1>a, <1>b, <2>2, <2>3, <3>1
  <2>6. ASSUME NEW t \in QueuedTurns PROVE t \in QueuedTurns'
    <3>1. PICK i \in DOMAIN queue : t = queue[i].turn
      BY <2>6 DEF QueuedTurns
    <3>2. i + 1 \in DOMAIN queue' /\ queue'[i + 1] = queue[i]
      BY <1>a, <2>2
    <3> QED
      BY <3>1, <3>2 DEF QueuedTurns
  <2>7. e.turn \in QueuedTurns'
    <3>1. 1 \in DOMAIN queue'
      BY <1>a, <2>2
    <3> QED
      BY <2>2, <3>1 DEF QueuedTurns
  <2> QED
    BY <2>4, <2>5, <2>6, <2>7
<1>2. CASE queue' = Append(queue, e)
  <2>2. /\ DOMAIN queue' = 1..(n + 1) /\ queue'[n + 1] = e
        /\ \A i \in 1..n : queue'[i] = queue[i]
    BY <1>0, <1>2
  <2>3. \A i \in 1..(n + 1) : i = n + 1 \/ i \in 1..n
    BY <1>a
  <2>4. OnceInQueue'
    BY <1>a, <1>b, <2>2, <2>3 DEF OnceInQueue
  <2>5. ASSUME NEW t \in QueuedTurns' PROVE t \in QueuedTurns \cup {e.turn}
    <3>1. PICK j \in DOMAIN queue' : t = queue'[j].turn
      BY <2>5 DEF QueuedTurns
    <3> QED
      BY <1>a, <1>b, <2>2, <2>3, <3>1
  <2>6. ASSUME NEW t \in QueuedTurns PROVE t \in QueuedTurns'
    <3>1. PICK i \in DOMAIN queue : t = queue[i].turn
      BY <2>6 DEF QueuedTurns
    <3>2. i \in DOMAIN queue' /\ queue'[i] = queue[i]
      BY <1>a, <2>2
    <3> QED
      BY <3>1, <3>2 DEF QueuedTurns
  <2>7. e.turn \in QueuedTurns'
    <3>1. n + 1 \in DOMAIN queue'
      BY <1>a, <2>2
    <3> QED
      BY <2>2, <3>1 DEF QueuedTurns
  <2> QED
    BY <2>4, <2>5, <2>6, <2>7
<1> QED
  BY <1>1, <1>2 DEF Enqueued, RequeuedFront

LEMMA QueueEmptied ==
  ASSUME queue' = <<>>
  PROVE  OnceInQueue' /\ QueuedTurns' = {}
BY DEF OnceInQueue, QueuedTurns

LEMMA QueueUnmoved ==
  ASSUME OnceInQueue, UNCHANGED queue
  PROVE  OnceInQueue' /\ QueuedTurns' = QueuedTurns
BY DEF OnceInQueue, QueuedTurns

-----------------------------------------------------------------------------
(* An event of a turn is taken, or published *)

LEMMA InboxOut ==
  ASSUME TypeOK, OnceInInbox, NEW kinds, Takes(kinds)
  PROVE  /\ OnceInInbox'
         /\ IsTurn(Head(inbox)) => /\ InboxTurns' = InboxTurns \ {Head(inbox).turn}
                                   /\ Head(inbox).turn \in InboxTurns
         /\ ~IsTurn(Head(inbox)) => InboxTurns' = InboxTurns
<1>0. inbox \in Seq(Event) /\ inbox # <<>> /\ inbox' = Tail(inbox)
  BY DEF TypeOK, FibersType, Takes
<1>1. /\ DOMAIN inbox = 1..Len(inbox) /\ DOMAIN inbox' = 1..(Len(inbox) - 1)
      /\ Len(inbox) \in Nat /\ Len(inbox) # 0
      /\ \A j \in 1..(Len(inbox) - 1) : inbox'[j] = inbox[j + 1]
      /\ Head(inbox) = inbox[1]
  BY <1>0
<1>2. OnceInInbox'
  <2> SUFFICES ASSUME NEW i \in DOMAIN inbox', NEW j \in DOMAIN inbox',
                      IsTurn(inbox'[i]), IsTurn(inbox'[j]), inbox'[i].turn = inbox'[j].turn
               PROVE  i = j
    BY DEF OnceInInbox
  <2>1. /\ i + 1 \in DOMAIN inbox /\ j + 1 \in DOMAIN inbox
        /\ inbox'[i] = inbox[i + 1] /\ inbox'[j] = inbox[j + 1]
    BY <1>1
  <2>2. i + 1 = j + 1
    BY <2>1 DEF OnceInInbox
  <2> QED
    BY <1>1, <2>2
<1>3. IsTurn(Head(inbox)) => Head(inbox).turn \in InboxTurns
  BY <1>1 DEF InboxTurns
<1>4. ASSUME NEW t \in InboxTurns' PROVE t \in InboxTurns /\ (IsTurn(Head(inbox)) => t # Head(inbox).turn)
  <2>1. PICK j \in DOMAIN inbox' : IsTurn(inbox'[j]) /\ t = inbox'[j].turn
    BY <1>4 DEF InboxTurns
  <2>2. /\ j + 1 \in DOMAIN inbox /\ inbox'[j] = inbox[j + 1]
        /\ 1 \in DOMAIN inbox /\ j + 1 # 1
    BY <1>1, <2>1
  <2>3. t \in InboxTurns
    BY <2>1, <2>2 DEF InboxTurns
  <2>4. IsTurn(inbox[1]) => t # inbox[1].turn
    BY <2>1, <2>2 DEF OnceInInbox
  <2> QED
    BY <1>1, <2>3, <2>4
<1>5. ASSUME NEW t \in InboxTurns, IsTurn(Head(inbox)) => t # Head(inbox).turn PROVE t \in InboxTurns'
  <2>1. PICK i \in DOMAIN inbox : IsTurn(inbox[i]) /\ t = inbox[i].turn
    BY <1>5 DEF InboxTurns
  <2>2. i # 1
    BY <1>1, <1>5, <2>1
  <2>3. i - 1 \in DOMAIN inbox' /\ inbox'[i - 1] = inbox[i]
    BY <1>1, <2>1, <2>2
  <2> QED
    BY <2>1, <2>3 DEF InboxTurns
<1> QED
  BY <1>2, <1>3, <1>4, <1>5

LEMMA InboxIn ==
  ASSUME TypeOK, OnceInInbox, NEW e \in Event, inbox' = Append(inbox, e),
         IsTurn(e) => e.turn \notin InboxTurns
  PROVE  /\ OnceInInbox'
         /\ InboxTurns' = InboxTurns \cup (IF IsTurn(e) THEN {e.turn} ELSE {})
<1> DEFINE n == Len(inbox)
<1>0. inbox \in Seq(Event)
  BY DEF TypeOK, FibersType
<1>1. /\ n \in Nat /\ DOMAIN inbox = 1..n /\ DOMAIN inbox' = 1..(n + 1)
      /\ inbox'[n + 1] = e /\ \A i \in 1..n : inbox'[i] = inbox[i]
  BY <1>0
<1>2. \A i \in 1..(n + 1) : i = n + 1 \/ i \in 1..n
  BY <1>1
<1>3. \A i \in DOMAIN inbox : IsTurn(inbox[i]) => inbox[i].turn \in InboxTurns
  BY DEF InboxTurns
<1>4. OnceInInbox'
  <2> SUFFICES ASSUME NEW i \in DOMAIN inbox', NEW j \in DOMAIN inbox',
                      IsTurn(inbox'[i]), IsTurn(inbox'[j]), inbox'[i].turn = inbox'[j].turn
               PROVE  i = j
    BY DEF OnceInInbox
  <2> HIDE DEF n
  <2>1. CASE i = n + 1 \/ j = n + 1
    BY <1>1, <1>2, <1>3, <2>1
  <2>2. CASE i \in 1..n /\ j \in 1..n
    BY <1>1, <2>2 DEF OnceInInbox
  <2> QED
    BY <1>1, <1>2, <2>1, <2>2
<1>5. ASSUME NEW t \in InboxTurns' PROVE t \in InboxTurns \/ (IsTurn(e) /\ t = e.turn)
  <2>1. PICK j \in DOMAIN inbox' : IsTurn(inbox'[j]) /\ t = inbox'[j].turn
    BY <1>5 DEF InboxTurns
  <2> HIDE DEF n
  <2> QED
    BY <1>1, <1>2, <1>3, <2>1
<1>6. ASSUME NEW t \in InboxTurns PROVE t \in InboxTurns'
  <2>1. PICK i \in DOMAIN inbox : IsTurn(inbox[i]) /\ t = inbox[i].turn
    BY <1>6 DEF InboxTurns
  <2>2. i \in DOMAIN inbox' /\ inbox'[i] = inbox[i]
    BY <1>1
  <2> QED
    BY <2>1, <2>2 DEF InboxTurns
<1>7. IsTurn(e) => e.turn \in InboxTurns'
  <2>1. n + 1 \in DOMAIN inbox'
    BY <1>1
  <2> QED
    BY <1>1, <2>1 DEF InboxTurns
<1> QED
  BY <1>4, <1>5, <1>6, <1>7

(* Publishing one event, and one more that is of no turn. *)
LEMMA InboxPublishes ==
  ASSUME TypeOK, OnceInInbox, NEW e \in Event, IsTurn(e) => e.turn \notin InboxTurns,
         Publish(<<e>>) \/ \E f \in Event : ~IsTurn(f) /\ Publish(<<e>> \o <<f>>)
  PROVE  /\ OnceInInbox'
         /\ InboxTurns' = InboxTurns \cup (IF IsTurn(e) THEN {e.turn} ELSE {})
<1>0. inbox \in Seq(Event)
  BY DEF TypeOK, FibersType
<1>1. CASE Publish(<<e>>)
  <2>1. inbox' = Append(inbox, e)
    BY <1>0, <1>1 DEF Publish
  <2> QED
    BY <2>1, InboxIn
<1>2. ASSUME NEW f \in Event, ~IsTurn(f), Publish(<<e>> \o <<f>>)
      PROVE  /\ OnceInInbox'
             /\ InboxTurns' = InboxTurns \cup (IF IsTurn(e) THEN {e.turn} ELSE {})
  <2> DEFINE n == Len(inbox)
  <2>1. /\ n \in Nat /\ DOMAIN inbox = 1..n /\ DOMAIN inbox' = 1..(n + 2)
        /\ inbox'[n + 1] = e /\ inbox'[n + 2] = f /\ \A i \in 1..n : inbox'[i] = inbox[i]
    <3>1. inbox' = Append(Append(inbox, e), f)
      BY <1>0, <1>2 DEF Publish
    <3>2. /\ Append(inbox, e) \in Seq(Event) /\ Len(Append(inbox, e)) = n + 1 /\ n \in Nat
          /\ Append(inbox, e)[n + 1] = e /\ \A i \in 1..n : Append(inbox, e)[i] = inbox[i]
          /\ DOMAIN inbox = 1..n
      BY <1>0
    <3>3. \A r \in Seq(Event) : Len(r) = n + 1 =>
            /\ DOMAIN Append(r, f) = 1..(n + 2) /\ Append(r, f)[n + 2] = f
            /\ \A i \in 1..(n + 1) : Append(r, f)[i] = r[i]
      BY <3>2
    <3>4. /\ DOMAIN inbox' = 1..(n + 2) /\ inbox'[n + 2] = f
          /\ \A i \in 1..(n + 1) : inbox'[i] = Append(inbox, e)[i]
      BY <3>1, <3>2, <3>3
    <3>5. n + 1 \in 1..(n + 1) /\ \A i \in 1..n : i \in 1..(n + 1)
      BY <3>2
    <3> QED
      BY <3>2, <3>4, <3>5
  <2>2. \A i \in 1..(n + 2) : i = n + 2 \/ i = n + 1 \/ i \in 1..n
    BY <2>1
  <2>3. \A i \in DOMAIN inbox : IsTurn(inbox[i]) => inbox[i].turn \in InboxTurns
    BY DEF InboxTurns
  <2>4. OnceInInbox'
    <3> SUFFICES ASSUME NEW i \in DOMAIN inbox', NEW j \in DOMAIN inbox',
                        IsTurn(inbox'[i]), IsTurn(inbox'[j]), inbox'[i].turn = inbox'[j].turn
                 PROVE  i = j
      BY DEF OnceInInbox
    <3> HIDE DEF n
    <3>0. i \in 1..(n + 1) /\ j \in 1..(n + 1)
      BY <1>2, <2>1, <2>2
    <3>1. CASE i = n + 1 \/ j = n + 1
      BY <1>2, <2>1, <2>2, <2>3, <3>0, <3>1
    <3>2. CASE i \in 1..n /\ j \in 1..n
      BY <2>1, <3>2 DEF OnceInInbox
    <3> QED
      BY <1>2, <2>1, <2>2, <3>1, <3>2
  <2>5. ASSUME NEW t \in InboxTurns' PROVE t \in InboxTurns \/ (IsTurn(e) /\ t = e.turn)
    <3>1. PICK j \in DOMAIN inbox' : IsTurn(inbox'[j]) /\ t = inbox'[j].turn
      BY <2>5 DEF InboxTurns
    <3> HIDE DEF n
    <3> QED
      BY <1>2, <2>1, <2>2, <2>3, <3>1
  <2>6. ASSUME NEW t \in InboxTurns PROVE t \in InboxTurns'
    <3>1. PICK i \in DOMAIN inbox : IsTurn(inbox[i]) /\ t = inbox[i].turn
      BY <2>6 DEF InboxTurns
    <3>2. i \in DOMAIN inbox' /\ inbox'[i] = inbox[i]
      BY <2>1
    <3> QED
      BY <3>1, <3>2 DEF InboxTurns
  <2>7. IsTurn(e) => e.turn \in InboxTurns'
    <3>1. n + 1 \in DOMAIN inbox'
      BY <2>1
    <3> QED
      BY <2>1, <3>1 DEF InboxTurns
  <2> QED
    BY <2>4, <2>5, <2>6, <2>7
<1> QED
  BY <1>1, <1>2

LEMMA InboxQuiet ==
  ASSUME OnceInInbox, UNCHANGED inbox
  PROVE  OnceInInbox' /\ InboxTurns' = InboxTurns
BY DEF OnceInInbox, InboxTurns

-----------------------------------------------------------------------------
(* A promotion begins, goes on, or ends *)

(* Only the promotion of one fiber changes. *)
DrainOf(a, r) == drain' = [drain EXCEPT ![a] = r]

LEMMA DrainIs ==
  ASSUME TypeOK, NEW a \in Actor, NEW r, DrainOf(a, r)
  PROVE  drain'[a] = r /\ \A b \in Actor \ {a} : drain'[b] = drain[b]
BY DEF TypeOK, FibersType, DrainOf

LEMMA DrainEnters ==
  ASSUME TypeOK, PromotedOnce, NEW a \in Actor, drain[a] = NoDrain, NEW e, e.turn \notin PromotedTurns,
         DrainOf(a, [at |-> "reserve", entry |-> e])
  PROVE  PromotedOnce' /\ PromotedTurns' = PromotedTurns \cup {e.turn} /\ CommittedTurns' = CommittedTurns
<1>1. /\ drain'[a].at = "reserve" /\ drain'[a].entry = e
      /\ \A b \in Actor \ {a} : drain'[b] = drain[b]
  BY DrainIs
<1>2. drain[a].at = "no"
  BY DEF NoDrain
<1> QED
  BY <1>1, <1>2 DEF PromotedOnce, PromotedTurns, CommittedTurns, Undone

LEMMA DrainGoesOn ==
  ASSUME TypeOK, PromotedOnce, NEW a \in Actor, Undone(drain[a]), NEW r, DrainOf(a, r), Undone(r),
         r.entry = drain[a].entry
  PROVE  PromotedOnce' /\ PromotedTurns' = PromotedTurns /\ CommittedTurns' = CommittedTurns
<1>1. drain'[a] = r /\ \A b \in Actor \ {a} : drain'[b] = drain[b]
  BY DrainIs
<1>2. drain[a].at # "done" /\ drain'[a].at # "done"
  BY <1>1 DEF Undone
<1>3. \A b \in Actor : Undone(drain'[b]) <=> Undone(drain[b])
  BY <1>1
<1>4. \A b \in Actor : Undone(drain[b]) => drain'[b].entry = drain[b].entry
  BY <1>1
<1>5. \A b \in Actor : drain'[b].at = "done" <=> drain[b].at = "done"
  BY <1>1, <1>2
<1>6. \A b \in Actor : drain[b].at = "done" => drain'[b] = drain[b]
  BY <1>1, <1>2
<1>7. PromotedOnce'
  BY <1>3, <1>4 DEF PromotedOnce
<1>8. PromotedTurns' = PromotedTurns
  BY <1>3, <1>4 DEF PromotedTurns
<1>9. CommittedTurns' = CommittedTurns
  BY <1>5, <1>6 DEF CommittedTurns
<1> QED
  BY <1>7, <1>8, <1>9

LEMMA DrainLeaves ==
  ASSUME TypeOK, PromotedOnce, NEW a \in Actor, Undone(drain[a]), NEW r, DrainOf(a, r), ~Undone(r),
         r.at = "done" => r.entry = drain[a].entry
  PROVE  /\ PromotedOnce' /\ PromotedTurns' = PromotedTurns \ {drain[a].entry.turn}
         /\ drain[a].entry.turn \in PromotedTurns
         /\ CommittedTurns' = CommittedTurns \cup (IF r.at = "done" THEN {drain[a].entry.turn} ELSE {})
<1>1. drain'[a] = r /\ \A b \in Actor \ {a} : drain'[b] = drain[b]
  BY DrainIs
<1>2. drain[a].at # "done"
  BY DEF Undone
<1>3. \A b \in Actor : Undone(drain'[b]) => b # a /\ drain'[b] = drain[b]
  BY <1>1
<1>4. PromotedOnce'
  BY <1>3 DEF PromotedOnce
<1>5. ASSUME NEW t
      PROVE  t \in PromotedTurns' <=> t \in PromotedTurns /\ t # drain[a].entry.turn
  <2>1. ASSUME t \in PromotedTurns' PROVE t \in PromotedTurns /\ t # drain[a].entry.turn
    <3>1. PICK b \in Actor : Undone(drain'[b]) /\ t = drain'[b].entry.turn
      BY <2>1 DEF PromotedTurns
    <3>2. Undone(drain[b]) /\ t = drain[b].entry.turn /\ b # a
      BY <1>3, <3>1
    <3> QED
      BY <3>2 DEF PromotedTurns, PromotedOnce
  <2>2. ASSUME t \in PromotedTurns, t # drain[a].entry.turn PROVE t \in PromotedTurns'
    <3>1. PICK b \in Actor : Undone(drain[b]) /\ t = drain[b].entry.turn
      BY <2>2 DEF PromotedTurns
    <3>2. drain'[b] = drain[b]
      BY <1>1, <2>2, <3>1
    <3> QED
      BY <3>1, <3>2 DEF PromotedTurns
  <2> QED
    BY <2>1, <2>2
<1>6. drain[a].entry.turn \in PromotedTurns
  BY DEF PromotedTurns
<1>7. CommittedTurns' = CommittedTurns \cup (IF r.at = "done" THEN {drain[a].entry.turn} ELSE {})
  <2>1. CASE r.at = "done"
    BY <1>1, <1>2, <2>1 DEF CommittedTurns
  <2>2. CASE r.at # "done"
    BY <1>1, <1>2, <2>2 DEF CommittedTurns
  <2> QED
    BY <2>1, <2>2
<1> QED
  BY <1>4, <1>5, <1>6, <1>7

LEMMA DrainEnds ==
  ASSUME TypeOK, PromotedOnce, NEW a \in Actor, drain[a].at = "done", DrainOf(a, NoDrain)
  PROVE  /\ PromotedOnce' /\ PromotedTurns' = PromotedTurns
         /\ drain[a].entry.turn \in CommittedTurns
         /\ CommittedTurns' \subseteq CommittedTurns
         /\ CommittedTurns \subseteq CommittedTurns' \cup {drain[a].entry.turn}
<1>1. drain'[a] = NoDrain /\ \A b \in Actor \ {a} : drain'[b] = drain[b]
  BY DrainIs
<1>2. ~Undone(drain[a]) /\ ~Undone(drain'[a]) /\ drain'[a].at # "done"
  BY <1>1 DEF Undone, NoDrain
<1>3. \A b \in Actor : Undone(drain[b]) \/ Undone(drain'[b]) => drain'[b] = drain[b]
  BY <1>1, <1>2
<1>4. PromotedOnce'
  BY <1>3 DEF PromotedOnce
<1>5. PromotedTurns' = PromotedTurns
  BY <1>3 DEF PromotedTurns
<1>6. drain[a].entry.turn \in CommittedTurns
  BY DEF CommittedTurns
<1>7. CommittedTurns' \subseteq CommittedTurns
  BY <1>1, <1>2 DEF CommittedTurns
<1>8. CommittedTurns \subseteq CommittedTurns' \cup {drain[a].entry.turn}
  BY <1>1 DEF CommittedTurns
<1> QED
  BY <1>4, <1>5, <1>6, <1>7, <1>8

LEMMA DrainsUnmoved ==
  ASSUME PromotedOnce, UNCHANGED drain
  PROVE  PromotedOnce' /\ PromotedTurns' = PromotedTurns /\ CommittedTurns' = CommittedTurns
BY DEF PromotedOnce, PromotedTurns, CommittedTurns

-----------------------------------------------------------------------------
(* The handler and the provider *)

Carrying == {"look", "decide", "send", "report"}

LEMMA HandlerIs ==
  ASSUME TypeOK
  PROVE  /\ worker.at \in Carrying => worker.turn \in Turn /\ HandlerTurns = {worker.turn}
         /\ worker.at \notin Carrying => HandlerTurns = {}
<1>1. worker \in WorkerRow
  BY DEF TypeOK, FibersType
<1>2. worker.at \in Carrying => worker.turn \in Turn
  BY <1>1, RowKept DEF Carrying, Handling
<1> QED
  BY <1>2 DEF HandlerTurns, InHandler, Carrying

LEMMA HandlerNext ==
  /\ worker'.at \in Carrying /\ worker'.turn \in Turn => HandlerTurns' = {worker'.turn}
  /\ worker'.at \notin Carrying => HandlerTurns' = {}
BY DEF HandlerTurns, InHandler, Carrying

LEMMA GivenMore ==
  ASSUME TypeOK, NEW t \in Played, sent' = Append(sent, t)
  PROVE  GivenTurns' = GivenTurns \cup ({t} \cap Turn)
<1>0. sent \in Seq(Played)
  BY DEF TypeOK, HistoryType
<1> DEFINE n == Len(sent)
<1>1. /\ n \in Nat /\ DOMAIN sent = 1..n /\ DOMAIN sent' = 1..(n + 1)
      /\ sent'[n + 1] = t /\ \A i \in 1..n : sent'[i] = sent[i]
  BY <1>0
<1>2. n + 1 \in 1..(n + 1) /\ \A i \in 1..(n + 1) : i = n + 1 \/ i \in 1..n
  BY <1>1
<1>3. \A i \in 1..n : i \in 1..(n + 1)
  BY <1>1
<1> HIDE DEF n
<1>4. ASSUME NEW u \in Turn
      PROVE  (\E i \in DOMAIN sent' : sent'[i] = u) <=> (\E i \in DOMAIN sent : sent[i] = u) \/ u = t
  BY <1>1, <1>2, <1>3
<1> QED
  BY <1>4 DEF GivenTurns

(* How often a turn was given. *)
Times(s, t) == Cardinality({i \in DOMAIN s : s[i] = t})

LEMMA TimesMore ==
  ASSUME NEW s \in Seq(Played), NEW u \in Played, NEW t
  PROVE  /\ Times(s, t) \in Nat
         /\ Times(Append(s, u), t) = IF u = t THEN Times(s, t) + 1 ELSE Times(s, t)
<1> DEFINE n == Len(s)
           S == {i \in DOMAIN s : s[i] = t}
           T == {i \in DOMAIN Append(s, u) : Append(s, u)[i] = t}
<1>1. /\ n \in Nat /\ DOMAIN s = 1..n /\ DOMAIN Append(s, u) = 1..(n + 1)
      /\ Append(s, u)[n + 1] = u /\ \A i \in 1..n : Append(s, u)[i] = s[i]
  OBVIOUS
<1>2. IsFiniteSet(S)
  <2>1. IsFiniteSet(1..n)
    BY <1>1, FS_Interval
  <2>2. S \in SUBSET (1..n)
    BY <1>1
  <2> HIDE DEF S
  <2> QED
    BY <2>1, <2>2, FS_Subset
<1>3. Cardinality(S) \in Nat
  <2> HIDE DEF S
  <2> QED
    BY <1>2, FS_CardinalityType
<1>4. n + 1 \notin S
  BY <1>1
<1>5. T = IF u = t THEN S \cup {n + 1} ELSE S
  <2>1. CASE u = t
    BY <1>1, <2>1
  <2>2. CASE u # t
    BY <1>1, <2>2
  <2> QED
    BY <2>1, <2>2
<1>6. Cardinality(T) = IF u = t THEN Cardinality(S) + 1 ELSE Cardinality(S)
  <2> HIDE DEF S, T
  <2> QED
    BY <1>2, <1>3, <1>4, <1>5, FS_AddElement
<1> QED
  BY <1>3, <1>6 DEF Times

-----------------------------------------------------------------------------
(* No event is handled twice and no promotion abandoned, and only the worker
   stops the thread *)

(* A handler is not given up, no failed write is ignored, no event comes twice. *)
NothingSlips == Fault \cap {"timeout", "projection", "duplicate"} = {}

LEMMA NewAppended ==
  ASSUME TypeOK, NewEvents, NEW s \in Seq(Event), inbox' = inbox \o s,
         \A i \in DOMAIN s : IsTurn(s[i]) => ~s[i].again
  PROVE  NewEvents'
<1>1. inbox \in Seq(Event)
  BY DEF TypeOK, FibersType
<1>2. ASSUME NEW r, r = inbox \o s
      PROVE  \A j \in DOMAIN r :
               (\E i \in DOMAIN inbox : r[j] = inbox[i]) \/ (\E i \in DOMAIN s : r[j] = s[i])
  BY <1>1, <1>2, InboxGrows
<1>3. \A j \in DOMAIN inbox' :
        (\E i \in DOMAIN inbox : inbox'[j] = inbox[i]) \/ (\E i \in DOMAIN s : inbox'[j] = s[i])
  BY <1>2
<1> QED
  BY <1>3 DEF NewEvents

LEMMA NewPublished ==
  ASSUME TypeOK, NewEvents, NEW e \in Event, Publish(<<e>>), IsTurn(e) => ~e.again
  PROVE  NewEvents'
<1>1. <<e>> \in Seq(Event) /\ \A i \in DOMAIN <<e>> : IsTurn(<<e>>[i]) => ~<<e>>[i].again
  OBVIOUS
<1> QED
  BY <1>1, NewAppended DEF Publish

LEMMA NewTaken ==
  ASSUME TypeOK, NewEvents, NEW kinds, Takes(kinds)
  PROVE  NewEvents'
<1>1. inbox \in Seq(Event) /\ inbox # <<>> /\ inbox' = Tail(inbox)
  BY DEF TypeOK, FibersType, Takes
<1>2. ASSUME NEW r, r = Tail(inbox)
      PROVE  \A j \in DOMAIN r : \E i \in DOMAIN inbox : r[j] = inbox[i]
  BY <1>1, <1>2, InboxTail
<1>3. \A j \in DOMAIN inbox' : \E i \in DOMAIN inbox : inbox'[j] = inbox[i]
  BY <1>1, <1>2
<1> QED
  BY <1>3 DEF NewEvents

LEMMA NewUnmoved == NewEvents /\ UNCHANGED inbox => NewEvents'
BY DEF NewEvents

(* What is published first carries no mark. *)
LEMMA FirstTime ==
  /\ \A t, c : /\ ~StartOf(t, c).again /\ ~QueuedOf(t, c).again /\ ~PromotedOf(t, c).again
               /\ IsTurn(StartOf(t, c)) /\ IsTurn(QueuedOf(t, c)) /\ IsTurn(PromotedOf(t, c))
               /\ StartOf(t, c).turn = t /\ QueuedOf(t, c).turn = t /\ PromotedOf(t, c).turn = t
  /\ \A k \in {"interrupt", "stop", "goal"} : ~IsTurn([kind |-> k])
BY DEF StartOf, QueuedOf, PromotedOf, IsTurn, IsStart

(* A turn that is submitted publishes one event of the turn. *)
LEMMA SubmitPublishes ==
  ASSUME NEW t \in Turn, Submit(t)
  PROVE  \E e \in Event :
           /\ IsTurn(e) /\ e.turn = t /\ ~e.again
           /\ Publish(<<e>>) \/ \E f \in Event : ~IsTurn(f) /\ Publish(<<e>> \o <<f>>)
<1>1. PICK c \in Fresh(t) :
        Publish(IF projected = "running"
                THEN <<QueuedOf(t, c)>> \o (IF t \in Steer THEN <<[kind |-> "interrupt"]>> ELSE <<>>)
                ELSE <<StartOf(t, c)>>)
  BY DEF Submit
<1>2. /\ QueuedOf(t, c) \in Event /\ StartOf(t, c) \in Event /\ [kind |-> "interrupt"] \in Event
      /\ IsTurn(QueuedOf(t, c)) /\ IsTurn(StartOf(t, c)) /\ ~IsTurn([kind |-> "interrupt"])
      /\ QueuedOf(t, c).turn = t /\ StartOf(t, c).turn = t
      /\ ~QueuedOf(t, c).again /\ ~StartOf(t, c).again
  BY FreshClaims, Events, FirstTime
<1>3. CASE projected # "running"
  BY <1>1, <1>2, <1>3
<1>4. CASE projected = "running" /\ t \notin Steer
  <2>1. Publish(<<QueuedOf(t, c)>>)
    BY <1>1, <1>4
  <2> QED
    BY <1>2, <2>1
<1>5. CASE projected = "running" /\ t \in Steer
  <2>1. Publish(<<QueuedOf(t, c)>> \o <<[kind |-> "interrupt"]>>)
    BY <1>1, <1>5
  <2> QED
    BY <1>2, <2>1
<1> QED
  BY <1>3, <1>4, <1>5

LEMMA NewMoves ==
  ASSUME NothingSlips, TypeOK, Calm, [Next]_vars
  PROVE  NewEvents'
<1>0. NewEvents
  BY DEF Calm
<1>1. CASE Admission
  BY <1>0, <1>1, NewTaken, NewUnmoved DEF Admission, TakeStart, TakeQueued, Look, DecideToQueue,
     DecideToStart, Send, Sent, Report, WorkerDrains, WorkerDrained, Release, QueuedLook
<1>2. CASE Control
  BY <1>0, <1>2, NewTaken, NewUnmoved DEF Control, TakeInterrupt, Interrupt, TakeStop, BeginStop,
     AwaitDrained, Halt, EndStop
<1>3. CASE Continuation
  BY <1>0, <1>3, NewTaken, NewUnmoved DEF Continuation, TakeGoal, GoalLook, GoalDrains, GoalDrained,
     GoalCheck, GoalSend, GoalFailed
<1>4. ASSUME NEW a \in Actor, Promotion(a) PROVE NewEvents'
  <2>1. CASE Commit(a)
    <3>1. drain[a] \in DrainRow /\ drain[a].at = "offered"
      BY <2>1 DEF TypeOK, FibersType, Commit
    <3>2. PromotedOf(drain[a].entry.turn, drain[a].claim) \in Event
      BY <3>1, DrainRows, Events
    <3> QED
      BY <1>0, <2>1, <3>2, FirstTime, NewPublished DEF Commit
  <2>2. CASE ~Commit(a)
    BY <1>0, <1>4, <2>2, NewUnmoved DEF Promotion, Reserve, Reject, Promoted, NotPromoted
  <2> QED
    BY <2>1, <2>2
<1>5. CASE HearEnd \/ HearDeletion
  BY <1>0, <1>5, NewUnmoved DEF HearEnd, HearDeletion, fibers
<1>a. ASSUME NEW k \in {"stop", "goal"}, Publish(<<[kind |-> k]>>) PROVE NewEvents'
  BY <1>0, <1>a, Events, FirstTime, NewPublished
<1>6. CASE RetryGoal
  BY <1>0, <1>6, <1>a, NewUnmoved DEF RetryGoal
<1>7. CASE Environment
  <2>1. ASSUME NEW t \in Turn, Submit(t) PROVE NewEvents'
    <3>1. PICK e \in Event :
            /\ IsTurn(e) /\ e.turn = t /\ ~e.again
            /\ Publish(<<e>>) \/ \E f \in Event : ~IsTurn(f) /\ Publish(<<e>> \o <<f>>)
      BY <2>1, SubmitPublishes
    <3>2. CASE Publish(<<e>>)
      BY <1>0, <3>1, <3>2, NewPublished
    <3>3. ASSUME NEW f \in Event, ~IsTurn(f), Publish(<<e>> \o <<f>>) PROVE NewEvents'
      <4>1. \A x, y \in Event :
              /\ <<x>> \o <<y>> \in Seq(Event)
              /\ \A i \in DOMAIN (<<x>> \o <<y>>) : (<<x>> \o <<y>>)[i] \in {x, y}
        OBVIOUS
      <4> DEFINE s == <<e>> \o <<f>>
      <4>2. s \in Seq(Event) /\ \A i \in DOMAIN s : s[i] \in {e, f}
        BY <4>1
      <4>3. inbox' = inbox \o s
        BY <3>3 DEF Publish
      <4> HIDE DEF s
      <4> QED
        BY <1>0, <3>1, <3>3, <4>2, <4>3, NewAppended
    <3> QED
      BY <3>1, <3>2, <3>3
  <2>2. CASE AskStop \/ AskGoal
    BY <1>a, <2>2 DEF AskStop, AskGoal
  <2>3. ~Redeliver /\ ~Timeout
    BY DEF NothingSlips, Redeliver, Timeout, Happens
  <2>4. CASE \/ TurnEnds \/ Ingest \/ SwitchAway \/ SwitchBack \/ Expire \/ Delete \/ Teardown
    BY <1>0, <2>4, NewUnmoved DEF TurnEnds, Ingest, SwitchAway, SwitchBack, Expire, Delete, Teardown,
       fibers
  <2>5. ~CommitOrphan
    BY DEF Calm, CommitOrphan
  <2> QED
    BY <1>7, <2>1, <2>2, <2>3, <2>4, <2>5 DEF Environment
<1>8. CASE UNCHANGED vars
  BY <1>0, <1>8, NewUnmoved DEF vars, fibers
<1> QED
  BY <1>1, <1>2, <1>3, <1>4, <1>5, <1>6, <1>7, <1>8 DEF Next, Worker

(* Only a handler that is given up abandons its promotion. *)
LEMMA OrphansMove ==
  ASSUME NothingSlips, [Next]_vars
  PROVE  orphans' \subseteq orphans
<1>1. CASE Admission
  BY <1>1 DEF Admission, TakeStart, TakeQueued, Look, DecideToQueue, DecideToStart, Send, Sent, Report,
     WorkerDrains, WorkerDrained, Release, QueuedLook
<1>2. CASE Control
  BY <1>2 DEF Control, TakeInterrupt, Interrupt, TakeStop, BeginStop, AwaitDrained, Halt, EndStop
<1>3. CASE Continuation
  BY <1>3 DEF Continuation, TakeGoal, GoalLook, GoalDrains, GoalDrained, GoalCheck, GoalSend, GoalFailed
<1>4. CASE \E a \in Actor : Promotion(a)
  BY <1>4 DEF Promotion, Reserve, Commit, Reject, Promoted, NotPromoted
<1>5. CASE HearEnd \/ HearDeletion \/ RetryGoal
  BY <1>5 DEF HearEnd, HearDeletion, RetryGoal, fibers
<1>6. CASE Environment
  <2>1. ~Timeout
    BY DEF NothingSlips, Timeout, Happens
  <2> QED
    BY <1>6, <2>1 DEF Environment, Submit, TurnEnds, Ingest, AskStop, AskGoal, SwitchAway, SwitchBack,
       Expire, Delete, Teardown, Redeliver, CommitOrphan, fibers
<1>7. CASE UNCHANGED vars
  BY <1>7 DEF vars, fibers
<1> QED
  BY <1>1, <1>2, <1>3, <1>4, <1>5, <1>6, <1>7 DEF Next, Worker

LEMMA CalmStep ==
  ASSUME NothingSlips
  PROVE  TypeOK /\ Calm /\ [Next]_vars => Calm'
<1> SUFFICES ASSUME TypeOK, Calm, [Next]_vars PROVE Calm'
  OBVIOUS
<1>1. NewEvents' /\ orphans' \subseteq orphans
  BY NewMoves, OrphansMove
<1> QED
  BY <1>1 DEF Calm

(* A stop ends with its barrier. *)
LEMMA StopEnds ==
  ASSUME TypeOK, [Next]_vars, worker.at \in Stopping
  PROVE  worker'.at \in Stopping \/ EndStop
<1>0. worker \in WorkerRow
  BY DEF TypeOK, FibersType
<1>a. \A s : worker' = [worker EXCEPT !.at = s] => worker'.at = s
  BY <1>0, RowKept
<1> USE DEF Stopping
<1>1. ~Admission
  BY DEF Admission, TakeStart, TakeQueued, Look, DecideToQueue, DecideToStart, Send, Sent, Report,
     WorkerDrains, WorkerDrained, Release, QueuedLook, Takes, Idle
<1>2. CASE Control
  <2>1. ~TakeInterrupt /\ ~Interrupt /\ ~TakeStop /\ ~BeginStop
    BY DEF TakeInterrupt, Interrupt, TakeStop, BeginStop, Takes, Idle
  <2>2. CASE AwaitDrained
    BY <1>a, <2>2 DEF AwaitDrained, At
  <2>3. CASE Halt
    BY <1>a, <2>3 DEF Halt, At
  <2> QED
    BY <1>2, <2>1, <2>2, <2>3 DEF Control
<1>3. ~Continuation
  BY DEF Continuation, TakeGoal, GoalLook, GoalDrains, GoalDrained, GoalCheck, GoalSend, GoalFailed,
     Takes, Idle
<1>4. CASE \E a \in Actor : Promotion(a)
  BY <1>4 DEF Promotion, Reserve, Commit, Reject, Promoted, NotPromoted
<1>5. CASE HearEnd \/ HearDeletion \/ RetryGoal
  BY <1>5 DEF HearEnd, HearDeletion, RetryGoal, Parks, fibers
<1>6. CASE Environment
  <2>1. ~Timeout
    BY DEF Timeout
  <2> QED
    BY <1>6, <2>1 DEF Environment, Submit, TurnEnds, Ingest, AskStop, AskGoal, SwitchAway, SwitchBack,
       Expire, Delete, Teardown, Redeliver, CommitOrphan, fibers
<1>7. CASE UNCHANGED vars
  BY <1>7 DEF vars, fibers
<1> QED
  BY <1>1, <1>2, <1>3, <1>4, <1>5, <1>6, <1>7 DEF Next, Worker

LEMMA OneStopStep == TypeOK /\ OneStop /\ [Next]_vars => OneStop'
<1> SUFFICES ASSUME TypeOK, OneStop, [Next]_vars, gate' = "stopping" PROVE worker'.at \in Stopping
  BY DEF OneStop
<1>1. CASE gate = "stopping"
  <2>1. worker.at \in Stopping
    BY <1>1 DEF OneStop
  <2>2. ~EndStop
    BY <1>1 DEF EndStop
  <2> QED
    BY <2>1, <2>2, StopEnds
<1>2. CASE gate # "stopping"
  <2>1. BeginStop /\ gate = "ready"
    BY <1>2, GateMoves
  <2>2. worker' = [worker EXCEPT !.at = "await"] /\ worker \in WorkerRow
    BY <2>1 DEF BeginStop, At, TypeOK, FibersType
  <2>3. worker'.at = "await"
    BY <2>2, RowKept
  <2> QED
    BY <2>3 DEF Stopping
<1> QED
  BY <1>1, <1>2

-----------------------------------------------------------------------------
(* What a step does to the turns, and what that is in TurnDelivery *)

GivenAsBefore == GivenTurns' = GivenTurns /\ \A t \in Turn : Times(sent', t) = Times(sent, t)

(* No outcome changes, except that a deletion forgets turns. *)
Moving ==
  /\ UNCHANGED <<accepted, refused, dropped>> /\ GivenAsBefore
  /\ Unsettled' \subseteq Unsettled /\ (Unsettled' = Unsettled \/ Deleted)
  /\ CommittedTurns' \subseteq CommittedTurns \cup Unsettled
  /\ Deleted => Deleted'

Accepting(t) ==
  /\ t \in Turn \ accepted /\ accepted' = accepted \cup {t} /\ Unsettled' = Unsettled \cup {t}
  /\ UNCHANGED <<refused, dropped>> /\ GivenAsBefore
  /\ CommittedTurns' = CommittedTurns /\ (Deleted' <=> Deleted)

Giving(t) ==
  /\ t \in Unsettled /\ Unsettled' = Unsettled \ {t} /\ sent' = Append(sent, t)
  /\ UNCHANGED <<accepted, refused, dropped>>
  /\ CommittedTurns' = CommittedTurns /\ (Deleted' <=> Deleted)

Refusing(t) ==
  /\ t \in Unsettled /\ Unsettled' = Unsettled \ {t} /\ refused' = refused \cup {t}
  /\ UNCHANGED <<accepted, dropped>> /\ GivenAsBefore
  /\ CommittedTurns' = CommittedTurns /\ (Deleted' <=> Deleted)

Dropping(S) ==
  /\ S \subseteq Unsettled /\ Unsettled' = Unsettled \ S /\ dropped' = dropped \cup S
  /\ UNCHANGED <<accepted, refused>> /\ GivenAsBefore
  /\ CommittedTurns' = CommittedTurns /\ (Deleted' <=> Deleted)

Doing ==
  \/ Moving
  \/ \E t \in Turn : Accepting(t) \/ Giving(t) \/ Refusing(t)
  \/ \E S \in SUBSET Turn : Dropping(S)

LEMMA OwedStep ==
  ASSUME TypeOK, Owed, Doing
  PROVE  Owed'
<1>0. GivenTurns \subseteq Turn
  BY DEF GivenTurns
<1>1. CASE Moving
  BY <1>1 DEF Moving, GivenAsBefore, Owed, Settled
<1>2. ASSUME NEW t \in Turn, Accepting(t) PROVE Owed'
  BY <1>2 DEF Accepting, GivenAsBefore, Owed, Settled
<1>3. ASSUME NEW t \in Turn, Giving(t) PROVE Owed'
  <2>1. GivenTurns' = GivenTurns \cup {t}
    BY <1>3, GivenMore DEF Giving, Played
  <2> QED
    BY <1>3, <2>1 DEF Giving, Owed, Settled
<1>4. ASSUME NEW t \in Turn, Refusing(t) PROVE Owed'
  BY <1>4 DEF Refusing, GivenAsBefore, Owed, Settled
<1>5. ASSUME NEW S \in SUBSET Turn, Dropping(S) PROVE Owed'
  BY <1>5 DEF Dropping, GivenAsBefore, Owed, Settled
<1> QED
  BY <1>1, <1>2, <1>3, <1>4, <1>5 DEF Doing

(* What became of a turn, from where it is. *)
Stage(t) ==
  IF t \notin accepted THEN "new"
  ELSE IF t \in GivenTurns THEN "sent"
  ELSE IF t \in refused THEN "refused"
  ELSE IF t \in dropped THEN "dropped"
  ELSE IF t \in Unsettled \cup CommittedTurns THEN "waiting"
  ELSE "dropped"

Accounted == \A t \in Turn : Outcome(t) = Stage(t)

LEMMA OutcomeIs == TypeOK /\ Calm /\ Owed => Accounted
<1> SUFFICES ASSUME TypeOK, Calm, Owed, NEW t \in Turn PROVE Outcome(t) = Stage(t)
  BY DEF Accounted
<1>1. t \in Range(sent) <=> t \in GivenTurns
  BY DEF Range, GivenTurns
<1>2. Waits(t) <=> t \in Unsettled \cup CommittedTurns
  <2>1. (\E i \in DOMAIN inbox : IsTurn(inbox[i]) /\ inbox[i].turn = t) <=> t \in InboxTurns
    BY DEF InboxTurns
  <2>2. (\E a \in Drains : drain[a].entry.turn = t) <=> t \in PromotedTurns \cup CommittedTurns
    <3>1. \A a \in Actor : drain[a] # NoDrain <=> Undone(drain[a]) \/ drain[a].at = "done"
      BY DrainRows DEF TypeOK, FibersType, Undone
    <3> QED
      BY <3>1 DEF Drains, PromotedTurns, CommittedTurns
  <2>3. ~\E o \in orphans : o.turn = t
    BY DEF Calm
  <2>4. InHandler(t) <=> t \in HandlerTurns
    BY DEF HandlerTurns
  <2> QED
    BY <2>1, <2>2, <2>3, <2>4 DEF Waits, Unsettled
<1>3. t \in accepted => t \in Settled \cup Unsettled \/ Deleted
  BY DEF Owed
<1> QED
  BY <1>1, <1>2, <1>3 DEF Outcome, Stage, Settled

LEMMA StageStep ==
  ASSUME TypeOK, Owed, Doing
  PROVE  \/ \E t \in Turn :
              /\ \A u \in Turn : Stage(u)' = IF u = t THEN "waiting" ELSE Stage(u)
              /\ Stage(t) = "new"
              /\ \A u \in Turn : Times(sent', u) = Times(sent, u)
         \/ \E t \in Turn :
              /\ \A u \in Turn : Stage(u)' = IF u = t THEN "sent" ELSE Stage(u)
              /\ Stage(t) = "waiting"
              /\ \A u \in Turn : Times(sent', u) = IF u = t THEN Times(sent, u) + 1 ELSE Times(sent, u)
         \/ \E t \in Turn :
              /\ \A u \in Turn : Stage(u)' = IF u = t THEN "refused" ELSE Stage(u)
              /\ Stage(t) = "waiting"
              /\ \A u \in Turn : Times(sent', u) = Times(sent, u)
         \/ \E S \in SUBSET Turn :
              /\ \A u \in Turn : Stage(u)' = IF u \in S THEN "dropped" ELSE Stage(u)
              /\ \A u \in S : Stage(u) = "waiting"
              /\ \A u \in Turn : Times(sent', u) = Times(sent, u)
<1>0. GivenTurns \subseteq Turn
  BY DEF GivenTurns
<1>1. CASE Moving
  <2> DEFINE S == {u \in Turn : Stage(u) = "waiting" /\ u \notin (Unsettled' \cup CommittedTurns')}
  <2>1. \A u \in Turn : Stage(u)' = IF u \in S THEN "dropped" ELSE Stage(u)
    <3> TAKE u \in Turn
    <3>1. CASE u \in accepted /\ u \notin Settled
      <4>1. u \in Unsettled \/ Deleted
        BY <3>1 DEF Owed
      <4>2. Stage(u) = IF u \in Unsettled \cup CommittedTurns THEN "waiting" ELSE "dropped"
        BY <3>1 DEF Stage, Settled
      <4>3. Stage(u)' = IF u \in Unsettled' \cup CommittedTurns' THEN "waiting" ELSE "dropped"
        BY <1>1, <3>1 DEF Stage, Settled, Moving, GivenAsBefore
      <4> QED
        BY <1>1, <4>1, <4>2, <4>3 DEF Moving
    <3>2. CASE u \notin accepted \/ u \in Settled
      <4>1. Stage(u)' = Stage(u)
        BY <1>1, <3>2 DEF Stage, Settled, Moving, GivenAsBefore
      <4>2. Stage(u) # "waiting"
        BY <3>2 DEF Stage, Settled
      <4> QED
        BY <4>1, <4>2
    <3> QED
      BY <3>1, <3>2
  <2>2. S \in SUBSET Turn /\ \A u \in S : Stage(u) = "waiting"
    OBVIOUS
  <2>3. \A u \in Turn : Times(sent', u) = Times(sent, u)
    BY <1>1 DEF Moving, GivenAsBefore
  <2> HIDE DEF S
  <2> QED
    BY <2>1, <2>2, <2>3
<1>2. ASSUME NEW t \in Turn, Accepting(t)
      PROVE  /\ \A u \in Turn : Stage(u)' = IF u = t THEN "waiting" ELSE Stage(u)
             /\ Stage(t) = "new"
             /\ \A u \in Turn : Times(sent', u) = Times(sent, u)
  BY <1>2 DEF Accepting, GivenAsBefore, Stage, Owed, Settled
<1>3. ASSUME NEW t \in Turn, Giving(t)
      PROVE  /\ \A u \in Turn : Stage(u)' = IF u = t THEN "sent" ELSE Stage(u)
             /\ Stage(t) = "waiting"
             /\ \A u \in Turn : Times(sent', u) = IF u = t THEN Times(sent, u) + 1 ELSE Times(sent, u)
  <2>1. GivenTurns' = GivenTurns \cup {t}
    BY <1>3, GivenMore DEF Giving, Played
  <2>2. \A u \in Turn : Times(sent', u) = IF u = t THEN Times(sent, u) + 1 ELSE Times(sent, u)
    <3>1. sent \in Seq(Played) /\ t \in Played /\ sent' = Append(sent, t)
      BY <1>3 DEF TypeOK, HistoryType, Played, Giving
    <3> QED
      BY <3>1, TimesMore
  <2> QED
    BY <1>3, <2>1, <2>2 DEF Giving, Stage, Owed, Settled
<1>4. ASSUME NEW t \in Turn, Refusing(t)
      PROVE  /\ \A u \in Turn : Stage(u)' = IF u = t THEN "refused" ELSE Stage(u)
             /\ Stage(t) = "waiting"
             /\ \A u \in Turn : Times(sent', u) = Times(sent, u)
  BY <1>4 DEF Refusing, GivenAsBefore, Stage, Owed, Settled
<1>5. ASSUME NEW S \in SUBSET Turn, Dropping(S)
      PROVE  /\ \A u \in Turn : Stage(u)' = IF u \in S THEN "dropped" ELSE Stage(u)
             /\ \A u \in S : Stage(u) = "waiting"
             /\ \A u \in Turn : Times(sent', u) = Times(sent, u)
  BY <1>5 DEF Dropping, GivenAsBefore, Stage, Owed, Settled
<1> QED
  BY <1>1, <1>2, <1>3, <1>4, <1>5 DEF Doing

LEMMA DoingIsDelivery ==
  ASSUME TypeOK, Owed, Doing, Accounted, Accounted'
  PROVE  [Delivery!Next]_(Delivery!vars)
<1>1. \A u \in Turn : Outcome(u) = Stage(u)
  BY DEF Accounted
<1>2. \A u \in Turn : Outcome(u)' = Stage(u)'
  BY DEF Accounted
<1>3. \A from, to : \A S \in SUBSET Turn :
        /\ \A u \in Turn : Stage(u)' = IF u \in S THEN to ELSE Stage(u)
        /\ \A u \in S : Stage(u) = from
        => Delivery!Move(S, from, to)
  BY <1>1, <1>2 DEF Delivery!Move
<1>4. ASSUME \A u \in Turn : Times(sent', u) = Times(sent, u)
      PROVE  [u \in Turn |-> Cardinality({i \in DOMAIN sent' : sent'[i] = u})]
               = [u \in Turn |-> Cardinality({i \in DOMAIN sent : sent[i] = u})]
  BY <1>4 DEF Times
<1>5. ASSUME NEW t \in Turn,
             \A u \in Turn : Times(sent', u) = IF u = t THEN Times(sent, u) + 1 ELSE Times(sent, u)
      PROVE  [u \in Turn |-> Cardinality({i \in DOMAIN sent' : sent'[i] = u})]
               = [[u \in Turn |-> Cardinality({i \in DOMAIN sent : sent[i] = u})]
                    EXCEPT ![t] = @ + 1]
  BY <1>5 DEF Times
<1>6. ASSUME NEW t \in Turn,
             \A u \in Turn : Stage(u)' = IF u = t THEN "waiting" ELSE Stage(u),
             Stage(t) = "new", \A u \in Turn : Times(sent', u) = Times(sent, u)
      PROVE  Delivery!Accept(t)
  <2>1. Delivery!Move({t}, "new", "waiting")
    BY <1>3, <1>6
  <2> QED
    BY <1>4, <1>6, <2>1 DEF Delivery!Accept
<1>7. ASSUME NEW t \in Turn,
             \A u \in Turn : Stage(u)' = IF u = t THEN "sent" ELSE Stage(u),
             Stage(t) = "waiting",
             \A u \in Turn : Times(sent', u) = IF u = t THEN Times(sent, u) + 1 ELSE Times(sent, u)
      PROVE  Delivery!Deliver(t)
  <2>1. Delivery!Move({t}, "waiting", "sent")
    BY <1>3, <1>7
  <2> QED
    BY <1>5, <1>7, <2>1 DEF Delivery!Deliver
<1>8. ASSUME NEW t \in Turn,
             \A u \in Turn : Stage(u)' = IF u = t THEN "refused" ELSE Stage(u),
             Stage(t) = "waiting", \A u \in Turn : Times(sent', u) = Times(sent, u)
      PROVE  Delivery!Refuse(t)
  <2>1. Delivery!Move({t}, "waiting", "refused")
    BY <1>3, <1>8
  <2> QED
    BY <1>4, <1>8, <2>1 DEF Delivery!Refuse
<1>9. ASSUME NEW S \in SUBSET Turn,
             \A u \in Turn : Stage(u)' = IF u \in S THEN "dropped" ELSE Stage(u),
             \A u \in S : Stage(u) = "waiting", \A u \in Turn : Times(sent', u) = Times(sent, u)
      PROVE  Delivery!Drop(S)
  <2>1. Delivery!Move(S, "waiting", "dropped")
    BY <1>3, <1>9
  <2> QED
    BY <1>4, <1>9, <2>1 DEF Delivery!Drop
<1> QED
  BY StageStep, <1>6, <1>7, <1>8, <1>9 DEF Delivery!Next

-----------------------------------------------------------------------------
(* A turn goes from one place to another *)

Tracked == Once' /\ Apart' /\ Doing

SameHistory ==
  UNCHANGED <<accepted, refused, dropped>> /\ GivenAsBefore /\ (Deleted => Deleted')

LEMMA SameSent == UNCHANGED sent => GivenAsBefore
BY DEF GivenAsBefore, GivenTurns

(* The continuation of a goal is no turn of a user. *)
LEMMA GoalSent ==
  ASSUME TypeOK, sent' = Append(sent, Goal)
  PROVE  GivenAsBefore
<1>1. sent \in Seq(Played) /\ Goal \in Played /\ Goal \notin Turn
  BY TurnAssumption DEF TypeOK, HistoryType, Played
<1>2. GivenTurns' = GivenTurns
  BY <1>1, GivenMore
<1>3. ASSUME NEW t \in Turn PROVE Times(sent', t) = Times(sent, t)
  BY <1>1, TimesMore
<1> QED
  BY <1>2, <1>3 DEF GivenAsBefore

LEMMA Stays ==
  ASSUME Apart, Once', SameHistory,
         QueuedTurns' = QueuedTurns, InboxTurns' = InboxTurns, PromotedTurns' = PromotedTurns,
         HandlerTurns' = HandlerTurns, CommittedTurns' \subseteq CommittedTurns \cup Unsettled
  PROVE  Tracked
BY DEF Tracked, Apart, Doing, Moving, Unsettled, SameHistory

LEMMA Passes ==
  ASSUME Apart, Once', SameHistory, NEW t, t \in Unsettled,
         CommittedTurns' \subseteq CommittedTurns \cup Unsettled,
         \/ /\ InboxTurns' = InboxTurns \ {t} /\ HandlerTurns' = {t}
            /\ t \in InboxTurns /\ HandlerTurns = {}
            /\ QueuedTurns' = QueuedTurns /\ PromotedTurns' = PromotedTurns
         \/ /\ InboxTurns' = InboxTurns \ {t} /\ QueuedTurns' = QueuedTurns \cup {t}
            /\ t \in InboxTurns
            /\ HandlerTurns' = HandlerTurns /\ PromotedTurns' = PromotedTurns
         \/ /\ HandlerTurns' = {} /\ QueuedTurns' = QueuedTurns \cup {t}
            /\ HandlerTurns = {t}
            /\ InboxTurns' = InboxTurns /\ PromotedTurns' = PromotedTurns
         \/ /\ QueuedTurns' = QueuedTurns \ {t} /\ PromotedTurns' = PromotedTurns \cup {t}
            /\ t \in QueuedTurns
            /\ InboxTurns' = InboxTurns /\ HandlerTurns' = HandlerTurns
         \/ /\ PromotedTurns' = PromotedTurns \ {t} /\ QueuedTurns' = QueuedTurns \cup {t}
            /\ t \in PromotedTurns
            /\ InboxTurns' = InboxTurns /\ HandlerTurns' = HandlerTurns
         \/ /\ PromotedTurns' = PromotedTurns \ {t} /\ InboxTurns' = InboxTurns \cup {t}
            /\ t \in PromotedTurns
            /\ QueuedTurns' = QueuedTurns /\ HandlerTurns' = HandlerTurns
  PROVE  Tracked
<1>1. Apart'
  BY DEF Apart
<1>2. Unsettled' = Unsettled
  BY DEF Unsettled
<1> QED
  BY <1>1, <1>2 DEF Tracked, Doing, Moving, SameHistory

(* The handler lets go of a turn whose thread is deleted. *)
LEMMA Forgets ==
  ASSUME Apart, Once', SameHistory, Deleted,
         QueuedTurns' = QueuedTurns, InboxTurns' = InboxTurns, PromotedTurns' = PromotedTurns,
         HandlerTurns' \subseteq HandlerTurns, CommittedTurns' = CommittedTurns
  PROVE  Tracked
BY DEF Tracked, Apart, Doing, Moving, Unsettled, SameHistory

(* A turn is taken from the inbox or is in the handler, and then nowhere. *)
LEMMA Departs ==
  ASSUME Apart, NEW t, PromotedTurns' = PromotedTurns, QueuedTurns' = QueuedTurns,
         \/ /\ InboxTurns' = InboxTurns \ {t} /\ t \in InboxTurns /\ HandlerTurns' = HandlerTurns
         \/ /\ HandlerTurns = {t} /\ HandlerTurns' = {} /\ InboxTurns' = InboxTurns
  PROVE  Apart' /\ t \in Unsettled /\ Unsettled' = Unsettled \ {t}
BY DEF Apart, Unsettled

LEMMA IsRefused ==
  ASSUME Apart, Once', NEW t \in Turn, PromotedTurns' = PromotedTurns, QueuedTurns' = QueuedTurns,
         \/ /\ InboxTurns' = InboxTurns \ {t} /\ t \in InboxTurns /\ HandlerTurns' = HandlerTurns
         \/ /\ HandlerTurns = {t} /\ HandlerTurns' = {} /\ InboxTurns' = InboxTurns,
         refused' = refused \cup {t}, UNCHANGED <<accepted, dropped, sent>>,
         CommittedTurns' = CommittedTurns, Deleted' <=> Deleted
  PROVE  Tracked
<1>1. Apart' /\ t \in Unsettled /\ Unsettled' = Unsettled \ {t}
  BY Departs
<1> QED
  BY <1>1, SameSent DEF Tracked, Doing, Refusing

LEMMA Clears ==
  ASSUME TypeOK, Apart, Once, UNCHANGED <<accepted, refused, sent, drain>>, ClearThread,
         OnceInInbox', InboxTurns' = InboxTurns, HandlerTurns' = HandlerTurns, Deleted' <=> Deleted
  PROVE  Tracked
<1>1. OnceInQueue' /\ QueuedTurns' = {}
  BY QueueEmptied DEF ClearThread
<1>2. PromotedOnce' /\ PromotedTurns' = PromotedTurns /\ CommittedTurns' = CommittedTurns
  BY DrainsUnmoved DEF Once
<1>3. QueuedTurns \in SUBSET Turn
  <2>1. queue \in Seq(Entry)
    BY DEF TypeOK, TurnsType
  <2>2. \A i \in DOMAIN queue : queue[i] \in Entry
    BY <2>1
  <2> QED
    BY <2>2 DEF QueuedTurns, Entry
<1>4. Apart' /\ QueuedTurns \subseteq Unsettled /\ Unsettled' = Unsettled \ QueuedTurns
  BY <1>1, <1>2 DEF Apart, Unsettled
<1>5. Dropping(QueuedTurns)
  BY <1>2, <1>4, SameSent DEF Dropping, ClearThread
<1> QED
  BY <1>1, <1>2, <1>3, <1>4, <1>5 DEF Tracked, Doing, Once

(* A step that leaves the turns where they are. *)
LEMMA NothingMoves ==
  ASSUME Once, Apart, UNCHANGED <<accepted, queue, drain, refused, dropped>>, GivenAsBefore,
         OnceInInbox', InboxTurns' = InboxTurns, HandlerTurns' = HandlerTurns, Deleted => Deleted'
  PROVE  Tracked
<1>1. OnceInQueue' /\ QueuedTurns' = QueuedTurns
  BY QueueUnmoved DEF Once
<1>2. PromotedOnce' /\ PromotedTurns' = PromotedTurns /\ CommittedTurns' = CommittedTurns
  BY DrainsUnmoved DEF Once
<1> QED
  BY <1>1, <1>2, Stays DEF Once, SameHistory

(* The first turn of the queue is promoted. *)
LEMMA DrainTracked ==
  ASSUME TypeOK, Once, Apart, NEW a \in Actor, BeginDrain(a), drain[a] = NoDrain,
         UNCHANGED <<inbox, refused, dropped, sent>>, HandlerTurns' = HandlerTurns, Deleted => Deleted'
  PROVE  Tracked
<1> DEFINE e == Head(queue)
<1>1. /\ queue # <<>> /\ queue' = Tail(queue) /\ UNCHANGED accepted
      /\ DrainOf(a, [at |-> "reserve", entry |-> e])
  BY DEF BeginDrain, DrainOf
<1>2. OnceInQueue' /\ QueuedTurns' = QueuedTurns \ {e.turn} /\ e.turn \in QueuedTurns
  BY <1>1, QueueOut DEF Once
<1>3. e.turn \notin PromotedTurns
  BY <1>2 DEF Apart
<1>4. /\ PromotedOnce' /\ PromotedTurns' = PromotedTurns \cup {e.turn}
      /\ CommittedTurns' = CommittedTurns
  BY <1>1, <1>3, DrainEnters DEF Once
<1>5. OnceInInbox' /\ InboxTurns' = InboxTurns
  BY InboxQuiet DEF Once
<1>6. e.turn \in Unsettled /\ Once' /\ SameHistory
  BY <1>1, <1>2, <1>4, <1>5, SameSent DEF Once, Unsettled, SameHistory
<1> HIDE DEF e
<1> QED
  BY <1>2, <1>4, <1>5, <1>6, Passes

(* Events that are no turns come and go. *)
LEMMA TakesNoTurn ==
  ASSUME TypeOK, Once, NEW kinds, Takes(kinds), kinds \cap {"start", "promoted", "queued"} = {}
  PROVE  OnceInInbox' /\ InboxTurns' = InboxTurns
<1>1. ~IsTurn(Head(inbox))
  BY DEF Takes, IsTurn, IsStart
<1> QED
  BY <1>1, InboxOut DEF Once

LEMMA PublishesNoTurn ==
  ASSUME TypeOK, Once, NEW k \in {"interrupt", "stop", "goal"}, Publish(<<[kind |-> k]>>)
  PROVE  OnceInInbox' /\ InboxTurns' = InboxTurns
<1>1. [kind |-> k] \in Event /\ ~IsTurn([kind |-> k])
  BY Events, FirstTime
<1> QED
  BY <1>1, InboxPublishes DEF Once

LEMMA TakesTurn ==
  ASSUME TypeOK, Once, NEW kinds, Takes(kinds), kinds \subseteq {"start", "promoted", "queued"}
  PROVE  /\ IsTurn(Head(inbox)) /\ Head(inbox) \in Event /\ Head(inbox).turn \in Turn
         /\ OnceInInbox' /\ InboxTurns' = InboxTurns \ {Head(inbox).turn}
         /\ Head(inbox).turn \in InboxTurns
<1>1. IsTurn(Head(inbox)) /\ Head(inbox) \in Event
  BY Taken DEF IsTurn, IsStart
<1> QED
  BY <1>1, Events, InboxOut DEF Once

-----------------------------------------------------------------------------
(* What each step does to the turns *)

(* What is known about the thread when a turn is to start. *)
Known == TypeOK /\ WaitInv /\ ClaimInv /\ GateInv /\ Calm /\ OneStop /\ DeliveryInv

LEMMA HandlerStays ==
  ASSUME TypeOK, worker'.at \in Carrying <=> worker.at \in Carrying,
         worker.at \in Carrying => worker'.turn = worker.turn
  PROVE  HandlerTurns' = HandlerTurns
BY HandlerIs, HandlerNext

LEMMA DeletedStays == UNCHANGED authority => (Deleted' <=> Deleted)
BY DEF authority, Deleted

(* A start that may not go on belongs to a deleted thread: the claim of the
   handler keeps the others away. *)
LEMMA StartsOrDeleted ==
  ASSUME Known, worker.at = "decide", gate # "ready"
  PROVE  Deleted
<1>1. worker \in WorkerRow
  BY DEF Known, TypeOK, FibersType
<1>2. worker.claim \in ClaimId
  BY <1>1, RowKept
<1>3. Handles(worker, worker.claim) = 1
  BY DEF Handles, Handling
<1>4. Claimed(worker.claim)
  <2>1. /\ holders[worker.claim] = Uses(worker.claim)
        /\ Cardinality(Places(queue, worker.claim)) \in Nat
    BY <1>2, ClaimCounts DEF Known, ClaimInv
  <2>2. Promoting(drain, worker.claim) \in Nat
    BY PromotingNat
  <2> QED
    BY <1>3, <2>1, <2>2 DEF Uses, Claimed
<1>5. gate # "away"
  BY <1>2, <1>4 DEF Known, GateInv
<1>6. gate # "stopping"
  BY DEF Known, OneStop, Stopping
<1>7. gate \in {"ready", "stopping", "away", "deleting"}
  BY DEF Known, TypeOK, AuthorityType
<1> QED
  BY <1>5, <1>6, <1>7 DEF Known, GateInv

LEMMA StartTracked ==
  ASSUME NothingSlips, Known, TakeStart \/ Look \/ DecideToQueue \/ DecideToStart \/ Send \/ Report
  PROVE  Tracked
<1>0. /\ TypeOK /\ Once /\ Apart /\ worker \in WorkerRow
      /\ inbox \in Seq(Event)
  BY DEF Known, DeliveryInv, TypeOK, FibersType
<1>a. \A s : worker' = [worker EXCEPT !.at = s] =>
        /\ worker'.at = s
        /\ worker.at \in Carrying => worker'.turn = worker.turn /\ worker.turn \in Turn
  BY <1>0, RowKept DEF Carrying, Handling
<1>b. UNCHANGED inbox => OnceInInbox' /\ InboxTurns' = InboxTurns
  BY <1>0, InboxQuiet DEF Once
<1>c. UNCHANGED queue => OnceInQueue' /\ QueuedTurns' = QueuedTurns
  BY <1>0, QueueUnmoved DEF Once
<1>d. UNCHANGED drain => /\ PromotedOnce' /\ PromotedTurns' = PromotedTurns
                         /\ CommittedTurns' = CommittedTurns
  BY <1>0, DrainsUnmoved DEF Once
<1> DEFINE t == worker.turn
<1>1. CASE TakeStart
  <2> DEFINE e == Head(inbox)
  <2>1. /\ IsTurn(e) /\ e \in Event /\ e.turn \in Turn /\ OnceInInbox'
        /\ InboxTurns' = InboxTurns \ {e.turn} /\ e.turn \in InboxTurns
    BY <1>0, <1>1, TakesTurn DEF TakeStart
  <2>2. ~e.again
    <3>1. inbox # <<>>
      BY <1>1 DEF TakeStart, Takes
    <3>2. 1 \in DOMAIN inbox /\ inbox[1] = e
      BY <1>0, <3>1
    <3> HIDE DEF e
    <3> QED
      BY <2>1, <3>2 DEF Known, Calm, NewEvents
  <2>3. worker.at = "idle" /\ HandlerTurns = {}
    BY <1>0, <1>1, HandlerIs DEF TakeStart, Takes, Idle, Carrying
  <2>4. /\ UNCHANGED <<accepted, queue, drain, dropped, sent>> /\ (Deleted' <=> Deleted)
        /\ \/ worker' = [at |-> "look", turn |-> e.turn, claim |-> e.claim] /\ UNCHANGED refused
           \/ worker' = worker /\ refused' = refused \cup {e.turn}
    BY <1>1, <2>2 DEF TakeStart, Becomes, NotClaimed, Deleted
  <2> HIDE DEF e
  <2>5. Once' /\ e.turn \in Unsettled
    BY <1>c, <1>d, <2>1, <2>4 DEF Once, Unsettled
  <2>6. CASE worker' = [at |-> "look", turn |-> e.turn, claim |-> e.claim] /\ UNCHANGED refused
    <3>1. HandlerTurns' = {e.turn}
      BY <2>1, <2>6, HandlerNext DEF Carrying
    <3>2. SameHistory
      BY <2>4, <2>6, SameSent DEF SameHistory
    <3> QED
      BY <1>0, <1>c, <1>d, <2>1, <2>3, <2>4, <2>5, <3>1, <3>2, Passes
  <2>7. CASE worker' = worker /\ refused' = refused \cup {e.turn}
    <3>1. HandlerTurns' = HandlerTurns
      BY <1>0, <2>7, HandlerStays
    <3> QED
      BY <1>0, <1>c, <1>d, <2>1, <2>3, <2>4, <2>5, <2>7, <3>1, IsRefused
  <2> QED
    BY <2>4, <2>6, <2>7
<1>2. CASE Look
  <2>1. /\ UNCHANGED <<accepted, queue, inbox, drain, refused, dropped, sent>> /\ (Deleted' <=> Deleted)
        /\ worker.at = "look"
        /\ \/ Deleted /\ worker' = [worker EXCEPT !.at = "release"]
           \/ \E b : worker' = [at |-> "decide", turn |-> t, claim |-> worker.claim, seen |-> b]
    BY <1>2, DeletedStays DEF Look, turns, history, At, Becomes
  <2>2. CASE Deleted /\ worker' = [worker EXCEPT !.at = "release"]
    <3>1. HandlerTurns' = {}
      BY <1>a, <2>2, HandlerNext DEF Carrying
    <3>2. Once' /\ SameHistory
      BY <1>b, <1>c, <1>d, <2>1, SameSent DEF Once, SameHistory
    <3> QED
      BY <1>0, <1>b, <1>c, <1>d, <2>1, <2>2, <3>1, <3>2, Forgets
  <2>3. CASE \E b : worker' = [at |-> "decide", turn |-> t, claim |-> worker.claim, seen |-> b]
    <3>1. worker'.at = "decide" /\ worker'.turn = t
      BY <2>3
    <3>2. HandlerTurns' = HandlerTurns
      BY <1>0, <2>1, <3>1, HandlerStays DEF Carrying
    <3> QED
      BY <1>0, <1>b, <2>1, <3>2, SameSent, NothingMoves
  <2> QED
    BY <2>1, <2>2, <2>3
<1>3. CASE DecideToQueue
  <2> DEFINE entry == [turn |-> t, claim |-> worker.claim]
  <2>1. /\ UNCHANGED <<accepted, inbox, drain, refused, dropped, sent>> /\ (Deleted' <=> Deleted)
        /\ worker.at = "decide" /\ queue' = Enqueued(entry) /\ worker'.at \in {"steer", "idle"}
    BY <1>3, DeletedStays DEF DecideToQueue, history, Becomes, IdleWorker
  <2>2. t \in Turn /\ HandlerTurns = {t} /\ entry \in Entry /\ entry.turn = t
    BY <1>0, <2>1, HandlerIs, RowKept DEF Carrying, Entry
  <2>3. t \notin QueuedTurns /\ t \in Unsettled
    BY <1>0, <2>2 DEF Apart, Unsettled
  <2> HIDE DEF entry
  <2>4. OnceInQueue' /\ QueuedTurns' = QueuedTurns \cup {t}
    BY <1>0, <2>1, <2>2, <2>3, QueueIn DEF Once
  <2>5. HandlerTurns' = {}
    BY <2>1, HandlerNext DEF Carrying
  <2>6. Once' /\ SameHistory
    BY <1>b, <1>d, <2>1, <2>4, SameSent DEF Once, SameHistory
  <2> QED
    BY <1>0, <1>b, <1>d, <2>1, <2>2, <2>3, <2>4, <2>5, <2>6, Passes
<1>4. CASE DecideToStart
  <2>1. /\ UNCHANGED <<accepted, queue, inbox, drain, refused, dropped, sent>> /\ (Deleted' <=> Deleted)
        /\ worker.at = "decide"
        /\ \/ worker' = [worker EXCEPT !.at = "send"]
           \/ gate # "ready" /\ worker' = [worker EXCEPT !.at = "release"]
    <3>1. ~Happens("projection")
      BY DEF NothingSlips, Happens
    <3> QED
      BY <1>4, <3>1, DeletedStays DEF DecideToStart, turns, history, At
  <2>2. CASE worker' = [worker EXCEPT !.at = "send"]
    <3>1. HandlerTurns' = HandlerTurns
      BY <1>0, <1>a, <2>1, <2>2, HandlerStays DEF Carrying
    <3> QED
      BY <1>0, <1>b, <2>1, <3>1, SameSent, NothingMoves
  <2>3. CASE gate # "ready" /\ worker' = [worker EXCEPT !.at = "release"]
    <3>1. HandlerTurns' = {} /\ Deleted
      BY <1>a, <2>1, <2>3, HandlerNext, StartsOrDeleted DEF Carrying
    <3>2. Once' /\ SameHistory
      BY <1>b, <1>c, <1>d, <2>1, SameSent DEF Once, SameHistory
    <3> QED
      BY <1>0, <1>b, <1>c, <1>d, <2>1, <3>1, <3>2, Forgets
  <2> QED
    BY <2>1, <2>2, <2>3
<1>5. CASE Send
  <2>1. /\ UNCHANGED <<accepted, queue, inbox, drain, refused, dropped>> /\ (Deleted' <=> Deleted)
        /\ worker.at = "send"
        /\ \/ worker'.at = "sending" /\ sent' = Append(sent, t)
           \/ worker' = [worker EXCEPT !.at = "report"] /\ UNCHANGED sent
    BY <1>5, DeletedStays DEF Send, Accepts, turns, At, Becomes
  <2>2. t \in Turn /\ HandlerTurns = {t}
    BY <1>0, <2>1, HandlerIs DEF Carrying
  <2>3. CASE worker'.at = "sending" /\ sent' = Append(sent, t)
    <3>1. HandlerTurns' = {}
      BY <2>3, HandlerNext DEF Carrying
    <3>2. Apart' /\ t \in Unsettled /\ Unsettled' = Unsettled \ {t}
      BY <1>0, <1>b, <1>c, <1>d, <2>1, <2>2, <3>1, Departs
    <3>3. Once'
      BY <1>b, <1>c, <1>d, <2>1 DEF Once
    <3>4. Giving(t)
      BY <1>d, <2>1, <2>3, <3>2 DEF Giving
    <3> QED
      BY <2>2, <3>2, <3>3, <3>4 DEF Tracked, Doing
  <2>4. CASE worker' = [worker EXCEPT !.at = "report"] /\ UNCHANGED sent
    <3>1. HandlerTurns' = HandlerTurns
      BY <1>0, <1>a, <2>1, <2>4, HandlerStays DEF Carrying
    <3> QED
      BY <1>0, <1>b, <2>1, <2>4, <3>1, SameSent, NothingMoves
  <2> QED
    BY <2>1, <2>3, <2>4
<1>6. CASE Report
  <2>1. /\ UNCHANGED <<accepted, queue, inbox, drain, dropped, sent>> /\ (Deleted' <=> Deleted)
        /\ worker.at = "report" /\ worker' = [worker EXCEPT !.at = "drain"]
        /\ refused' = refused \cup {t}
    BY <1>6, DeletedStays DEF Report, turns, At
  <2>2. t \in Turn /\ HandlerTurns = {t} /\ HandlerTurns' = {}
    BY <1>0, <1>a, <2>1, HandlerIs, HandlerNext DEF Carrying
  <2>3. Once'
    BY <1>b, <1>c, <1>d, <2>1 DEF Once
  <2> QED
    BY <1>0, <1>b, <1>c, <1>d, <2>1, <2>2, <2>3, IsRefused
<1> QED
  BY <1>1, <1>2, <1>3, <1>4, <1>5, <1>6

LEMMA QueuedTracked ==
  ASSUME Known, TakeQueued
  PROVE  Tracked
<1> DEFINE e == Head(inbox)
           entry == [turn |-> e.turn, claim |-> e.claim]
<1>0. TypeOK /\ Once /\ Apart
  BY DEF Known, DeliveryInv
<1>1. /\ IsTurn(e) /\ e \in Event /\ e.turn \in Turn /\ OnceInInbox'
      /\ InboxTurns' = InboxTurns \ {e.turn} /\ e.turn \in InboxTurns
  BY <1>0, TakesTurn DEF TakeQueued
<1>2. entry \in Entry /\ entry.turn = e.turn
  BY <1>1, Events
<1>3. /\ UNCHANGED <<accepted, drain, dropped, sent>> /\ (Deleted' <=> Deleted) /\ worker.at = "idle"
      /\ \/ worker'.at = "queued" /\ UNCHANGED refused /\ queue' = Enqueued(entry)
         \/ worker' = worker /\ refused' = refused \cup {e.turn} /\ UNCHANGED queue
  BY DEF TakeQueued, Takes, Idle, Becomes, NotClaimed, Deleted
<1> HIDE DEF e, entry
<1>4. HandlerTurns' = HandlerTurns /\ HandlerTurns = {}
  BY <1>0, <1>3, HandlerStays, HandlerIs DEF Carrying
<1>5. PromotedOnce' /\ PromotedTurns' = PromotedTurns /\ CommittedTurns' = CommittedTurns
  BY <1>0, <1>3, DrainsUnmoved DEF Once
<1>6. e.turn \in Unsettled /\ e.turn \notin QueuedTurns
  BY <1>0, <1>1 DEF Unsettled, Apart
<1>7. CASE UNCHANGED refused /\ queue' = Enqueued(entry)
  <2>1. OnceInQueue' /\ QueuedTurns' = QueuedTurns \cup {e.turn}
    BY <1>0, <1>2, <1>6, <1>7, QueueIn DEF Once
  <2>2. Once' /\ SameHistory
    BY <1>1, <1>3, <1>5, <1>7, <2>1, SameSent DEF Once, SameHistory
  <2> QED
    BY <1>0, <1>1, <1>4, <1>5, <1>6, <2>1, <2>2, Passes
<1>8. CASE refused' = refused \cup {e.turn} /\ UNCHANGED queue
  <2>1. OnceInQueue' /\ QueuedTurns' = QueuedTurns
    BY <1>0, <1>8, QueueUnmoved DEF Once
  <2>2. Once'
    BY <1>1, <1>5, <2>1 DEF Once
  <2> QED
    BY <1>0, <1>1, <1>3, <1>4, <1>5, <1>8, <2>1, <2>2, IsRefused
<1> QED
  BY <1>3, <1>7, <1>8

(* The worker works on no turn of its own, or goes on with one it has given. *)
LEMMA WorkerTracked ==
  ASSUME Known,
         \/ Sent \/ WorkerDrains \/ WorkerDrained \/ Release \/ QueuedLook
         \/ Control \/ Continuation
  PROVE  Tracked
<1>0. TypeOK /\ Once /\ Apart /\ worker \in WorkerRow /\ WaitInv
  BY DEF Known, DeliveryInv, TypeOK, FibersType
<1>a. \A s : worker' = [worker EXCEPT !.at = s] => worker'.at = s
  BY <1>0, RowKept
<1>b. UNCHANGED inbox => OnceInInbox' /\ InboxTurns' = InboxTurns
  BY <1>0, InboxQuiet DEF Once
<1>c. worker.at \notin Carrying /\ worker'.at \notin Carrying => HandlerTurns' = HandlerTurns
  BY <1>0, HandlerStays
<1>d. ASSUME UNCHANGED <<accepted, queue, drain, refused, dropped>>, GivenAsBefore,
             OnceInInbox', InboxTurns' = InboxTurns,
             worker.at \notin Carrying, worker'.at \notin Carrying, Deleted => Deleted'
      PROVE  Tracked
  BY <1>0, <1>c, <1>d, NothingMoves
<1>1. CASE Sent \/ WorkerDrained \/ Release \/ QueuedLook
  <2>1. /\ UNCHANGED <<accepted, queue, inbox, drain, refused, dropped, sent>> /\ (Deleted' <=> Deleted)
        /\ worker.at \in {"sending", "draining", "release", "queued"}
    BY <1>1 DEF Sent, WorkerDrained, Release, QueuedLook, turns, history, authority, Deleted
  <2>2. worker'.at \in {"drain", "release", "idle"}
    BY <1>1, <1>a DEF Sent, WorkerDrained, Release, QueuedLook, At, Becomes, IdleWorker
  <2> QED
    BY <1>b, <1>d, <2>1, <2>2, SameSent DEF Carrying
<1>2. CASE WorkerDrains \/ GoalDrains
  <2>1. /\ UNCHANGED <<inbox, refused, dropped, sent>> /\ (Deleted' <=> Deleted)
        /\ worker.at \in {"drain", "goal-drain"}
        /\ worker'.at \in {"draining", "goal-draining", "release", "goal-check"}
        /\ BeginDrain("worker") \/ UNCHANGED <<accepted, queue, drain>>
    BY <1>2, <1>a DEF WorkerDrains, GoalDrains, At, turns, history, authority, Deleted
  <2>2. drain["worker"] = NoDrain
    BY <1>0, <2>1 DEF WaitInv
  <2>3. HandlerTurns' = HandlerTurns
    BY <1>c, <2>1 DEF Carrying
  <2>4. CASE BeginDrain("worker")
    BY <1>0, <2>1, <2>2, <2>3, <2>4, DrainTracked DEF Actor
  <2>5. CASE UNCHANGED <<accepted, queue, drain>>
    BY <1>b, <1>d, <2>1, <2>5, SameSent DEF Carrying
  <2> QED
    BY <2>1, <2>4, <2>5
<1>3. CASE TakeInterrupt \/ TakeGoal
  <2>1. /\ UNCHANGED <<accepted, queue, drain, refused, dropped, sent>> /\ (Deleted' <=> Deleted)
        /\ Takes({"interrupt"}) \/ Takes({"goal"})
        /\ worker'.at \in {"interrupt", "idle", "goal-look"}
    <3>1. CASE TakeInterrupt
      BY <3>1 DEF TakeInterrupt, Becomes, IdleWorker, turns, history, authority, Deleted
    <3>2. CASE TakeGoal
      BY <3>2 DEF TakeGoal, Takes, Idle, Becomes, turns, history, authority, Deleted
    <3> QED
      BY <1>3, <3>1, <3>2
  <2>2. worker.at = "idle"
    BY <2>1 DEF Takes, Idle
  <2>3. OnceInInbox' /\ InboxTurns' = InboxTurns
    BY <1>0, <2>1, TakesNoTurn
  <2> QED
    BY <1>d, <2>1, <2>2, <2>3, SameSent DEF Carrying
<1>4. CASE TakeStop
  <2>1. /\ Takes({"stop"}) /\ UNCHANGED <<accepted, drain, refused, sent>> /\ (Deleted' <=> Deleted)
        /\ \/ worker' = worker /\ UNCHANGED <<queue, dropped>>
           \/ worker'.at = "stop" /\ ClearThread
    BY <1>4 DEF TakeStop, Becomes, Deleted
  <2>2. worker.at = "idle" /\ worker'.at \in {"idle", "stop"}
    BY <2>1 DEF Takes, Idle
  <2>3. OnceInInbox' /\ InboxTurns' = InboxTurns
    BY <1>0, <2>1, TakesNoTurn
  <2>4. HandlerTurns' = HandlerTurns
    BY <1>c, <2>2 DEF Carrying
  <2>5. CASE UNCHANGED <<queue, dropped>>
    BY <1>d, <2>1, <2>2, <2>3, <2>5, SameSent DEF Carrying
  <2>6. CASE ClearThread
    BY <1>0, <2>1, <2>3, <2>4, <2>6, Clears
  <2> QED
    BY <2>1, <2>5, <2>6
<1>5. CASE Interrupt \/ BeginStop \/ AwaitDrained \/ Halt \/ EndStop
  <2>1. /\ UNCHANGED <<accepted, queue, inbox, drain, refused, dropped, sent>>
        /\ (Deleted' <=> Deleted)
    BY <1>5 DEF Interrupt, BeginStop, AwaitDrained, Halt, EndStop, turns, history, authority, Deleted
  <2>2. worker.at \in {"interrupt", "steer", "stop", "await", "halt", "stop-done", "stop-failed"}
    BY <1>5 DEF Interrupt, BeginStop, AwaitDrained, Halt, EndStop
  <2>3. worker'.at \in {"idle", "await", "halt", "stop-done", "stop-failed"}
    BY <1>5, <1>a DEF Interrupt, BeginStop, AwaitDrained, Halt, EndStop, At, Becomes, IdleWorker
  <2> QED
    BY <1>b, <1>d, <2>1, <2>2, <2>3, SameSent DEF Carrying
<1>6. CASE GoalLook \/ GoalDrained \/ GoalCheck \/ GoalFailed
  <2>1. /\ UNCHANGED <<accepted, queue, inbox, drain, refused, dropped, sent>>
        /\ (Deleted' <=> Deleted)
    BY <1>6 DEF GoalLook, GoalDrained, GoalCheck, GoalFailed, turns, history, authority, Deleted
  <2>2. worker.at \in {"goal-look", "goal-draining", "goal-check", "goal-failed"}
    BY <1>6 DEF GoalLook, GoalDrained, GoalCheck, GoalFailed
  <2>3. worker'.at \in {"idle", "goal-drain", "goal-check", "goal-send", "goal-failed"}
    BY <1>6, <1>a DEF GoalLook, GoalDrained, GoalCheck, GoalFailed, Blocked, At, Becomes, IdleWorker
  <2> QED
    BY <1>b, <1>d, <2>1, <2>2, <2>3, SameSent DEF Carrying
<1>7. CASE GoalSend
  <2>1. /\ UNCHANGED <<accepted, queue, inbox, drain, refused, dropped>> /\ (Deleted' <=> Deleted)
        /\ worker.at = "goal-send" /\ (sent' = Append(sent, Goal) \/ UNCHANGED sent)
        /\ worker'.at \in {"idle", "goal-failed"}
    <3>1. /\ UNCHANGED <<accepted, queue, inbox, drain, refused, dropped>> /\ (Deleted' <=> Deleted)
          /\ worker.at = "goal-send" /\ (sent' = Append(sent, Goal) \/ UNCHANGED sent)
      BY <1>7 DEF GoalSend, Accepts, turns, authority, Deleted
    <3>2. worker'.at \in {"idle", "goal-failed"}
      BY <1>7, <1>a DEF GoalSend, At, Becomes, IdleWorker
    <3> QED
      BY <3>1, <3>2
  <2>2. GivenAsBefore
    BY <1>0, <2>1, SameSent, GoalSent
  <2> QED
    BY <1>b, <1>d, <2>1, <2>2 DEF Carrying
<1> QED
  BY <1>1, <1>2, <1>3, <1>4, <1>5, <1>6, <1>7 DEF Control, Continuation

LEMMA PromotionTracked ==
  ASSUME Known, NEW a \in Actor, Promotion(a)
  PROVE  Tracked
<1> DEFINE d == drain[a]
           t == d.entry.turn
<1>0. TypeOK /\ Once /\ Apart /\ d \in DrainRow /\ drain \in [Actor -> DrainRow]
  BY DEF Known, DeliveryInv, TypeOK, FibersType
<1>b. UNCHANGED inbox => OnceInInbox' /\ InboxTurns' = InboxTurns
  BY <1>0, InboxQuiet DEF Once
<1>c. UNCHANGED queue => OnceInQueue' /\ QueuedTurns' = QueuedTurns
  BY <1>0, QueueUnmoved DEF Once
<1>1. CASE Reserve(a) \/ Reject(a)
  <2>1. /\ UNCHANGED <<accepted, queue, inbox, worker, refused, dropped, sent>>
        /\ (Deleted' <=> Deleted)
    BY <1>1 DEF Reserve, Reject, turns, history, Deleted
  <2>2. Undone(d) /\ \E r : DrainOf(a, r) /\ Undone(r) /\ r.entry = d.entry
    <3>1. CASE Reserve(a)
      <4>1. d.at = "reserve"
        BY <3>1 DEF Reserve
      <4>2. \/ DrainOf(a, [d EXCEPT !.at = "failed"])
            \/ \E c : DrainOf(a, [at |-> "offered", entry |-> d.entry, claim |-> c])
        BY <3>1 DEF Reserve, DrainOf
      <4>3. [d EXCEPT !.at = "failed"].at = "failed" /\ [d EXCEPT !.at = "failed"].entry = d.entry
        BY <1>0, <4>1, DrainRows
      <4>4. \A c : LET r == [at |-> "offered", entry |-> d.entry, claim |-> c]
                   IN  Undone(r) /\ r.entry = d.entry
        BY DEF Undone
      <4>5. Undone([d EXCEPT !.at = "failed"])
        BY <4>3 DEF Undone
      <4> HIDE DEF d
      <4> QED
        BY <4>1, <4>2, <4>3, <4>4, <4>5 DEF Undone
    <3>2. CASE Reject(a)
      <4>1. d.at = "offered" /\ DrainOf(a, [at |-> "failed", entry |-> d.entry])
        BY <3>2 DEF Reject, DrainOf
      <4>2. Undone([at |-> "failed", entry |-> d.entry])
        BY DEF Undone
      <4> QED
        BY <4>1, <4>2 DEF Undone
    <3> QED
      BY <1>1, <3>1, <3>2
  <2>3. PromotedOnce' /\ PromotedTurns' = PromotedTurns /\ CommittedTurns' = CommittedTurns
    BY <1>0, <2>2, DrainGoesOn DEF Once
  <2>4. HandlerTurns' = HandlerTurns
    BY <1>0, <2>1, HandlerStays
  <2>5. Once' /\ SameHistory
    BY <1>b, <1>c, <2>1, <2>3, SameSent DEF Once, SameHistory
  <2> QED
    BY <1>0, <1>b, <1>c, <2>1, <2>3, <2>4, <2>5, Stays
<1>2. CASE Commit(a)
  <2> DEFINE e == PromotedOf(t, d.claim)
  <2>1. /\ UNCHANGED <<accepted, queue, worker, refused, dropped, sent>> /\ (Deleted' <=> Deleted)
        /\ d.at = "offered" /\ DrainOf(a, [d EXCEPT !.at = "done"]) /\ Publish(<<e>>)
    <3>1. UNCHANGED <<accepted, queue, worker, refused, dropped, sent>> /\ (Deleted' <=> Deleted)
      BY <1>2, DeletedStays DEF Commit, turns, history
    <3>2. d.at = "offered" /\ Publish(<<e>>)
      BY <1>2 DEF Commit
    <3>3. DrainOf(a, [d EXCEPT !.at = "done"])
      BY <1>2 DEF Commit, DrainOf
    <3> QED
      BY <3>1, <3>2, <3>3
  <2>2. /\ [d EXCEPT !.at = "done"].at = "done" /\ [d EXCEPT !.at = "done"].entry = d.entry
        /\ e \in Event /\ IsTurn(e) /\ e.turn = t
    <3>1. /\ [d EXCEPT !.at = "done"].at = "done" /\ [d EXCEPT !.at = "done"].entry = d.entry
          /\ t \in Turn /\ d.claim \in ClaimId
      BY <1>0, <2>1, DrainRows
    <3>2. e \in Event
      BY <3>1, Events
    <3>3. IsTurn(e) /\ e.turn = t
      BY FirstTime
    <3> QED
      BY <3>1, <3>2, <3>3
  <2>3. Undone(d) /\ ~Undone([d EXCEPT !.at = "done"])
    BY <2>1, <2>2 DEF Undone
  <2>4. /\ PromotedOnce' /\ PromotedTurns' = PromotedTurns \ {t} /\ t \in PromotedTurns
        /\ CommittedTurns' = CommittedTurns \cup {t}
    BY <1>0, <2>1, <2>2, <2>3, DrainLeaves DEF Once
  <2>5. t \notin InboxTurns /\ t \in Unsettled
    BY <1>0, <2>4 DEF Apart, Unsettled
  <2> HIDE DEF e
  <2>6. OnceInInbox' /\ InboxTurns' = InboxTurns \cup {t}
    BY <1>0, <2>1, <2>2, <2>5, InboxPublishes DEF Once
  <2>7. HandlerTurns' = HandlerTurns
    BY <1>0, <2>1, HandlerStays
  <2>8. Once' /\ SameHistory
    BY <1>c, <2>1, <2>4, <2>6, SameSent DEF Once, SameHistory
  <2> HIDE DEF t
  <2> QED
    BY <1>0, <1>c, <2>1, <2>4, <2>5, <2>6, <2>7, <2>8, Passes
<1>3. CASE Promoted(a)
  <2>1. /\ UNCHANGED <<accepted, queue, inbox, worker, refused, dropped, sent>>
        /\ (Deleted' <=> Deleted) /\ d.at = "done" /\ DrainOf(a, NoDrain)
    BY <1>3 DEF Promoted, history, DrainOf, Deleted
  <2>2. PromotedOnce' /\ PromotedTurns' = PromotedTurns /\ CommittedTurns' \subseteq CommittedTurns
    BY <1>0, <2>1, DrainEnds DEF Once
  <2>3. HandlerTurns' = HandlerTurns
    BY <1>0, <2>1, HandlerStays
  <2>4. Once' /\ SameHistory
    BY <1>b, <1>c, <2>1, <2>2, SameSent DEF Once, SameHistory
  <2> QED
    BY <1>0, <1>b, <1>c, <2>1, <2>2, <2>3, <2>4, Stays
<1>4. CASE NotPromoted(a)
  <2>1. /\ UNCHANGED <<accepted, inbox, refused, dropped, sent>> /\ (Deleted' <=> Deleted)
        /\ d.at = "failed" /\ queue' = RequeuedFront(d.entry) /\ DrainOf(a, NoDrain)
        /\ worker' = worker \/ (worker.at = "goal-draining" /\ worker'.at = "goal-failed")
    BY <1>4, DeletedStays DEF NotPromoted, PutBack, history, DrainOf
  <2>2. Undone(d) /\ ~Undone(NoDrain) /\ NoDrain.at # "done" /\ d.entry \in Entry
    BY <1>0, <2>1, DrainRows DEF Undone, NoDrain
  <2>3. /\ PromotedOnce' /\ PromotedTurns' = PromotedTurns \ {t} /\ t \in PromotedTurns
        /\ CommittedTurns' = CommittedTurns
    BY <1>0, <2>1, <2>2, DrainLeaves DEF Once
  <2>4. t \notin QueuedTurns /\ t \in Unsettled
    BY <1>0, <2>3 DEF Apart, Unsettled
  <2>5. OnceInQueue' /\ QueuedTurns' = QueuedTurns \cup {t}
    BY <1>0, <2>1, <2>2, <2>4, QueueIn DEF Once
  <2>6. HandlerTurns' = HandlerTurns
    BY <1>0, <2>1, HandlerStays DEF Carrying
  <2>7. Once' /\ SameHistory
    BY <1>b, <2>1, <2>3, <2>5, SameSent DEF Once, SameHistory
  <2> HIDE DEF t
  <2> QED
    BY <1>0, <1>b, <2>1, <2>3, <2>4, <2>5, <2>6, <2>7, Passes
<1> QED
  BY <1>1, <1>2, <1>3, <1>4 DEF Promotion

LEMMA OthersTracked ==
  ASSUME NothingSlips, Known, HearEnd \/ HearDeletion \/ RetryGoal \/ Environment
  PROVE  Tracked
<1>0. TypeOK /\ Once /\ Apart /\ worker \in WorkerRow /\ Owed
  BY DEF Known, DeliveryInv, TypeOK, FibersType
<1>b. UNCHANGED inbox => OnceInInbox' /\ InboxTurns' = InboxTurns
  BY <1>0, InboxQuiet DEF Once
<1>c. UNCHANGED queue => OnceInQueue' /\ QueuedTurns' = QueuedTurns
  BY <1>0, QueueUnmoved DEF Once
<1>d. UNCHANGED drain => /\ PromotedOnce' /\ PromotedTurns' = PromotedTurns
                         /\ CommittedTurns' = CommittedTurns
  BY <1>0, DrainsUnmoved DEF Once
<1>w. UNCHANGED worker => HandlerTurns' = HandlerTurns
  BY <1>0, HandlerStays
<1>1. CASE HearEnd
  <2>1. /\ UNCHANGED <<inbox, refused, dropped, sent>> /\ (Deleted' <=> Deleted)
        /\ drain["stream"] = NoDrain
        /\ worker' = worker \/ (worker.at = "sending" /\ worker' = [worker EXCEPT !.parked = TRUE])
        /\ BeginDrain("stream") \/ UNCHANGED <<accepted, queue, drain>>
    BY <1>1, DeletedStays DEF HearEnd, Parks, turns, history
  <2>2. worker.at = "sending" => [worker EXCEPT !.parked = TRUE].at = "sending"
    BY <1>0 DEF WorkerRow
  <2>3. HandlerTurns' = HandlerTurns
    BY <1>0, <2>1, <2>2, HandlerStays DEF Carrying
  <2>4. CASE BeginDrain("stream")
    BY <1>0, <2>1, <2>3, <2>4, DrainTracked DEF Actor
  <2>5. CASE UNCHANGED <<accepted, queue, drain>>
    BY <1>0, <1>b, <2>1, <2>3, <2>5, SameSent, NothingMoves
  <2> QED
    BY <2>1, <2>4, <2>5
<1>2. CASE HearDeletion
  <2>1. /\ UNCHANGED <<accepted, refused, sent, drain, worker, inbox>> /\ ClearThread
        /\ (Deleted' <=> Deleted)
    BY <1>2 DEF HearDeletion, fibers, Deleted
  <2> QED
    BY <1>0, <1>b, <1>w, <2>1, Clears
<1>3. CASE RetryGoal
  <2>1. /\ UNCHANGED <<worker, refused, dropped, sent>> /\ (Deleted' <=> Deleted)
        /\ drain["retry"] = NoDrain
        /\ \/ BeginDrain("retry") /\ UNCHANGED inbox
           \/ Publish(<<[kind |-> "goal"]>>) /\ UNCHANGED <<accepted, queue, drain>>
    BY <1>3, DeletedStays DEF RetryGoal, turns, history
  <2>2. CASE BeginDrain("retry") /\ UNCHANGED inbox
    BY <1>0, <1>w, <2>1, <2>2, DrainTracked DEF Actor
  <2>3. CASE Publish(<<[kind |-> "goal"]>>) /\ UNCHANGED <<accepted, queue, drain>>
    <3>1. OnceInInbox' /\ InboxTurns' = InboxTurns
      BY <1>0, <2>3, PublishesNoTurn
    <3> QED
      BY <1>0, <1>w, <2>1, <2>3, <3>1, SameSent, NothingMoves
  <2> QED
    BY <2>1, <2>2, <2>3
<1>4. ASSUME NEW t \in Turn, Submit(t) PROVE Tracked
  <2>1. /\ UNCHANGED <<queue, worker, drain, refused, dropped, sent>> /\ (Deleted' <=> Deleted)
        /\ t \notin accepted /\ accepted' = accepted \cup {t}
    BY <1>4 DEF Submit, history, Deleted
  <2>2. PICK e \in Event :
          /\ IsTurn(e) /\ e.turn = t
          /\ Publish(<<e>>) \/ \E f \in Event : ~IsTurn(f) /\ Publish(<<e>> \o <<f>>)
    BY <1>4, SubmitPublishes
  <2>3. t \notin Unsettled
    BY <1>0, <2>1 DEF Owed
  <2>4. OnceInInbox' /\ InboxTurns' = InboxTurns \cup {t}
    BY <1>0, <2>2, <2>3, InboxPublishes DEF Once, Unsettled
  <2>5. Once' /\ GivenAsBefore
    BY <1>c, <1>d, <2>1, <2>4, SameSent DEF Once
  <2>6. Apart' /\ Unsettled' = Unsettled \cup {t}
    BY <1>0, <1>c, <1>d, <1>w, <2>1, <2>3, <2>4 DEF Apart, Unsettled
  <2>7. Accepting(t)
    BY <1>d, <2>1, <2>5, <2>6 DEF Accepting
  <2> QED
    BY <2>5, <2>6, <2>7 DEF Tracked, Doing
<1>5. CASE AskStop \/ AskGoal
  <2>1. /\ UNCHANGED <<accepted, queue, worker, drain, refused, dropped, sent>>
        /\ (Deleted' <=> Deleted)
        /\ \E k \in {"stop", "goal"} : Publish(<<[kind |-> k]>>)
    BY <1>5, DeletedStays DEF AskStop, AskGoal, turns, history
  <2>2. OnceInInbox' /\ InboxTurns' = InboxTurns
    BY <1>0, <2>1, PublishesNoTurn
  <2> QED
    BY <1>0, <1>w, <2>1, <2>2, SameSent, NothingMoves
<1>6. CASE TurnEnds \/ Ingest \/ SwitchAway \/ SwitchBack \/ Expire \/ Delete \/ Teardown
  <2>1. /\ UNCHANGED <<accepted, queue, inbox, worker, drain, refused, dropped, sent>>
        /\ (Deleted => Deleted')
    BY <1>6 DEF TurnEnds, Ingest, SwitchAway, SwitchBack, Expire, Delete, Teardown, turns, fibers,
       authority, history, Deleted
  <2> QED
    BY <1>0, <1>b, <1>w, <2>1, SameSent, NothingMoves
<1>7. ~Redeliver /\ ~Timeout
  BY DEF NothingSlips, Redeliver, Timeout, Happens
<1>8. ~CommitOrphan
  BY DEF Known, Calm, CommitOrphan
<1> QED
  BY <1>1, <1>2, <1>3, <1>4, <1>5, <1>6, <1>7, <1>8 DEF Environment

LEMMA TrackedStep ==
  ASSUME NothingSlips, Known, [Next]_vars
  PROVE  Tracked
<1>0. TypeOK /\ Once /\ Apart
  BY DEF Known, DeliveryInv
<1>1. CASE Worker
  BY <1>1, StartTracked, QueuedTracked, WorkerTracked DEF Worker, Admission
<1>2. CASE \E a \in Actor : Promotion(a)
  BY <1>2, PromotionTracked
<1>3. CASE HearEnd \/ HearDeletion \/ RetryGoal \/ Environment
  BY <1>3, OthersTracked
<1>4. CASE UNCHANGED vars
  <2>1. /\ UNCHANGED <<accepted, queue, inbox, worker, drain, refused, dropped, sent>>
        /\ (Deleted => Deleted')
    BY <1>4 DEF vars, turns, fibers, authority, history, Deleted
  <2> QED
    BY <1>0, <2>1, InboxQuiet, HandlerStays, SameSent, NothingMoves DEF Once
<1> QED
  BY <1>1, <1>2, <1>3, <1>4 DEF Next

LEMMA KnownInit == Init => QueueInv /\ Calm /\ OneStop /\ DeliveryInv
<1> SUFFICES ASSUME Init PROVE Calm /\ OneStop /\ DeliveryInv
  BY QueueInit
<1>1. /\ inbox = <<>> /\ queue = <<>> /\ sent = <<>> /\ orphans = {} /\ accepted = {}
      /\ refused = {} /\ dropped = {} /\ gate = "ready" /\ worker.at = "idle"
      /\ \A a \in Actor : drain[a].at = "no"
  BY DEF Init, IdleWorker, NoDrain
<1>2. /\ QueuedTurns = {} /\ InboxTurns = {} /\ PromotedTurns = {} /\ HandlerTurns = {}
      /\ CommittedTurns = {} /\ GivenTurns = {}
  <2>1. QueuedTurns = {} /\ InboxTurns = {} /\ GivenTurns = {}
    BY <1>1 DEF QueuedTurns, InboxTurns, GivenTurns
  <2>2. PromotedTurns = {} /\ CommittedTurns = {}
    BY <1>1 DEF PromotedTurns, CommittedTurns, Undone
  <2>3. HandlerTurns = {}
    BY <1>1 DEF HandlerTurns, InHandler
  <2> QED
    BY <2>1, <2>2, <2>3
<1>3. Once
  BY <1>1 DEF Once, OnceInQueue, OnceInInbox, PromotedOnce, Undone
<1>4. Calm /\ OneStop
  BY <1>1 DEF Calm, NewEvents, OneStop
<1> QED
  BY <1>1, <1>2, <1>3, <1>4 DEF DeliveryInv, Apart, Owed, Unsettled, Settled

(* What the delivery rests on, with the invariant of the queue. *)
TurnsInv == QueueInv /\ Calm /\ OneStop /\ DeliveryInv

LEMMA TurnsStep ==
  ASSUME NothingSlips
  PROVE  TurnsInv /\ [Next]_vars => TurnsInv' /\ Doing
<1> SUFFICES ASSUME TurnsInv, [Next]_vars PROVE TurnsInv' /\ Doing
  OBVIOUS
<1>1. Known
  BY DEF TurnsInv, QueueInv, Known
<1>2. Once' /\ Apart' /\ Doing
  BY <1>1, TrackedStep DEF Tracked
<1>3. Owed'
  BY <1>1, <1>2, OwedStep DEF Known, DeliveryInv
<1>4. QueueInv' /\ Calm' /\ OneStop'
  BY <1>1, QueueStep, CalmStep, OneStopStep DEF TurnsInv, Known
<1> QED
  BY <1>2, <1>3, <1>4 DEF TurnsInv, DeliveryInv

LEMMA DeliveryStep ==
  ASSUME NothingSlips
  PROVE  TurnsInv /\ Accounted /\ Accounted' /\ [Next]_vars => [Delivery!Next]_(Delivery!vars)
<1> SUFFICES ASSUME TurnsInv, Accounted, Accounted', [Next]_vars
             PROVE  [Delivery!Next]_(Delivery!vars)
  OBVIOUS
<1> QED
  BY TurnsStep, DoingIsDelivery DEF TurnsInv, QueueInv, DeliveryInv

LEMMA DeliveryInit == Init => Delivery!Init
<1> SUFFICES ASSUME Init PROVE Delivery!Init
  OBVIOUS
<1>1. accepted = {} /\ sent = <<>>
  BY DEF Init
<1>2. [t \in Turn |-> Outcome(t)] = [t \in Turn |-> "new"]
  BY <1>1 DEF Outcome
<1>3. \A t \in Turn : {i \in DOMAIN sent : sent[i] = t} = {}
  BY <1>1
<1>4. [t \in Turn |-> Cardinality({i \in DOMAIN sent : sent[i] = t})] = [t \in Turn |-> 0]
  BY <1>3, FS_EmptySet
<1> QED
  BY <1>2, <1>4 DEF Delivery!Init

(* No turn is in two places, an accepted one that is not settled is in one,
   and a settled one in none: the queue, the inbox, the promotions and the
   handler hand a turn over without losing or doubling it. *)
THEOREM TurnsAreTracked ==
  ASSUME NothingSlips
  PROVE  Spec => []DeliveryInv
<1>1. Init => TurnsInv
  BY KnownInit DEF TurnsInv
<1>2. TurnsInv /\ [Next]_vars => TurnsInv'
  BY TurnsStep
<1>3. TurnsInv => DeliveryInv
  BY DEF TurnsInv
<1> QED
  BY <1>1, <1>2, <1>3, PTL DEF Spec

(* Unless a handler is given up, the write of the "starting" session fails or
   an event comes twice, the turn queue keeps the promise of TurnDelivery: an
   accepted turn is given to the provider once, or its failure is shown, or a
   stop or a deletion takes it back, and then nothing more happens to it. *)
THEOREM QueueImplementsDelivery ==
  ASSUME NothingSlips
  PROVE  Spec => ImplementsDelivery
<1>1. Init => TurnsInv
  BY KnownInit DEF TurnsInv
<1>2. TurnsInv /\ [Next]_vars => TurnsInv'
  BY TurnsStep
<1>3. TurnsInv => Accounted
  BY OutcomeIs DEF TurnsInv, QueueInv, DeliveryInv
<1>4. TurnsInv /\ Accounted /\ Accounted' /\ [Next]_vars => [Delivery!Next]_(Delivery!vars)
  BY DeliveryStep
<1>5. Init => Delivery!Init
  BY DeliveryInit
<1> QED
  BY <1>1, <1>2, <1>3, <1>4, <1>5, PTL DEF Spec, ImplementsDelivery, Delivery!Spec
================================================================================
