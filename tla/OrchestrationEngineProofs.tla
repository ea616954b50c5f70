------------------------ MODULE OrchestrationEngineProofs ------------------------
(***************************************************************************)
(* What a caller was told is so, and a settled command stays settled: for  *)
(* any number of commands, dispatches, events, crashes and repairs.        *)
(*                                                                         *)
(* Receipts are written in two places: with the commit, guarded by the     *)
(* lookup of the receipt in the same run, and after a rejection, two steps *)
(* later and unguarded.  The invariant carries the result of the lookup,   *)
(* and that of the commit, over the steps that follow.  A second one says  *)
(* where in the log the events of an accepted command stand.               *)
(***************************************************************************)
EXTENDS OrchestrationEngine, FiniteSetTheorems, TLAPS

(* The shapes of the records: which numbers are stored in them does not
   matter here, so they are members of some set V. *)
AnswerKinds == {"none", "accepted", "rejected", "previously-rejected", "timeout",
                "internal"}
AnswerIn(V) == [kind : AnswerKinds, sequence : V]
States == {"queued", "in-flight", "abandoned", "gone"}
EnvelopeIn(V) == [command : Command, state : States, answer : AnswerIn(V)]
ReceiptIn(V) == [status : {"none", "accepted", "rejected"}, sequence : V]
Steps == {"idle", "waiting", "running", "committed", "deferring", "publishing",
          "answering", "failed", "resolving"}
Errors == {"none", "invariant", "internal", "defect", "timeout"}
WorkerIn(V) == [step : Steps, envelope : V, start : V, first : V, last : V, next : V,
                error : Errors]
EventIn(V) == [type : V, aggregate : V, command : Command]

Shaped(V) ==
  /\ envelope \in Seq(EnvelopeIn(V))
  /\ receipts \in [Command -> ReceiptIn(V)]
  /\ worker \in WorkerIn(V)
  /\ log \in Seq(EventIn(V))
  /\ commandQueue \in Seq(1..Len(envelope))
  /\ worker.step # "idle" => worker.envelope \in 1..Len(envelope)

(* A command is under way only when its envelope says so. *)
Begun ==
  Holding => envelope[worker.envelope].state = "in-flight"

(* A run that rejects its command found no receipt of it. *)
RejectionIsFirst ==
  worker.step \in {"failed", "resolving"} /\ worker.error = "invariant" => Unsettled

(* A run past its transaction has the receipt it is about to answer with. *)
CommitIsRecorded ==
  worker.step \in {"committed", "deferring", "publishing", "answering"} =>
    receipts[current] = [status |-> "accepted", sequence |-> worker.last]

(* No receipt is half written. *)
NoneIsNoReceipt ==
  \A c \in Command : receipts[c].status = "none" => receipts[c] = NoReceipt

(* What an answer says of the receipt. *)
Fits(c, answer) ==
  /\ answer.kind = "accepted" =>
       receipts[c] = [status |-> "accepted", sequence |-> answer.sequence]
  /\ answer.kind = "previously-rejected" => receipts[c].status = "rejected"

AnswersFit ==
  \A e \in 1..Len(envelope) : Fits(envelope[e].command, envelope[e].answer)

(* The log holds events of commands that were begun only. *)
LogIsBegun ==
  \A s \in 1..Len(log) : \E o \in 1..Len(envelope) :
    /\ envelope[o].command = log[s].command
    /\ envelope[o].state \in {"in-flight", "gone"}

Settling ==
  /\ \E V : Shaped(V)
  /\ Begun
  /\ RejectionIsFirst
  /\ CommitIsRecorded
  /\ NoneIsNoReceipt
  /\ AnswersFit
  /\ LogIsBegun

(* The invariant says what callers are promised. *)
LEMMA SettlingMeans == Settling => AnswersAreTrue
<1> SUFFICES ASSUME Settling PROVE AnswersAreTrue
  OBVIOUS
<1>1. PICK V : Shaped(V)
  BY DEF Settling
<1>2. DOMAIN envelope = 1..Len(envelope)
  BY <1>1 DEF Shaped
<1>3. ASSUME NEW e \in 1..Len(envelope),
             \A o \in 1..Len(envelope) :
               envelope[o].command = envelope[e].command =>
                 envelope[o].state \in {"queued", "abandoned"}
      PROVE EventsOf(envelope[e].command) = {}
  BY <1>3 DEF Settling, LogIsBegun, EventsOf, Sequence
<1> QED
  BY <1>2, <1>3 DEF AnswersAreTrue, Settling, AnswersFit, Fits

-----------------------------------------------------------------------------
(* Shapes *)

(* Larger sets of values have the same shapes. *)
LEMMA Widen ==
  ASSUME NEW V, NEW U, V \subseteq U
  PROVE  /\ EnvelopeIn(V) \subseteq EnvelopeIn(U)
         /\ ReceiptIn(V) \subseteq ReceiptIn(U)
         /\ WorkerIn(V) \subseteq WorkerIn(U)
         /\ EventIn(V) \subseteq EventIn(U)
BY DEF EnvelopeIn, AnswerIn, ReceiptIn, WorkerIn, EventIn

(* A sequence over a set is one over any larger set. *)
LEMMA SequencesWiden ==
  ASSUME NEW S, NEW T, S \subseteq T, NEW s \in Seq(S)
  PROVE  s \in Seq(T)
OBVIOUS

(* The state keeps its shape over any larger set of values. *)
LEMMA ShapedWidens ==
  ASSUME NEW V, NEW U, V \subseteq U, Shaped(V)
  PROVE  Shaped(U)
<1>1. envelope \in Seq(EnvelopeIn(U)) /\ log \in Seq(EventIn(U))
  BY Widen, SequencesWiden DEF Shaped
<1>2. receipts \in [Command -> ReceiptIn(U)]
  BY Widen DEF Shaped
<1>3. worker \in WorkerIn(U)
  BY Widen DEF Shaped
<1> QED
  BY <1>1, <1>2, <1>3 DEF Shaped

(* There is a shape with room for one more value. *)
LEMMA RoomFor ==
  ASSUME Settling, NEW x PROVE \E V : Shaped(V) /\ 0 \in V /\ x \in V
<1>1. PICK V : Shaped(V)
  BY DEF Settling
<1>2. Shaped(V \cup {0, x})
  BY <1>1, ShapedWidens
<1> QED
  BY <1>2

-----------------------------------------------------------------------------
(* The worker's moves *)

(* A worker that does nothing has its shape. *)
LEMMA IdleShape ==
  ASSUME NEW V, 0 \in V
  PROVE  Idle \in WorkerIn(V) /\ Idle.step = "idle"
BY DEF Idle, WorkerIn, Steps, Errors

(* A move within a run keeps its envelope, its failure and its last event. *)
LEMMA AtMoves ==
  ASSUME NEW V, worker \in WorkerIn(V), NEW step \in Steps, At(step)
  PROVE  /\ worker' \in WorkerIn(V)
         /\ worker'.step = step /\ worker'.envelope = worker.envelope
         /\ worker'.error = worker.error /\ worker'.last = worker.last
BY DEF At, WorkerIn

(* A failing run keeps its envelope. *)
LEMMA FailMoves ==
  ASSUME NEW V, 0 \in V, worker \in WorkerIn(V), NEW error \in Errors, Fail(error)
  PROVE  /\ worker' \in WorkerIn(V)
         /\ worker'.step = "failed" /\ worker'.envelope = worker.envelope
         /\ worker'.error = error
<1> DEFINE e == worker.envelope
           s == worker.start
<1>1. e \in V /\ s \in V
  BY DEF WorkerIn
<1>2. worker' = [Idle EXCEPT !.step = "failed", !.envelope = e, !.start = s, !.error = error]
  BY DEF Fail
<1> HIDE DEF e, s
<1>3. worker' = [step |-> "failed", envelope |-> e, start |-> s, first |-> 0, last |-> 0,
                 next |-> 0, error |-> error]
  BY <1>2 DEF Idle
<1>4. worker' \in WorkerIn(V)
  BY <1>1, <1>3 DEF WorkerIn, Steps
<1> QED
  BY <1>3, <1>4 DEF e

-----------------------------------------------------------------------------
(* Steps that only move the worker, or nothing of this *)

(* A step that touches neither envelopes, receipts, worker, queue nor log. *)
LEMMA Quiet ==
  ASSUME Settling, UNCHANGED <<envelope, receipts, worker, log, commandQueue>>
  PROVE  Settling'
<1>1. PICK V : Shaped(V)
  BY DEF Settling
<1>2. Shaped(V)'
  BY <1>1 DEF Shaped
<1>3. (\E U : Shaped(U))'
  BY <1>2
<1>4. Begun' /\ RejectionIsFirst' /\ CommitIsRecorded'
  BY DEF Settling, Begun, Holding, RejectionIsFirst, CommitIsRecorded, Unsettled, current
<1>5. NoneIsNoReceipt' /\ AnswersFit' /\ LogIsBegun'
  BY DEF Settling, NoneIsNoReceipt, AnswersFit, Fits, LogIsBegun
<1> QED
  BY <1>3, <1>4, <1>5 DEF Settling

(* A step that moves the worker alone, within its run or to the end of it. *)
LEMMA WorkerMoves ==
  ASSUME Settling, UNCHANGED <<envelope, receipts, log, commandQueue>>,
         NEW V, Shaped(V), worker' \in WorkerIn(V),
         worker'.step # "idle" =>
           /\ worker'.step # "waiting" /\ Holding
           /\ worker'.envelope = worker.envelope,
         RejectionIsFirst', CommitIsRecorded'
  PROVE  Settling'
<1>1. Shaped(V)'
  BY DEF Shaped, Holding
<1>2. (\E U : Shaped(U))'
  BY <1>1
<1>3. Begun'
  BY DEF Settling, Begun, Holding
<1>4. NoneIsNoReceipt' /\ AnswersFit' /\ LogIsBegun'
  BY DEF Settling, NoneIsNoReceipt, AnswersFit, Fits, LogIsBegun
<1> QED
  BY <1>2, <1>3, <1>4 DEF Settling

(* An abandoned envelope is skipped without a run. *)
LEMMA SkipAbandonedKeeps ==
  ASSUME Settling, SkipAbandoned PROVE Settling'
<1>1. PICK V : Shaped(V) /\ 0 \in V
  BY RoomFor
<1>2. worker' \in WorkerIn(V) /\ worker'.step = "idle"
  BY <1>1, IdleShape DEF SkipAbandoned
<1> QED
  BY <1>1, <1>2, WorkerMoves DEF SkipAbandoned, pipeline, RejectionIsFirst, CommitIsRecorded

(* A run fails; one that rejects has found no receipt. *)
LEMMA FailKeeps ==
  ASSUME Settling, Holding, NEW error \in Errors, Fail(error),
         UNCHANGED <<envelope, receipts, log, commandQueue>>,
         error = "invariant" => Unsettled
  PROVE  Settling'
<1>1. PICK V : Shaped(V) /\ 0 \in V
  BY RoomFor
<1>2. /\ worker' \in WorkerIn(V)
      /\ worker'.step = "failed" /\ worker'.envelope = worker.envelope
      /\ worker'.error = error
  BY <1>1, FailMoves DEF Shaped
<1>3. RejectionIsFirst' /\ CommitIsRecorded'
  BY <1>2 DEF RejectionIsFirst, CommitIsRecorded, Unsettled, current
<1> QED
  BY <1>1, <1>2, <1>3, WorkerMoves

(* Every way of failing is such a step. *)
LEMMA FailuresKeep ==
  ASSUME Settling, Reject \/ RunFails \/ RunTimeout PROVE Settling'
<1>1. CASE Reject
  BY <1>1, FailKeeps DEF Reject, Holding, Errors, pipeline
<1>2. CASE RunFails
  BY <1>2, FailKeeps DEF RunFails, Holding, Errors, pipeline
<1>3. CASE RunTimeout
  BY <1>3, FailKeeps DEF RunTimeout, Holding, Errors, pipeline
<1> QED
  BY <1>1, <1>2, <1>3

(* A step to another point of the same run. *)
LEMMA AtKeeps ==
  ASSUME Settling, NEW step \in Steps, At(step),
         UNCHANGED <<envelope, receipts, log, commandQueue>>,
         \/ worker.step = "committed" /\ step = "deferring"
         \/ worker.step = "failed" /\ step = "resolving"
  PROVE  Settling'
<1>1. PICK V : Shaped(V)
  BY DEF Settling
<1>2. /\ worker' \in WorkerIn(V)
      /\ worker'.step = step /\ worker'.envelope = worker.envelope
      /\ worker'.error = worker.error /\ worker'.last = worker.last
  BY <1>1, AtMoves DEF Shaped
<1>3. RejectionIsFirst' /\ CommitIsRecorded'
  BY <1>2 DEF Settling, RejectionIsFirst, CommitIsRecorded, Unsettled, current
<1>4. Holding
  BY DEF Holding
<1> QED
  BY <1>1, <1>2, <1>3, <1>4, WorkerMoves

(* To the next event, or to the next task. *)
LEMMA NextEventKeeps ==
  ASSUME Settling, NEW task, NextEvent(task),
         UNCHANGED <<envelope, receipts, log, commandQueue>>,
         \/ worker.step = "deferring" /\ task = "publishing"
         \/ worker.step = "publishing" /\ task = "answering"
  PROVE  Settling'
<1>1. PICK V : Shaped(V) /\ worker.next + 1 \in V
  BY RoomFor
<1> DEFINE n == worker.next + 1
           f == worker.first
<1>2. n \in V /\ f \in V /\ worker \in WorkerIn(V)
  BY <1>1 DEF Shaped, WorkerIn
<1>3. worker' = [worker EXCEPT !.next = n] \/ worker' = [worker EXCEPT !.step = task, !.next = f]
  BY DEF NextEvent
<1> HIDE DEF n, f
<1>4. /\ worker' \in WorkerIn(V)
      /\ worker'.step \in {worker.step, task} /\ worker'.envelope = worker.envelope
      /\ worker'.last = worker.last
  BY <1>2, <1>3 DEF WorkerIn, Steps
<1>5. RejectionIsFirst' /\ CommitIsRecorded'
  BY <1>4 DEF Settling, RejectionIsFirst, CommitIsRecorded, Unsettled, current
<1>6. Holding
  BY DEF Holding
<1> QED
  BY <1>1, <1>4, <1>5, <1>6, WorkerMoves

(* What follows the commit, and the reconciliation of a failed run. *)
LEMMA RunsOn ==
  ASSUME Settling,
         \/ SetCommandReadModel \/ ProjectCommittedEvent \/ Publish
         \/ Reconcile \/ ReconcileFails
  PROVE  Settling'
<1>1. CASE SetCommandReadModel
  BY <1>1, AtKeeps DEF SetCommandReadModel, Steps, pipeline
<1>2. CASE ProjectCommittedEvent
  <2>1. log' = log
    BY <1>2 DEF ProjectCommittedEvent, ProjectDeferredEvent, pipeline
  <2> QED
    BY <1>2, <2>1, NextEventKeeps DEF ProjectCommittedEvent
<1>3. CASE Publish
  BY <1>3, NextEventKeeps DEF Publish, pipeline
<1>4. CASE Reconcile
  BY <1>4, AtKeeps DEF Reconcile, Steps, pipeline
<1>5. CASE ReconcileFails
  BY <1>5, AtKeeps DEF ReconcileFails, Steps, pipeline
<1> QED
  BY <1>1, <1>2, <1>3, <1>4, <1>5

-----------------------------------------------------------------------------
(* Steps that change an envelope *)

(* Replacing one envelope leaves the others alone. *)
LEMMA OneEnvelope ==
  ASSUME NEW V, envelope \in Seq(EnvelopeIn(V)), NEW e \in 1..Len(envelope),
         NEW v \in EnvelopeIn(V), envelope' = [envelope EXCEPT ![e] = v]
  PROVE  /\ envelope' \in Seq(EnvelopeIn(V))
         /\ Len(envelope') = Len(envelope)
         /\ \A o \in 1..Len(envelope) : envelope'[o] = IF o = e THEN v ELSE envelope[o]
OBVIOUS

(* A new state leaves the command and the answer of an envelope alone. *)
LEMMA OneState ==
  ASSUME NEW V, NEW v \in EnvelopeIn(V), NEW st \in States
  PROVE  LET w == [v EXCEPT !.state = st]
         IN w \in EnvelopeIn(V) /\ w.state = st /\ w.command = v.command /\ w.answer = v.answer
BY DEF EnvelopeIn

(* A new answer leaves the command and the state of an envelope alone. *)
LEMMA OneAnswer ==
  ASSUME NEW V, NEW v \in EnvelopeIn(V), NEW a \in AnswerIn(V)
  PROVE  LET w == [v EXCEPT !.answer = a]
         IN w \in EnvelopeIn(V) /\ w.answer = a /\ w.command = v.command /\ w.state = v.state
BY DEF EnvelopeIn

(* An answer is given once: a caller keeps the one it has. *)
LEMMA AnswerChanges ==
  ASSUME NEW V, envelope \in Seq(EnvelopeIn(V)), NEW e \in 1..Len(envelope),
         NEW a \in AnswerIn(V), Answer(e, a)
  PROVE  /\ envelope' \in Seq(EnvelopeIn(V))
         /\ Len(envelope') = Len(envelope)
         /\ \A o \in 1..Len(envelope) :
              /\ envelope'[o].command = envelope[o].command
              /\ envelope'[o].state = envelope[o].state
              /\ \/ envelope'[o].answer = envelope[o].answer
                 \/ o = e /\ envelope'[o].answer = a
<1> DEFINE given == IF envelope[e].answer = Unanswered THEN a ELSE envelope[e].answer
           v == [envelope[e] EXCEPT !.answer = given]
<1>1. envelope[e] \in EnvelopeIn(V)
  OBVIOUS
<1>2. given \in AnswerIn(V)
  BY <1>1 DEF EnvelopeIn
<1>3. envelope' = [envelope EXCEPT ![e] = v]
  BY DEF Answer
<1>4. given = envelope[e].answer \/ given = a
  OBVIOUS
<1> HIDE DEF given
<1>5. /\ v \in EnvelopeIn(V) /\ v.answer = given
      /\ v.command = envelope[e].command /\ v.state = envelope[e].state
  BY <1>1, <1>2, OneAnswer
<1> HIDE DEF v
<1> QED
  BY <1>3, <1>4, <1>5, OneEnvelope

(* A run that ends with the answer a of its command c, and with receipts that
   say the same and leave settled commands alone. *)
LEMMA AnswerKeeps ==
  ASSUME Settling, Holding, NEW V, Shaped(V), 0 \in V,
         NEW a \in AnswerIn(V), Answer(worker.envelope, a), worker' = Idle,
         NEW c, c = current, Fits(c, a)',
         receipts' \in [Command -> ReceiptIn(V)], NoneIsNoReceipt',
         \A d \in Command : receipts'[d] = receipts[d] \/ receipts[d] = NoReceipt,
         UNCHANGED <<log, commandQueue>>
  PROVE  Settling'
<1> DEFINE e == worker.envelope
<1>1. e \in 1..Len(envelope)
  BY DEF Holding, Shaped
<1>2. /\ envelope' \in Seq(EnvelopeIn(V))
      /\ Len(envelope') = Len(envelope)
      /\ \A o \in 1..Len(envelope) :
           /\ envelope'[o].command = envelope[o].command
           /\ envelope'[o].state = envelope[o].state
           /\ \/ envelope'[o].answer = envelope[o].answer
              \/ o = e /\ envelope'[o].answer = a
  BY <1>1, AnswerChanges DEF Shaped
<1>3. worker' \in WorkerIn(V) /\ worker'.step = "idle"
  BY IdleShape
<1>4. Shaped(V)'
  BY <1>2, <1>3 DEF Shaped
<1>5. (\E U : Shaped(U))'
  BY <1>4
<1>6. Begun' /\ RejectionIsFirst' /\ CommitIsRecorded'
  BY <1>3 DEF Begun, Holding, RejectionIsFirst, CommitIsRecorded
<1>7. ASSUME NEW o \in 1..Len(envelope)
      PROVE  Fits(envelope[o].command, envelope[o].answer)'
  <2>1. CASE o = e /\ envelope'[o].answer = a
    BY <1>2, <2>1 DEF Fits, current
  <2>2. CASE envelope'[o].answer = envelope[o].answer
    <3>1. envelope[o].command \in Command
      <4>1. envelope[o] \in EnvelopeIn(V)
        BY DEF Shaped
      <4> QED
        BY <4>1 DEF EnvelopeIn
    <3>2. Fits(envelope[o].command, envelope[o].answer)
      BY DEF Settling, AnswersFit
    <3> QED
      BY <1>2, <2>2, <3>1, <3>2 DEF Fits, NoReceipt
  <2> QED
    BY <1>2, <2>1, <2>2
<1>8. AnswersFit'
  BY <1>2, <1>7 DEF AnswersFit
<1>9. LogIsBegun'
  <2>1. \A s \in 1..Len(log) : \E o \in 1..Len(envelope) :
          /\ envelope'[o].command = log[s].command
          /\ envelope'[o].state \in {"in-flight", "gone"}
    <3>1. \A o \in 1..Len(envelope) : /\ envelope'[o].command = envelope[o].command
                                     /\ envelope'[o].state = envelope[o].state
      BY <1>2
    <3> QED
      BY <3>1 DEF Settling, LogIsBegun
  <2>2. Len(envelope') = Len(envelope)
    BY <1>2
  <2> QED
    BY <2>1, <2>2 DEF LogIsBegun
<1> QED
  BY <1>5, <1>6, <1>8, <1>9 DEF Settling

(* The command under way is a known one. *)
LEMMA CurrentIsCommand ==
  ASSUME NEW V, Shaped(V), worker.step # "idle" PROVE current \in Command
<1>1. envelope[worker.envelope] \in EnvelopeIn(V)
  BY DEF Shaped
<1> QED
  BY <1>1 DEF EnvelopeIn, current

(* A stored outcome is answered as it is. *)
LEMMA ReceiptAnswerFits ==
  ASSUME Settling, NEW V, Shaped(V), 0 \in V, NEW c \in Command, receipts[c] # NoReceipt
  PROVE  ReceiptAnswer(c) \in AnswerIn(V) /\ Fits(c, ReceiptAnswer(c))
<1>1. receipts[c] \in ReceiptIn(V) /\ receipts[c].status # "none"
  BY DEF Shaped, Settling, NoneIsNoReceipt
<1>2. CASE receipts[c].status = "accepted"
  <2>1. ReceiptAnswer(c) = [kind |-> "accepted", sequence |-> receipts[c].sequence]
    BY <1>2 DEF ReceiptAnswer
  <2> QED
    BY <1>1, <1>2, <2>1 DEF ReceiptIn, AnswerIn, AnswerKinds, Fits
<1>3. CASE receipts[c].status = "rejected"
  <2>1. ReceiptAnswer(c) = [kind |-> "previously-rejected", sequence |-> 0]
    BY <1>3 DEF ReceiptAnswer, Failure
  <2> QED
    BY <1>3, <2>1 DEF AnswerIn, AnswerKinds, Fits
<1> QED
  BY <1>1, <1>2, <1>3 DEF ReceiptIn

(* Any other failure claims nothing. *)
LEMMA FailureFits ==
  ASSUME NEW V, 0 \in V, NEW c, NEW kind \in {"timeout", "internal", "rejected"}
  PROVE  Failure(kind) \in AnswerIn(V) /\ Fits(c, Failure(kind)) /\ Fits(c, Failure(kind))'
BY DEF Failure, AnswerIn, AnswerKinds, Fits

(* A retry of a settled command is answered by its receipt. *)
LEMMA ReplayReceiptKeeps ==
  ASSUME Settling, ReplayReceipt PROVE Settling'
<1>1. PICK V : Shaped(V) /\ 0 \in V
  BY RoomFor
<1>2. Holding /\ current \in Command /\ receipts[current] # NoReceipt
  BY <1>1, CurrentIsCommand DEF ReplayReceipt, Holding, Unsettled
<1> DEFINE c == current
           a == ReceiptAnswer(current)
<1>3. a \in AnswerIn(V) /\ Fits(c, a)
  BY <1>1, <1>2, ReceiptAnswerFits
<1>4. PICK d, b : d = c /\ b = a
  OBVIOUS
<1>5. Fits(d, b)' /\ receipts' = receipts /\ NoneIsNoReceipt'
  BY <1>3, <1>4 DEF Fits, ReplayReceipt, Settling, NoneIsNoReceipt
<1>6. receipts \in [Command -> ReceiptIn(V)]
  BY <1>1 DEF Shaped
<1>7. Answer(worker.envelope, b) /\ worker' = Idle /\ UNCHANGED <<log, commandQueue>>
  BY <1>4 DEF ReplayReceipt, pipeline
<1> QED
  BY <1>1, <1>2, <1>3, <1>4, <1>5, <1>6, <1>7, AnswerKeeps

(* A run that got to its end answers what it committed. *)
LEMMA SucceedKeeps ==
  ASSUME Settling, Succeed PROVE Settling'
<1>1. PICK V : Shaped(V) /\ 0 \in V
  BY RoomFor
<1> DEFINE a == [kind |-> "accepted", sequence |-> worker.last]
<1>2. Holding /\ a \in AnswerIn(V)
  BY <1>1 DEF Succeed, Holding, Shaped, WorkerIn, AnswerIn, AnswerKinds
<1>3. Fits(current, a)
  BY DEF Succeed, Settling, CommitIsRecorded, Fits
<1>4. PICK d, b : d = current /\ b = a
  OBVIOUS
<1>5. Fits(d, b)' /\ receipts' = receipts /\ NoneIsNoReceipt'
  BY <1>3, <1>4 DEF Fits, Succeed, Settling, NoneIsNoReceipt
<1>6. receipts \in [Command -> ReceiptIn(V)]
  BY <1>1 DEF Shaped
<1>7. Answer(worker.envelope, b) /\ worker' = Idle /\ UNCHANGED <<log, commandQueue>>
  BY <1>4 DEF Succeed, pipeline
<1> QED
  BY <1>1, <1>2, <1>4, <1>5, <1>6, <1>7, AnswerKeeps

(* A run that was cut off is answered by the receipt, or with its failure. *)
LEMMA ResolveStoredOutcomeKeeps ==
  ASSUME Settling, ResolveStoredOutcome PROVE Settling'
<1>1. PICK V : Shaped(V) /\ 0 \in V
  BY RoomFor
<1>2. Holding /\ current \in Command
  BY <1>1, CurrentIsCommand DEF ResolveStoredOutcome, Holding
<1>3. PICK d : d = current
  OBVIOUS
<1>4. PICK b \in AnswerIn(V) : Answer(worker.envelope, b) /\ Fits(d, b)
  <2>1. CASE ~Unsettled /\ Answer(worker.envelope, ReceiptAnswer(current))
    BY <1>1, <1>2, <1>3, <2>1, ReceiptAnswerFits DEF Unsettled
  <2>2. CASE Answer(worker.envelope,
                    Failure(IF worker.error = "timeout" THEN "timeout" ELSE "internal"))
    <3> DEFINE kind == IF worker.error = "timeout" THEN "timeout" ELSE "internal"
    <3>1. kind \in {"timeout", "internal", "rejected"}
      OBVIOUS
    <3> HIDE DEF kind
    <3>2. Failure(kind) \in AnswerIn(V) /\ Fits(d, Failure(kind))
      BY <1>1, <3>1, FailureFits
    <3> QED
      BY <2>2, <3>2 DEF kind
  <2> QED
    BY <2>1, <2>2 DEF ResolveStoredOutcome
<1>5. Fits(d, b)' /\ receipts' = receipts /\ NoneIsNoReceipt'
  BY <1>4 DEF Fits, ResolveStoredOutcome, Settling, NoneIsNoReceipt
<1>6. receipts \in [Command -> ReceiptIn(V)]
  BY <1>1 DEF Shaped
<1>7. worker' = Idle /\ UNCHANGED <<log, commandQueue>>
  BY DEF ResolveStoredOutcome, pipeline
<1> QED
  BY <1>1, <1>2, <1>3, <1>4, <1>5, <1>6, <1>7, AnswerKeeps

(* The rejection is recorded where no receipt was, and nowhere else. *)
LEMMA ResolveFailureSettles ==
  ASSUME Settling, NEW V, Shaped(V), 0 \in V, commandReadModel.snapshotSequence \in V,
         ResolveFailure
  PROVE  /\ receipts' \in [Command -> ReceiptIn(V)]
         /\ NoneIsNoReceipt'
         /\ \A d \in Command : receipts'[d] = receipts[d] \/ receipts[d] = NoReceipt
<1>1. CASE receipts' = receipts
  BY <1>1 DEF Settling, NoneIsNoReceipt, Shaped
<1>2. CASE worker.error = "invariant" /\
           receipts' = [receipts EXCEPT
             ![current] = [status |-> "rejected",
                           sequence |-> commandReadModel.snapshotSequence]]
  <2> DEFINE r == [status |-> "rejected", sequence |-> commandReadModel.snapshotSequence]
  <2>1. r \in ReceiptIn(V) /\ r.status = "rejected"
    BY DEF ReceiptIn
  <2>2. receipts[current] = NoReceipt
    BY <1>2 DEF ResolveFailure, Settling, RejectionIsFirst, Unsettled
  <2>3. receipts' = [receipts EXCEPT ![current] = r]
    BY <1>2
  <2> HIDE DEF r
  <2>4. receipts \in [Command -> ReceiptIn(V)]
    BY DEF Shaped
  <2>5. receipts' \in [Command -> ReceiptIn(V)]
    BY <2>1, <2>3, <2>4
  <2>6. \A d \in Command : receipts'[d] = receipts[d] \/ (d = current /\ receipts'[d] = r)
    BY <2>3, <2>4
  <2> QED
    BY <2>1, <2>2, <2>5, <2>6 DEF Settling, NoneIsNoReceipt
<1> QED
  BY <1>1, <1>2 DEF ResolveFailure

(* A rejection is answered, recorded or not. *)
LEMMA ResolveFailureKeeps ==
  ASSUME Settling, ResolveFailure PROVE Settling'
<1>1. PICK V : Shaped(V) /\ 0 \in V /\ commandReadModel.snapshotSequence \in V
  BY RoomFor
<1>2. Holding
  BY DEF ResolveFailure, Holding
<1>3. PICK d : d = current
  OBVIOUS
<1>4. PICK kind \in {"timeout", "internal", "rejected"} :
        Answer(worker.envelope, Failure(kind))
  <2> DEFINE k == IF worker.error = "invariant" THEN "rejected" ELSE "internal"
  <2>1. k \in {"timeout", "internal", "rejected"} /\ Answer(worker.envelope, Failure(k))
    BY DEF ResolveFailure
  <2> HIDE DEF k
  <2> QED
    BY <2>1
<1>5. worker' = Idle /\ UNCHANGED <<log, commandQueue>>
  BY DEF ResolveFailure, pipeline
<1>6. Failure(kind) \in AnswerIn(V) /\ Fits(d, Failure(kind))'
  BY <1>1, FailureFits
<1>7. /\ receipts' \in [Command -> ReceiptIn(V)]
      /\ NoneIsNoReceipt'
      /\ \A o \in Command : receipts'[o] = receipts[o] \/ receipts[o] = NoReceipt
  BY <1>1, ResolveFailureSettles
<1> QED
  BY <1>1, <1>2, <1>3, <1>4, <1>5, <1>6, <1>7, AnswerKeeps

-----------------------------------------------------------------------------
(* Steps that let a run begin or end *)

(* The commands of the envelopes do not change, nor does the run. *)
LEMMA RunKeeps ==
  ASSUME Settling, NEW V, Shaped(V), UNCHANGED <<worker, receipts>>,
         \A o \in 1..Len(envelope) : envelope'[o].command = envelope[o].command
  PROVE  RejectionIsFirst' /\ CommitIsRecorded'
<1>1. worker.step # "idle" => current' = current
  BY DEF Shaped, current
<1> QED
  BY <1>1 DEF Settling, RejectionIsFirst, CommitIsRecorded, Unsettled

(* A new envelope waits, and claims nothing. *)
LEMMA DispatchKeeps ==
  ASSUME Settling, NEW c \in Command, Dispatch(c) PROVE Settling'
<1>1. PICK V : Shaped(V) /\ 0 \in V
  BY RoomFor
<1> DEFINE v == [command |-> c, state |-> "queued", answer |-> Unanswered]
           n == Len(envelope) + 1
<1>2. v \in EnvelopeIn(V) /\ v.answer.kind = "none"
  BY <1>1 DEF EnvelopeIn, States, AnswerIn, AnswerKinds, Unanswered
<1>3. envelope \in Seq(EnvelopeIn(V)) /\ envelope' = Append(envelope, v)
  BY <1>1 DEF Dispatch, Shaped
<1>4. /\ commandQueue \in Seq(1..Len(envelope))
      /\ commandQueue' = Append(commandQueue, Len(envelope'))
      /\ UNCHANGED <<receipts, worker, log>>
  BY <1>1 DEF Dispatch, Shaped, pipeline
<1> HIDE DEF v
<1>5. /\ envelope' \in Seq(EnvelopeIn(V)) /\ Len(envelope') = n
      /\ \A o \in 1..Len(envelope) : envelope'[o] = envelope[o]
      /\ envelope'[n] = v /\ Len(envelope) \in Nat
  BY <1>2, <1>3
<1>6. commandQueue' \in Seq(1..n)
  <2>1. commandQueue \in Seq(1..n)
    BY <1>4, <1>5, SequencesWiden
  <2> QED
    BY <1>4, <1>5, <2>1
<1>7. Shaped(V)'
  BY <1>1, <1>4, <1>5, <1>6 DEF Shaped
<1>8. (\E U : Shaped(U))'
  BY <1>7
<1>9. Begun' /\ RejectionIsFirst' /\ CommitIsRecorded'
  BY <1>1, <1>4, <1>5, RunKeeps DEF Settling, Begun, Holding, Shaped
<1>10. AnswersFit'
  <2> SUFFICES ASSUME NEW o \in 1..n
               PROVE  Fits(envelope[o].command, envelope[o].answer)'
    BY <1>5 DEF AnswersFit
  <2>1. CASE o = n
    BY <1>2, <1>5, <2>1 DEF Fits
  <2>2. CASE o # n
    <3>1. o \in 1..Len(envelope) /\ envelope'[o] = envelope[o]
      BY <1>5, <2>2
    <3>2. Fits(envelope[o].command, envelope[o].answer)
      BY <3>1 DEF Settling, AnswersFit
    <3> QED
      BY <1>4, <3>1, <3>2 DEF Fits
  <2> QED
    BY <2>1, <2>2
<1>11. NoneIsNoReceipt'
  BY <1>4 DEF Settling, NoneIsNoReceipt
<1>12. LogIsBegun'
  <2> SUFFICES ASSUME NEW s \in 1..Len(log)
               PROVE  \E o \in 1..n : /\ envelope'[o].command = log[s].command
                                     /\ envelope'[o].state \in {"in-flight", "gone"}
    BY <1>4, <1>5 DEF LogIsBegun
  <2>1. PICK o \in 1..Len(envelope) : /\ envelope[o].command = log[s].command
                                      /\ envelope[o].state \in {"in-flight", "gone"}
    BY DEF Settling, LogIsBegun
  <2>2. o \in 1..n /\ envelope'[o] = envelope[o]
    BY <1>5
  <2> QED
    BY <2>1, <2>2
<1> QED
  BY <1>8, <1>9, <1>10, <1>11, <1>12 DEF Settling

(* Only an envelope that waits is given up, so no run and no event is of it. *)
LEMMA DispatchTimeoutKeeps ==
  ASSUME Settling, NEW e \in DOMAIN envelope, DispatchTimeout(e) PROVE Settling'
<1>1. PICK V : Shaped(V) /\ 0 \in V
  BY RoomFor
<1>2. /\ envelope \in Seq(EnvelopeIn(V)) /\ e \in 1..Len(envelope)
      /\ envelope[e] \in EnvelopeIn(V)
  BY <1>1 DEF Shaped
<1>3. /\ UNCHANGED <<receipts, worker, log, commandQueue>>
      /\ envelope[e].state = "queued"
  BY DEF DispatchTimeout, pipeline, engine
<1> DEFINE v == [envelope[e] EXCEPT !.state = "abandoned", !.answer = Failure("timeout")]
<1>4. /\ v \in EnvelopeIn(V) /\ v.command = envelope[e].command
      /\ v.answer = Failure("timeout")
  BY <1>1, <1>2, FailureFits DEF EnvelopeIn, States
<1>5. envelope' = [envelope EXCEPT ![e] = v]
  BY DEF DispatchTimeout
<1> HIDE DEF v
<1>6. /\ envelope' \in Seq(EnvelopeIn(V)) /\ Len(envelope') = Len(envelope)
      /\ \A o \in 1..Len(envelope) : envelope'[o] = IF o = e THEN v ELSE envelope[o]
  BY <1>2, <1>4, <1>5, OneEnvelope
<1>7. Shaped(V)'
  BY <1>1, <1>3, <1>6 DEF Shaped
<1>8. (\E U : Shaped(U))'
  BY <1>7
<1>9. RejectionIsFirst' /\ CommitIsRecorded'
  BY <1>1, <1>3, <1>4, <1>6, RunKeeps
<1>10. Begun'
  BY <1>1, <1>3, <1>6 DEF Settling, Begun, Holding, Shaped
<1>11. AnswersFit'
  <2> SUFFICES ASSUME NEW o \in 1..Len(envelope)
               PROVE  Fits(envelope[o].command, envelope[o].answer)'
    BY <1>6 DEF AnswersFit
  <2>1. CASE o = e
    BY <1>1, <1>4, <1>6, <2>1 DEF Failure, Fits
  <2>2. CASE o # e
    <3>1. Fits(envelope[o].command, envelope[o].answer)
      BY DEF Settling, AnswersFit
    <3> QED
      BY <1>3, <1>6, <2>2, <3>1 DEF Fits
  <2> QED
    BY <2>1, <2>2
<1>12. NoneIsNoReceipt' /\ LogIsBegun'
  <2>1. \A o \in 1..Len(envelope) :
          envelope[o].state \in {"in-flight", "gone"} => envelope'[o] = envelope[o]
    BY <1>3, <1>6
  <2> QED
    BY <1>3, <1>6, <2>1 DEF Settling, NoneIsNoReceipt, LogIsBegun
<1> QED
  BY <1>8, <1>9, <1>10, <1>11, <1>12 DEF Settling

(* Only envelopes that were dispatched are taken. *)
LEMMA TakeEnvelopeKeeps ==
  ASSUME Settling, TakeEnvelope PROVE Settling'
<1>1. PICK W : Shaped(W) /\ 0 \in W /\ commandReadModel.snapshotSequence \in W
  BY RoomFor
<1> DEFINE e == Head(commandQueue)
           s == commandReadModel.snapshotSequence
<1>2. PICK V : Shaped(V) /\ 0 \in V /\ s \in V /\ e \in V
  <2>1. Shaped(W \cup {e})
    BY <1>1, ShapedWidens
  <2> QED
    BY <1>1, <2>1
<1>3. e \in 1..Len(envelope) /\ Tail(commandQueue) \in Seq(1..Len(envelope))
  BY <1>2 DEF Shaped, TakeEnvelope
<1>4. /\ worker' = [Idle EXCEPT !.step = "waiting", !.envelope = e, !.start = s]
      /\ commandQueue' = Tail(commandQueue)
      /\ UNCHANGED <<receipts, envelope, log>>
  BY DEF TakeEnvelope, pipeline
<1> HIDE DEF e, s
<1>5. worker' = [step |-> "waiting", envelope |-> e, start |-> s, first |-> 0, last |-> 0,
                 next |-> 0, error |-> "none"]
  BY <1>4 DEF Idle
<1>6. worker' \in WorkerIn(V)
  BY <1>2, <1>3, <1>5 DEF WorkerIn, Steps, Errors
<1>7. Shaped(V)'
  BY <1>2, <1>3, <1>4, <1>5, <1>6 DEF Shaped
<1>8. (\E U : Shaped(U))'
  BY <1>7
<1>9. Begun' /\ RejectionIsFirst' /\ CommitIsRecorded'
  BY <1>5 DEF Begun, Holding, RejectionIsFirst, CommitIsRecorded
<1>10. NoneIsNoReceipt' /\ AnswersFit' /\ LogIsBegun'
  BY <1>4 DEF Settling, NoneIsNoReceipt, AnswersFit, Fits, LogIsBegun
<1> QED
  BY <1>8, <1>9, <1>10 DEF Settling

(* From here on the caller cannot give the envelope up. *)
LEMMA BeginKeeps ==
  ASSUME Settling, Begin PROVE Settling'
<1>1. PICK V : Shaped(V)
  BY DEF Settling
<1> DEFINE e == worker.envelope
<1>2. /\ envelope \in Seq(EnvelopeIn(V)) /\ e \in 1..Len(envelope)
      /\ envelope[e] \in EnvelopeIn(V)
  BY <1>1 DEF Begin, Shaped
<1>3. /\ worker' \in WorkerIn(V)
      /\ worker'.step = "running" /\ worker'.envelope = e
  BY <1>1, AtMoves DEF Begin, Shaped, Steps
<1> DEFINE v == [envelope[e] EXCEPT !.state = "in-flight"]
<1>4. /\ v \in EnvelopeIn(V) /\ v.state = "in-flight"
      /\ v.command = envelope[e].command /\ v.answer = envelope[e].answer
  <2>1. envelope[e] \in EnvelopeIn(V) /\ "in-flight" \in States
    BY <1>2 DEF States
  <2> QED
    BY <2>1, OneState
<1>5. /\ envelope' = [envelope EXCEPT ![e] = v]
      /\ UNCHANGED <<receipts, log, commandQueue>>
  BY DEF Begin, pipeline
<1> HIDE DEF v, e
<1>6. /\ envelope' \in Seq(EnvelopeIn(V)) /\ Len(envelope') = Len(envelope)
      /\ \A o \in 1..Len(envelope) : envelope'[o] = IF o = e THEN v ELSE envelope[o]
  BY <1>2, <1>4, <1>5, OneEnvelope
<1>7. Shaped(V)'
  BY <1>1, <1>2, <1>3, <1>5, <1>6 DEF Shaped
<1>8. (\E U : Shaped(U))'
  BY <1>7
<1>9. Begun' /\ RejectionIsFirst' /\ CommitIsRecorded'
  BY <1>2, <1>3, <1>4, <1>6 DEF Begun, RejectionIsFirst, CommitIsRecorded
<1>10. AnswersFit' /\ NoneIsNoReceipt'
  BY <1>4, <1>5, <1>6 DEF Settling, AnswersFit, Fits, NoneIsNoReceipt
<1>11. LogIsBegun'
  <2>1. \A o \in 1..Len(envelope) :
          /\ envelope'[o].command = envelope[o].command
          /\ envelope[o].state \in {"in-flight", "gone"} =>
               envelope'[o].state \in {"in-flight", "gone"}
    BY <1>4, <1>6
  <2> QED
    BY <1>5, <1>6, <2>1 DEF Settling, LogIsBegun
<1> QED
  BY <1>8, <1>9, <1>10, <1>11 DEF Settling

(* The elements of two sequences put together. *)
LEMMA Appending ==
  ASSUME NEW S, NEW old \in Seq(S), NEW new \in Seq(S)
  PROVE  /\ old \o new \in Seq(S)
         /\ Len(old \o new) = Len(old) + Len(new)
         /\ \A s \in 1..Len(old \o new) :
              (old \o new)[s] = IF s <= Len(old) THEN old[s] ELSE new[s - Len(old)]
OBVIOUS

(* The events of a commit are of the command under way. *)
LEMMA CommitAppends ==
  ASSUME NEW V, NEW c, log \in Seq(EventIn(V)), NEW events \in Seq(EventIn(V)),
         \A i \in 1..Len(events) : events[i].command = c,
         log' = log \o events
  PROVE  /\ log' \in Seq(EventIn(V))
         /\ Len(log') = Len(log) + Len(events)
         /\ \A s \in 1..Len(log) : log'[s] = log[s]
         /\ \A s \in 1..Len(log') : s > Len(log) => log'[s].command = c
<1>1. /\ log' \in Seq(EventIn(V))
      /\ Len(log') = Len(log) + Len(events)
      /\ \A s \in 1..Len(log') :
           log'[s] = IF s <= Len(log) THEN log[s] ELSE events[s - Len(log)]
  BY Appending
<1>2. ASSUME NEW s \in 1..Len(log'), s > Len(log)
      PROVE  s - Len(log) \in 1..Len(events) /\ ~(s <= Len(log))
  BY <1>1, <1>2
<1> QED
  BY <1>1, <1>2

(* The transaction settles a command that has no receipt, whose answers hence
   claim none. *)
LEMMA CommitKeeps ==
  ASSUME Settling, NEW decision \in Decision, NEW aggregate \in Aggregate,
         Commit(decision, aggregate)
  PROVE  Settling'
<1> DEFINE first == Len(log) + 1
           last == Len(log) + Len(decision)
           e == worker.envelope
<1>1. decision \in Seq(EventType)
  BY DecisionAssumption
<1>2. PICK V : /\ Shaped(V) /\ 0 \in V
               /\ decision \in Seq(V) /\ aggregate \in V /\ first \in V /\ last \in V
  <2>1. PICK W : Shaped(W) /\ 0 \in W
    BY RoomFor
  <2> DEFINE U == W \cup EventType \cup {aggregate, first, last}
  <2>2. Shaped(U)
    BY <2>1, ShapedWidens
  <2>3. decision \in Seq(U)
    BY <1>1, SequencesWiden
  <2> QED
    BY <2>1, <2>2, <2>3
<1>3. PICK c \in Command : c = current
  BY <1>2, CurrentIsCommand DEF Commit
<1>4. /\ log \in Seq(EventIn(V)) /\ receipts \in [Command -> ReceiptIn(V)]
      /\ worker \in WorkerIn(V) /\ e \in 1..Len(envelope) /\ e \in V
  BY <1>2 DEF Shaped, Commit, WorkerIn
<1>5. log' = log \o [i \in 1..Len(decision) |->
                       [type |-> decision[i], aggregate |-> aggregate, command |-> c]]
  BY <1>3 DEF Commit, CommitEvents
<1>6. /\ log' \in Seq(EventIn(V))
      /\ Len(log') = last
      /\ \A s \in 1..Len(log) : log'[s] = log[s]
      /\ \A s \in 1..Len(log') : s > Len(log) => log'[s].command = c
  <2> DEFINE events == [i \in 1..Len(decision) |->
                         [type |-> decision[i], aggregate |-> aggregate, command |-> c]]
  <2>1. \A i \in 1..Len(decision) : events[i] \in EventIn(V) /\ events[i].command = c
    BY <1>2 DEF EventIn
  <2>2. Len(decision) \in Nat
    BY <1>2
  <2>3. events \in Seq(EventIn(V)) /\ Len(events) = Len(decision)
    BY <2>1, <2>2
  <2>4. log' = log \o events
    BY <1>5
  <2> HIDE DEF events
  <2>5. /\ log' \in Seq(EventIn(V))
        /\ Len(log') = Len(log) + Len(events)
        /\ \A s \in 1..Len(log) : log'[s] = log[s]
        /\ \A s \in 1..Len(log') : s > Len(log) => log'[s].command = c
    BY <1>4, <2>1, <2>3, <2>4, CommitAppends
  <2> QED
    BY <2>3, <2>5
<1> DEFINE r == [status |-> "accepted", sequence |-> last]
<1>7. receipts' = [receipts EXCEPT ![c] = r]
  BY <1>3, <1>6 DEF Commit
<1>8. r \in ReceiptIn(V) /\ r.status = "accepted"
  BY <1>2 DEF ReceiptIn
<1>9. worker' = [worker EXCEPT !.step = "committed", !.first = first, !.next = first,
                               !.last = last]
  BY <1>6 DEF Commit
<1>10. UNCHANGED <<envelope, commandQueue>> /\ Holding /\ receipts[c] = NoReceipt
  BY <1>3 DEF Commit, Holding, Unsettled
<1>11. /\ receipts' \in [Command -> ReceiptIn(V)] /\ receipts'[c] = r
       /\ \A d \in Command : d # c => receipts'[d] = receipts[d]
  <2> HIDE DEF r
  <2> QED
    BY <1>4, <1>7, <1>8
<1>12. /\ worker' \in WorkerIn(V)
       /\ worker'.step = "committed" /\ worker'.envelope = e /\ worker'.last = last
  <2> HIDE DEF first, last, e
  <2> QED
    BY <1>2, <1>4, <1>9 DEF WorkerIn, Steps, e
<1>13. Shaped(V)'
  BY <1>2, <1>4, <1>6, <1>10, <1>11, <1>12 DEF Shaped
<1>14. (\E U : Shaped(U))'
  BY <1>13
<1>15. Begun'
  BY <1>10, <1>12 DEF Settling, Begun, Holding
<1>16. RejectionIsFirst' /\ CommitIsRecorded'
  BY <1>3, <1>10, <1>11, <1>12 DEF RejectionIsFirst, CommitIsRecorded, current
<1>17. NoneIsNoReceipt'
  BY <1>8, <1>11 DEF Settling, NoneIsNoReceipt
<1>18. AnswersFit'
  <2> SUFFICES ASSUME NEW o \in 1..Len(envelope)
               PROVE  Fits(envelope[o].command, envelope[o].answer)'
    BY <1>10 DEF AnswersFit
  <2>1. Fits(envelope[o].command, envelope[o].answer)
    BY DEF Settling, AnswersFit
  <2>2. envelope[o].command \in Command
    <3>1. envelope[o] \in EnvelopeIn(V)
      BY <1>2 DEF Shaped
    <3> QED
      BY <3>1 DEF EnvelopeIn
  <2>3. CASE envelope[o].command = c
    BY <1>10, <2>1, <2>3 DEF Fits, NoReceipt
  <2>4. CASE envelope[o].command # c
    BY <1>10, <1>11, <2>1, <2>2, <2>4 DEF Fits
  <2> QED
    BY <2>3, <2>4
<1>19. LogIsBegun'
  <2> SUFFICES ASSUME NEW s \in 1..Len(log')
               PROVE  \E o \in 1..Len(envelope) :
                        /\ envelope[o].command = log'[s].command
                        /\ envelope[o].state \in {"in-flight", "gone"}
    BY <1>10 DEF LogIsBegun
  <2>1. CASE s > Len(log)
    <3>1. envelope[e].command = log'[s].command
      BY <1>3, <1>6, <2>1 DEF current
    <3>2. envelope[e].state = "in-flight"
      BY <1>10 DEF Settling, Begun
    <3> QED
      BY <1>4, <3>1, <3>2
  <2>2. CASE ~(s > Len(log))
    <3>1. s \in 1..Len(log)
      BY <1>4, <1>6, <2>2
    <3> QED
      BY <1>6, <3>1 DEF Settling, LogIsBegun
  <2> QED
    BY <2>1, <2>2
<1> QED
  BY <1>14, <1>15, <1>16, <1>17, <1>18, <1>19 DEF Settling

-----------------------------------------------------------------------------
(* The process and the maintenance *)

(* A crash loses the run, the queue and the callers, but no begun command is
   taken for one that was not. *)
LEMMA CrashKeeps ==
  ASSUME Settling, Crash PROVE Settling'
<1>1. PICK V : Shaped(V) /\ 0 \in V
  BY RoomFor
<1>2. /\ worker' = Idle /\ commandQueue' = << >>
      /\ UNCHANGED <<log, receipts>>
  BY DEF Crash, pipeline
<1>3. envelope \in Seq(EnvelopeIn(V))
  BY <1>1 DEF Shaped
<1> DEFINE after(o) == IF envelope[o].answer = Unanswered
                         THEN [envelope[o] EXCEPT !.state = "gone"] ELSE envelope[o]
<1>4. envelope' = [o \in 1..Len(envelope) |-> after(o)]
  BY <1>3 DEF Crash
<1>5. ASSUME NEW o \in 1..Len(envelope)
      PROVE  /\ after(o) \in EnvelopeIn(V)
             /\ after(o).command = envelope[o].command
             /\ after(o).answer = envelope[o].answer
             /\ after(o).state \in {"gone", envelope[o].state}
  <2>1. envelope[o] \in EnvelopeIn(V)
    BY <1>3
  <2> DEFINE w == [envelope[o] EXCEPT !.state = "gone"]
  <2>2. /\ w \in EnvelopeIn(V) /\ w.state = "gone"
        /\ w.command = envelope[o].command /\ w.answer = envelope[o].answer
    BY <2>1, OneState DEF States
  <2>3. after(o) \in {w, envelope[o]}
    OBVIOUS
  <2> HIDE DEF w, after
  <2> QED
    BY <2>1, <2>2, <2>3
<1> HIDE DEF after
<1>6. /\ envelope' \in Seq(EnvelopeIn(V)) /\ Len(envelope') = Len(envelope)
      /\ \A o \in 1..Len(envelope) :
           /\ envelope'[o].command = envelope[o].command
           /\ envelope'[o].answer = envelope[o].answer
           /\ envelope'[o].state \in {"gone", envelope[o].state}
  BY <1>3, <1>4, <1>5
<1>7. worker' \in WorkerIn(V) /\ worker'.step = "idle"
  BY <1>1, <1>2, IdleShape
<1>8. Shaped(V)'
  BY <1>1, <1>2, <1>6, <1>7 DEF Shaped
<1>9. (\E U : Shaped(U))'
  BY <1>8
<1>10. Begun' /\ RejectionIsFirst' /\ CommitIsRecorded'
  BY <1>7 DEF Begun, Holding, RejectionIsFirst, CommitIsRecorded
<1>11. AnswersFit' /\ NoneIsNoReceipt'
  BY <1>2, <1>6 DEF Settling, AnswersFit, Fits, NoneIsNoReceipt
<1>12. LogIsBegun'
  BY <1>2, <1>6 DEF Settling, LogIsBegun
<1> QED
  BY <1>9, <1>10, <1>11, <1>12 DEF Settling

(* Projections are made of the log and leave it alone. *)
LEMMA MaintenanceKeeps ==
  ASSUME Settling,
         \/ CatchUp \/ RefreshCommandReadModel \/ BeginRepair \/ Repair
         \/ Start \/ StartFails \/ UNCHANGED vars
  PROVE  Settling'
<1>1. CASE CatchUp
  BY <1>1, Quiet DEF CatchUp, Bootstrap, BootstrapFails, Becomes
<1>2. CASE RefreshCommandReadModel
  BY <1>2, Quiet DEF RefreshCommandReadModel, pipeline
<1>3. CASE BeginRepair
  BY <1>3, Quiet DEF BeginRepair, ResetDerivedProjectionState, Becomes
<1>4. CASE Repair
  BY <1>4, Quiet DEF Repair, RepairSucceeds, RepairFails, Bootstrap, Becomes
<1>5. CASE Start
  BY <1>5, Quiet DEF Start, Bootstrap, Becomes
<1>6. CASE StartFails
  BY <1>6, Quiet DEF StartFails, Bootstrap, BootstrapFails, Becomes, engine
<1>7. CASE UNCHANGED vars
  BY <1>7, Quiet DEF vars, pipeline, engine
<1> QED
  BY <1>1, <1>2, <1>3, <1>4, <1>5, <1>6, <1>7

-----------------------------------------------------------------------------
(* The specification *)

(* Nothing has been dispatched at first. *)
LEMMA SettlingInit == EngineInit => Settling
<1> SUFFICES ASSUME EngineInit PROVE Settling
  OBVIOUS
<1>1. /\ worker = Idle /\ worker.step = "idle"
      /\ receipts = [c \in Command |-> NoReceipt]
      /\ envelope = << >> /\ commandQueue = << >> /\ log = << >>
  BY DEF EngineInit, PipelineInit, Idle
<1>2. worker \in WorkerIn({0})
  BY <1>1, IdleShape
<1>3. receipts \in [Command -> ReceiptIn({0})]
  BY <1>1 DEF NoReceipt, ReceiptIn
<1>4. Shaped({0})
  BY <1>1, <1>2, <1>3 DEF Shaped
<1>5. Begun /\ RejectionIsFirst /\ CommitIsRecorded
  BY <1>1 DEF Begun, Holding, RejectionIsFirst, CommitIsRecorded
<1>6. NoneIsNoReceipt /\ AnswersFit /\ LogIsBegun
  BY <1>1 DEF NoneIsNoReceipt, AnswersFit, LogIsBegun
<1> QED
  BY <1>4, <1>5, <1>6 DEF Settling

(* Every step keeps the invariant. *)
LEMMA SettlingStep == Settling /\ [EngineNext]_vars => Settling'
<1> SUFFICES ASSUME Settling, [EngineNext]_vars PROVE Settling'
  OBVIOUS
<1>1. CASE \E c \in Command : Dispatch(c)
  BY <1>1, DispatchKeeps
<1>2. CASE \E e \in DOMAIN envelope : DispatchTimeout(e)
  BY <1>2, DispatchTimeoutKeeps
<1>3. CASE Worker
  <2>1. CASE TakeEnvelope \/ SkipAbandoned \/ Begin
    BY <2>1, TakeEnvelopeKeeps, SkipAbandonedKeeps, BeginKeeps
  <2>2. CASE ReplayReceipt \/ Succeed \/ ResolveStoredOutcome \/ ResolveFailure
    BY <2>2, ReplayReceiptKeeps, SucceedKeeps, ResolveStoredOutcomeKeeps,
       ResolveFailureKeeps
  <2>3. CASE Reject \/ RunFails \/ RunTimeout
    BY <2>3, FailuresKeep
  <2>4. CASE \E decision \in Decision, aggregate \in Aggregate :
               Commit(decision, aggregate)
    BY <2>4, CommitKeeps
  <2>5. CASE \/ SetCommandReadModel \/ ProjectCommittedEvent \/ Publish
             \/ Reconcile \/ ReconcileFails
    BY <2>5, RunsOn
  <2> QED
    BY <1>3, <2>1, <2>2, <2>3, <2>4, <2>5 DEF Worker
<1>4. CASE \/ CatchUp \/ RefreshCommandReadModel \/ BeginRepair \/ Repair
           \/ Start \/ StartFails \/ UNCHANGED vars
  BY <1>4, MaintenanceKeeps
<1>5. CASE Crash
  BY <1>5, CrashKeeps
<1> QED
  BY <1>1, <1>2, <1>3, <1>4, <1>5 DEF EngineNext

(* The invariant: what runs have looked up and committed, what receipts say,
   and what callers were told agree in every state. *)
THEOREM SettlingIsInvariant == EngineSpec => []Settling
BY SettlingInit, SettlingStep, PTL DEF EngineSpec

(* An accepted answer names the receipt of its command and a stored rejection
   is one, whatever happened between the commit and the answer; and a command
   given up by all its callers before the worker began is not in the log
   (commandProcessor.ts, dispatch and processEnvelope). *)
THEOREM CallersAreToldTheTruth == EngineSpec => []AnswersAreTrue
<1>1. Settling => AnswersAreTrue
  BY SettlingMeans
<1> QED
  BY <1>1, SettlingIsInvariant, PTL

(* Neither a retry nor a late rejection rewrites the receipt of a command
   (commandProcessor.ts, the lookup before the decision and the upsert of a
   rejected receipt). *)
THEOREM SettledForGood == EngineSpec => ReceiptsAreFinal
<1>1. Settling /\ [EngineNext]_vars =>
        [\A c \in Command : receipts[c] # NoReceipt => receipts'[c] = receipts[c]]_vars
  <2> SUFFICES ASSUME Settling, [EngineNext]_vars, NEW c \in Command,
                      receipts[c] # NoReceipt
               PROVE  receipts'[c] = receipts[c]
    OBVIOUS
  <2>1. CASE \E decision \in Decision, aggregate \in Aggregate :
               Commit(decision, aggregate)
    <3>1. receipts[current] = NoReceipt
      BY <2>1 DEF Commit, Unsettled
    <3>2. PICK V : Shaped(V)
      BY DEF Settling
    <3> QED
      BY <2>1, <3>1, <3>2 DEF Commit, Shaped
  <2>2. CASE ResolveFailure
    <3>1. PICK V : Shaped(V) /\ 0 \in V /\ commandReadModel.snapshotSequence \in V
      BY RoomFor
    <3> QED
      BY <2>2, <3>1, ResolveFailureSettles
  <2>3. CASE UNCHANGED receipts
    BY <2>3
  <2> QED
    BY <2>1, <2>2, <2>3 DEF EngineNext, Worker, Repair, Dispatch, DispatchTimeout,
       TakeEnvelope, SkipAbandoned, Begin, ReplayReceipt, Reject, RunFails,
       SetCommandReadModel, ProjectCommittedEvent, Publish, Succeed, RunTimeout,
       Reconcile, ReconcileFails, ResolveStoredOutcome, CatchUp,
       RefreshCommandReadModel, BeginRepair, RepairSucceeds, RepairFails, Crash,
       Start, StartFails, vars
<1> QED
  BY <1>1, SettlingIsInvariant, PTL DEF EngineSpec, ReceiptsAreFinal

-----------------------------------------------------------------------------
(* Receipts and the log *)

(* The events f to l are those of c, and answer it with the decision d. *)
Answered(c, f, l, d) ==
  /\ f \in 1..Len(log) /\ l \in 1..Len(log) /\ l = f + Len(d) - 1
  /\ \A s \in 1..Len(log) : log[s].command = c <=> f <= s /\ s <= l
  /\ \A i \in 1..Len(d) : log[f + i - 1].type = d[i]

(* An accepted command is in the log in one piece, at whose end its receipt
   stands; any other is not in it. *)
Recorded ==
  \A c \in Command :
    IF receipts[c].status = "accepted"
      THEN \E f, l \in 1..Len(log) : \E d \in Decision :
             Answered(c, f, l, d) /\ receipts[c].sequence = l
      ELSE \A s \in 1..Len(log) : log[s].command # c

(* The ends of an interval. *)
LEMMA Ends ==
  ASSUME NEW f \in Int, NEW l \in Int, f <= l
  PROVE  Min(f..l) = f /\ Max(f..l) = l /\ f..l # {} /\ Cardinality(f..l) = l - f + 1
<1>1. f \in f..l /\ l \in f..l
  OBVIOUS
<1>2. Min(f..l) = f
  <2>1. \A y \in f..l : f <= y
    OBVIOUS
  <2>2. \A x \in f..l : (\A y \in f..l : x <= y) => x = f
    BY <1>1
  <2> QED
    BY <1>1, <2>1, <2>2 DEF Min
<1>3. Max(f..l) = l
  <2>1. \A y \in f..l : l >= y
    OBVIOUS
  <2>2. \A x \in f..l : (\A y \in f..l : x >= y) => x = l
    BY <1>1
  <2> QED
    BY <1>1, <2>1, <2>2 DEF Max
<1>4. Cardinality(f..l) = l - f + 1
  BY FS_Interval
<1> QED
  BY <1>1, <1>2, <1>3, <1>4

(* The invariant says what the receipts promise. *)
LEMMA RecordedMeans == Recorded => ReceiptMatchesLog
<1> SUFFICES ASSUME Recorded, NEW c \in Command
             PROVE  LET own == EventsOf(c)
                    IN IF receipts[c].status = "accepted"
                         THEN /\ own # {}
                              /\ receipts[c].sequence = Max(own)
                              /\ own = Min(own)..Max(own)
                              /\ [i \in 1..Cardinality(own) |-> log[Min(own) + i - 1].type]
                                   \in Decision
                         ELSE own = {}
  BY DEF ReceiptMatchesLog
<1>1. CASE receipts[c].status = "accepted"
  <2>1. PICK f, l \in 1..Len(log), d \in Decision :
          Answered(c, f, l, d) /\ receipts[c].sequence = l
    BY <1>1 DEF Recorded
  <2>2. d \in Seq(EventType) /\ Len(d) \in Nat /\ Len(d) > 0
    BY DecisionAssumption
  <2>3. f \in Int /\ l \in Int /\ f <= l /\ l - f + 1 = Len(d)
    BY <2>1, <2>2 DEF Answered
  <2>4. EventsOf(c) = f..l
    <3>1. EventsOf(c) \subseteq f..l
      BY <2>1 DEF EventsOf, Sequence, Answered
    <3>2. ASSUME NEW s \in f..l PROVE s \in 1..Len(log)
      BY <2>1 DEF Answered
    <3>3. f..l \subseteq EventsOf(c)
      BY <2>1, <3>2 DEF EventsOf, Sequence, Answered
    <3> QED
      BY <3>1, <3>3
  <2>5. /\ Min(f..l) = f /\ Max(f..l) = l /\ f..l # {}
        /\ Cardinality(f..l) = Len(d)
    BY <2>3, Ends
  <2>6. [i \in 1..Len(d) |-> log[f + i - 1].type] = d
    BY <2>1, <2>2 DEF Answered
  <2> QED
    BY <1>1, <2>1, <2>4, <2>5, <2>6
<1>2. CASE receipts[c].status # "accepted"
  BY <1>2 DEF Recorded, EventsOf, Sequence
<1> QED
  BY <1>1, <1>2

(* A transaction appends the events of a decision, all of one command. *)
LEMMA CommitLog ==
  ASSUME Settling, NEW decision \in Decision, NEW aggregate \in Aggregate,
         Commit(decision, aggregate)
  PROVE  /\ Len(decision) \in Nat /\ Len(decision) > 0 /\ Len(log) \in Nat
         /\ Len(log') = Len(log) + Len(decision)
         /\ \A s \in 1..Len(log) : log'[s] = log[s]
         /\ \A i \in 1..Len(decision) : /\ log'[Len(log) + i].command = current
                                        /\ log'[Len(log) + i].type = decision[i]
<1>1. PICK V : Shaped(V)
  BY DEF Settling
<1>2. PICK c : c = current
  OBVIOUS
<1>3. Len(decision) \in Nat /\ Len(decision) > 0 /\ Len(log) \in Nat
  BY <1>1, DecisionAssumption DEF Shaped
<1> DEFINE events == [i \in 1..Len(decision) |->
                       [type |-> decision[i], aggregate |-> aggregate, command |-> c]]
<1>4. log' = log \o events
  BY <1>2 DEF Commit, CommitEvents
<1> DEFINE U == EventIn(V) \cup {events[i] : i \in 1..Len(decision)}
<1>5. log \in Seq(U)
  <2>1. log \in Seq(EventIn(V)) /\ EventIn(V) \subseteq U
    BY <1>1 DEF Shaped
  <2> QED
    BY <2>1, SequencesWiden
<1>6. events \in Seq(U) /\ Len(events) = Len(decision)
  <2>1. \A i \in 1..Len(decision) : events[i] \in U
    OBVIOUS
  <2> HIDE DEF U
  <2> QED
    BY <1>3, <2>1
<1>7. \A i \in 1..Len(decision) : events[i].command = c /\ events[i].type = decision[i]
  OBVIOUS
<1> HIDE DEF events, U
<1>8. /\ Len(log \o events) = Len(log) + Len(events)
      /\ \A s \in 1..Len(log \o events) :
           (log \o events)[s] = IF s <= Len(log) THEN log[s] ELSE events[s - Len(log)]
  BY <1>5, <1>6, Appending
<1>9. ASSUME NEW i \in 1..Len(decision)
      PROVE  /\ Len(log) + i \in 1..Len(log) + Len(decision)
             /\ ~(Len(log) + i <= Len(log)) /\ Len(log) + i - Len(log) = i
  BY <1>3
<1>10. \A s \in 1..Len(log) : s \in 1..Len(log) + Len(decision) /\ s <= Len(log)
  BY <1>3
<1> QED
  BY <1>2, <1>3, <1>4, <1>6, <1>7, <1>8, <1>9, <1>10

(* The transaction adds one piece to the log, and the receipt of it. *)
LEMMA CommitRecords ==
  ASSUME Settling, Recorded, NEW decision \in Decision, NEW aggregate \in Aggregate,
         Commit(decision, aggregate)
  PROVE  Recorded'
<1>1. PICK first, last : first = Len(log) + 1 /\ last = Len(log) + Len(decision)
  OBVIOUS
<1>2. PICK V : Shaped(V)
  BY DEF Settling
<1>3. PICK c \in Command : c = current
  BY <1>2, CurrentIsCommand DEF Commit
<1>4. Len(decision) \in Nat /\ Len(decision) > 0
  BY CommitLog
<1>5. Len(log) \in Nat /\ receipts \in [Command -> ReceiptIn(V)]
  BY <1>2 DEF Shaped
<1>6. /\ Len(log') = last
      /\ \A s \in 1..Len(log) : log'[s] = log[s]
  BY <1>1, CommitLog
<1>7. \A i \in 1..Len(decision) : /\ log'[Len(log) + i].command = c
                                  /\ log'[Len(log) + i].type = decision[i]
  BY <1>3, CommitLog
<1>8. receipts' = [receipts EXCEPT ![c] = [status |-> "accepted", sequence |-> last]]
  BY <1>1, <1>3, <1>6 DEF Commit
<1>9. receipts[c] = NoReceipt
  BY <1>3 DEF Commit, Unsettled
<1>10. \A s \in 1..Len(log) : log[s].command # c
  BY <1>9 DEF Recorded, NoReceipt
<1>11. ASSUME NEW s \in 1..last
       PROVE  s \in 1..Len(log) \/ \E i \in 1..Len(decision) : s = Len(log) + i
  <2>1. CASE s > Len(log)
    <3>1. s - Len(log) \in 1..Len(decision) /\ s = Len(log) + (s - Len(log))
      BY <1>1, <1>4, <1>5, <2>1
    <3> QED
      BY <3>1
  <2>2. CASE ~(s > Len(log))
    BY <1>1, <1>4, <1>5, <2>2
  <2> QED
    BY <2>1, <2>2
<1>12. ASSUME NEW o \in Command
       PROVE  IF receipts'[o].status = "accepted"
                THEN \E f, l \in 1..Len(log') : \E d \in Decision :
                       Answered(o, f, l, d)' /\ receipts'[o].sequence = l
                ELSE \A s \in 1..Len(log') : log'[s].command # o
  <2>1. CASE o = c
    <3>1. receipts'[o] = [status |-> "accepted", sequence |-> last]
      BY <1>5, <1>8, <2>1
    <3>2. first \in 1..Len(log') /\ last \in 1..Len(log') /\ last = first + Len(decision) - 1
      BY <1>1, <1>4, <1>5, <1>6
    <3>3. ASSUME NEW s \in 1..Len(log')
          PROVE  log'[s].command = o <=> first <= s /\ s <= last
      <4>1. CASE s \in 1..Len(log)
        BY <1>1, <1>4, <1>5, <1>6, <1>10, <2>1, <4>1
      <4>2. CASE \E i \in 1..Len(decision) : s = Len(log) + i
        BY <1>1, <1>4, <1>5, <1>7, <2>1, <4>2
      <4> QED
        BY <1>1, <1>6, <1>11, <4>1, <4>2
    <3>4. ASSUME NEW i \in 1..Len(decision) PROVE log'[first + i - 1].type = decision[i]
      <4>1. first + i - 1 = Len(log) + i
        BY <1>1, <1>4, <1>5
      <4> QED
        BY <1>7, <4>1
    <3>5. Answered(o, first, last, decision)'
      BY <3>2, <3>3, <3>4 DEF Answered
    <3> QED
      BY <3>1, <3>2, <3>5
  <2>2. CASE o # c
    <3>1. receipts'[o] = receipts[o]
      BY <1>5, <1>8, <2>2
    <3>2. ASSUME NEW s \in 1..Len(log')
          PROVE  \/ s \in 1..Len(log) /\ log'[s] = log[s]
                 \/ s > Len(log) /\ log'[s].command # o
      <4>1. CASE s \in 1..Len(log)
        BY <1>1, <1>6, <4>1
      <4>2. CASE \E i \in 1..Len(decision) : s = Len(log) + i
        BY <1>1, <1>4, <1>5, <1>7, <2>2, <4>2
      <4> QED
        BY <1>1, <1>6, <1>11, <4>1, <4>2
    <3>3. CASE receipts[o].status = "accepted"
      <4>1. PICK f, l \in 1..Len(log), d \in Decision :
              Answered(o, f, l, d) /\ receipts[o].sequence = l
        BY <3>3 DEF Recorded
      <4>2. f \in 1..Len(log') /\ l \in 1..Len(log') /\ l = f + Len(d) - 1
        BY <1>1, <1>4, <1>5, <1>6, <4>1 DEF Answered
      <4>3. ASSUME NEW s \in 1..Len(log') PROVE log'[s].command = o <=> f <= s /\ s <= l
        <5>1. CASE s \in 1..Len(log) /\ log'[s] = log[s]
          BY <4>1, <5>1 DEF Answered
        <5>2. CASE s > Len(log) /\ log'[s].command # o
          BY <1>5, <4>1, <5>2
        <5> QED
          BY <3>2, <5>1, <5>2
      <4>4. ASSUME NEW i \in 1..Len(d) PROVE log'[f + i - 1].type = d[i]
        <5>1. Len(d) \in Nat
          BY DecisionAssumption
        <5>2. f + i - 1 \in 1..Len(log)
          BY <1>5, <4>1, <5>1 DEF Answered
        <5> QED
          BY <1>6, <4>1, <5>2 DEF Answered
      <4>5. Answered(o, f, l, d)'
        BY <4>2, <4>3, <4>4 DEF Answered
      <4> QED
        BY <3>1, <3>3, <4>1, <4>2, <4>5
    <3>4. CASE receipts[o].status # "accepted"
      BY <3>1, <3>2, <3>4 DEF Recorded
    <3> QED
      BY <3>3, <3>4
  <2> QED
    BY <2>1, <2>2
<1> QED
  BY <1>12 DEF Recorded

(* A rejection is recorded of a command that is not in the log. *)
LEMMA ResolveFailureRecords ==
  ASSUME Settling, Recorded, ResolveFailure
  PROVE  Recorded'
<1>1. PICK V : Shaped(V) /\ 0 \in V /\ commandReadModel.snapshotSequence \in V
  BY RoomFor
<1>2. log' = log
  BY DEF ResolveFailure, pipeline
<1>3. receipts \in [Command -> ReceiptIn(V)]
  BY <1>1 DEF Shaped
<1>4. ASSUME NEW c \in Command
      PROVE  \/ receipts'[c] = receipts[c]
             \/ receipts[c] = NoReceipt /\ receipts'[c].status = "rejected"
  <2>1. CASE receipts' = receipts
    BY <2>1
  <2>2. CASE receipts' # receipts
    <3> DEFINE r == [status |-> "rejected", sequence |-> commandReadModel.snapshotSequence]
    <3>1. receipts' = [receipts EXCEPT ![current] = r] /\ r.status = "rejected"
      BY <2>2 DEF ResolveFailure
    <3>2. receipts[current] = NoReceipt
      BY <2>2 DEF ResolveFailure, Settling, RejectionIsFirst, Unsettled
    <3> HIDE DEF r
    <3> QED
      BY <1>3, <3>1, <3>2
  <2> QED
    BY <2>1, <2>2
<1>5. ASSUME NEW c \in Command
      PROVE  IF receipts'[c].status = "accepted"
               THEN \E f, l \in 1..Len(log') : \E d \in Decision :
                      Answered(c, f, l, d)' /\ receipts'[c].sequence = l
               ELSE \A s \in 1..Len(log') : log'[s].command # c
  <2>1. \A f, l, d : Answered(c, f, l, d)' = Answered(c, f, l, d)
    BY <1>2 DEF Answered
  <2>2. CASE receipts'[c] = receipts[c]
    BY <1>2, <2>1, <2>2 DEF Recorded
  <2>3. CASE receipts[c] = NoReceipt /\ receipts'[c].status = "rejected"
    BY <1>2, <2>3 DEF Recorded, NoReceipt
  <2> QED
    BY <1>4, <2>2, <2>3
<1> QED
  BY <1>5 DEF Recorded

(* Nothing else writes the log or a receipt. *)
LEMMA RecordedStep == Settling /\ Recorded /\ [EngineNext]_vars => Recorded'
<1> SUFFICES ASSUME Settling, Recorded, [EngineNext]_vars PROVE Recorded'
  OBVIOUS
<1>1. CASE \E decision \in Decision, aggregate \in Aggregate : Commit(decision, aggregate)
  BY <1>1, CommitRecords
<1>2. CASE ResolveFailure
  BY <1>2, ResolveFailureRecords
<1>3. CASE UNCHANGED <<log, receipts>>
  <2>1. \A c, f, l, d : Answered(c, f, l, d)' = Answered(c, f, l, d)
    BY <1>3 DEF Answered
  <2> QED
    BY <1>3, <2>1 DEF Recorded
<1> QED
  BY <1>1, <1>2, <1>3 DEF EngineNext, Worker, Repair, Dispatch, DispatchTimeout,
     TakeEnvelope, SkipAbandoned, Begin, ReplayReceipt, Reject, RunFails,
     SetCommandReadModel, ProjectCommittedEvent, ProjectDeferredEvent, Publish, Succeed,
     RunTimeout, Reconcile, ReconcileFails, ResolveStoredOutcome, CatchUp,
     RefreshCommandReadModel, BeginRepair, ResetDerivedProjectionState, RepairSucceeds,
     RepairFails, Crash, Start, StartFails, Bootstrap, BootstrapFails, Becomes, vars,
     pipeline

(* A command is in the log once, whole and in one piece, exactly when its
   receipt says accepted, however often it was dispatched, timed out or
   crashed (commandProcessor.ts, the lookup of the receipt and the
   transaction that writes it with the events). *)
THEOREM OnceAndWhole == EngineSpec => []ReceiptMatchesLog
<1>1. EngineInit => Recorded
  BY DEF EngineInit, PipelineInit, Recorded, NoReceipt
<1>2. Recorded => ReceiptMatchesLog
  BY RecordedMeans
<1> QED
  BY <1>1, <1>2, RecordedStep, SettlingIsInvariant, PTL DEF EngineSpec
=============================================================================
