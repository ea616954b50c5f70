---------------------- MODULE ExecutionAdapterAuthority ----------------------
(***************************************************************************)
(* The execution adapter authority of the server: for every thread it      *)
(* decides whether the structured provider runtime or the managed terminal *)
(* owns the thread, it counts the operations in flight under that          *)
(* ownership (claims), and it writes every change of ownership to disk     *)
(* before anybody can see it.                                              *)
(*                                                                         *)
(* Every operation of the code runs under one transaction lock, so each is *)
(* one atomic action here.  What is left open is the order of the calls:   *)
(* any caller may call any operation with any revision and generation it   *)
(* may have remembered, a write may fail before or after the new snapshot  *)
(* reached the disk, and the server may restart between any two steps.     *)
(*                                                                         *)
(* An operation is split in three: Can<Op>, the conditions under which the *)
(* code does not return an error; the state it computes (Starting, Started,*)
(* Restoring, ...); and the action that commits it.  The module            *)
(* ExecutionAdapterCoordinator calls the first two with the values its     *)
(* callers captured earlier.                                               *)
(***************************************************************************)
EXTENDS Integers

CONSTANTS
  Thread,        \* thread ids
  ClaimId,       \* ids of claims: "command:<id>", "hook:<id>", ...
  Generation,    \* generations the terminal host gives to its processes
  Pid,           \* process ids
  Null,          \* the code's null
  MaxRevision,   \* bound: no thread changes ownership more often than this
  MaxHolders     \* bound: no claim is held more often than this at a time

ASSUME NullAssumption == Null \notin Generation \cup Pid
ASSUME BoundAssumption == MaxRevision \in Nat /\ MaxHolders \in Nat

VARIABLES
  states,        \* current.states; a thread without an entry has DefaultState
  claims,        \* current.claims; a claim that does not exist is NoClaim
  disk,          \* the snapshot file, as the next start would read it
  available,     \* authorityUnavailableReason = undefined
  marker         \* the <file>.unavailable marker is on disk

vars == <<states, claims, disk, available, marker>>

-----------------------------------------------------------------------------
(* States of a thread and claims on it *)

StructuredStatus == {"ready", "restoring", "stopping", "deleting"}

TerminalStatus ==
  {"checking", "starting", "ready", "running", "attention", "context-blocked",
   "stopping", "deleting", "stopped", "exited", "error", "unsupported"}

(* pid stands for pid, ownerIdentity and processGroupIdentity: the code never
   has one of the last two without the first, and clears the three together.
   turn says that activeTurnId is not null. *)
ThreadState ==
  [adapter : {"structured", "terminal"}, revision : Nat,
   status : StructuredStatus \cup TerminalStatus,
   generation : Generation \cup {Null}, pid : Pid \cup {Null}, turn : BOOLEAN]

Structured(revision, status) ==
  [adapter |-> "structured", revision |-> revision, status |-> status,
   generation |-> Null, pid |-> Null, turn |-> FALSE]

DefaultState == Structured(0, "ready")

IsStructured(s) == s.adapter = "structured"
IsTerminal(s) == s.adapter = "terminal"
ReadyForStructured(s) == IsStructured(s) /\ s.status = "ready"
Tombstone(s) == IsStructured(s) /\ s.status = "deleting"

(* A claim record.  revision and generation are those the claim was handed
   out under (they are fields of the handle the code returns); expired says
   that the claim is older than the time to live of a reservation. *)
Claim ==
  [adapter : {"none", "structured", "terminal"}, holders : Nat,
   leased : BOOLEAN, turnStart : BOOLEAN, expired : BOOLEAN,
   revision : Nat, generation : Generation \cup {Null}]

NoClaim ==
  [adapter |-> "none", holders |-> 0, leased |-> FALSE, turnStart |-> FALSE,
   expired |-> FALSE, revision |-> 0, generation |-> Null]

NoClaims == [t \in Thread |-> [c \in ClaimId |-> NoClaim]]

(* A reservation nobody leased is dropped once it has expired.  Every
   operation but a release looks at the claims after this. *)
Kept(claim) == IF claim.leased \/ ~claim.expired THEN claim ELSE NoClaim

Pruned == [t \in Thread |-> [c \in ClaimId |-> Kept(claims[t][c])]]

Drained_HeldOnly(t) == \A c \in ClaimId : Pruned[t][c].holders = 0   \* mutant

Drained(t) == \A c \in ClaimId : Pruned[t][c] = NoClaim

-----------------------------------------------------------------------------
(* Claims *)

Renewed(claim) ==
  [claim EXCEPT !.holders = @ + 1, !.expired = FALSE, !.leased = TRUE]

NewClaim(t, adapter, held, turnStart) ==
  [adapter |-> adapter, holders |-> IF held THEN 1 ELSE 0, leased |-> held,
   turnStart |-> turnStart, expired |-> FALSE,
   revision |-> states[t].revision, generation |-> states[t].generation]

SetClaim(t, c, claim) ==
  /\ claims' = [Pruned EXCEPT ![t][c] = claim]
  /\ UNCHANGED <<states, disk, available, marker>>

CanAddClaim(t) == available /\ ReadyForStructured(states[t])

(* acquireStructured: the caller holds the claim, alone or with others. *)
AcquireStructured(t, c) ==
  LET existing == Pruned[t][c] IN
  /\ CanAddClaim(t)
  /\ existing.holders < MaxHolders
  /\ SetClaim(t, c, IF existing = NoClaim
                      THEN NewClaim(t, "structured", TRUE, FALSE)
                      ELSE Renewed(existing))

(* reserveStructuredStart: nobody holds the claim until the reactor does. *)
ReserveStructuredStart(t, c) ==
  LET existing == Pruned[t][c] IN
  /\ CanAddClaim(t)
  /\ SetClaim(t, c, IF existing = NoClaim
                      THEN NewClaim(t, "structured", FALSE, TRUE)
                      ELSE existing)

(* claimStructuredStart: the reactor takes the reservation over. *)
ClaimStructuredStart(t, c) ==
  LET existing == Pruned[t][c] IN
  /\ CanAddClaim(t)
  /\ existing # NoClaim /\ existing.turnStart
  /\ existing.holders < MaxHolders
  /\ SetClaim(t, c, Renewed(existing))

AcceptsOperations(status) ==
  status \in {"checking", "ready", "running", "attention", "context-blocked",
              "error"}

CanAcquireTerminal(t, revision, generation) ==
  /\ available
  /\ IsTerminal(states[t])
  /\ states[t].revision = revision
  /\ states[t].generation = generation
  /\ AcceptsOperations(states[t].status)

AcquireTerminal(t, c, revision, generation) ==
  LET existing == Pruned[t][c] IN
  /\ CanAcquireTerminal(t, revision, generation)
  /\ existing.holders < MaxHolders
  /\ SetClaim(t, c, IF existing = NoClaim
                      THEN NewClaim(t, "terminal", TRUE, FALSE)
                      ELSE [existing EXCEPT !.holders = @ + 1, !.expired = FALSE])

Released_NoFloor(claim) == [claim EXCEPT !.holders = @ - 1]            \* mutant

Released(claim) ==
  IF claim.holders > 1 THEN [claim EXCEPT !.holders = @ - 1] ELSE NoClaim

(* releaseClaim: no check at all; the record goes when the last holder, or
   whoever gives up a reservation, releases it. *)
ReleaseClaim(t, c) ==
  /\ claims[t][c] # NoClaim
  /\ claims' = [claims EXCEPT ![t][c] = Released(@)]
  /\ UNCHANGED <<states, disk, available, marker>>

(* Five minutes pass.  Only what nobody leased is affected by it. *)
ClaimExpires(t, c) ==
  /\ claims[t][c] # NoClaim
  /\ ~claims[t][c].expired
  /\ claims' = [claims EXCEPT ![t][c].expired = TRUE]
  /\ UNCHANGED <<states, disk, available, marker>>

-----------------------------------------------------------------------------
(* Committing a new state: mutateState *)

(* The snapshot of all threads is written first, then memory follows. *)
Persisted(t, s) == [states EXCEPT ![t] = s]

Store(t, s) ==
  /\ disk' = Persisted(t, s)
  /\ states' = Persisted(t, s)
  /\ claims' = Pruned
  /\ UNCHANGED <<available, marker>>

(* The write fails: before the rename, or after it (chmod, directory sync),
   when the next start will read a state that memory never had. *)
StoreFails(t, s) ==
  /\ disk' \in {disk, Persisted(t, s)}
  /\ UNCHANGED <<states, claims, available, marker>>

Commit_MemoryFirst(t, s) ==                                           \* mutant
  /\ available
  /\ \/ Store(t, s)
     \/ states' = Persisted(t, s) /\ UNCHANGED <<claims, disk, available, marker>>

Commit(t, s) == available /\ (Store(t, s) \/ StoreFails(t, s))

CanRise(t) == states[t].revision < MaxRevision

-----------------------------------------------------------------------------
(* The terminal side *)

TerminalIdle(s) == IsTerminal(s) /\ ~s.turn /\ s.status # "running"

Starting(revision) ==
  [adapter |-> "terminal", revision |-> revision, status |-> "starting",
   generation |-> Null, pid |-> Null, turn |-> FALSE]

BeginTerminalSwitch(t) ==
  /\ CanRise(t)
  /\ ReadyForStructured(states[t])
  /\ Drained(t)
  /\ Commit(t, Starting(states[t].revision + 1))

BeginTerminalRestart(t) ==
  /\ CanRise(t)
  /\ TerminalIdle(states[t])
  /\ Drained(t)
  /\ states[t].status \notin {"starting", "checking"}
  /\ Commit(t, Starting(states[t].revision + 1))

Stopping(s) == [s EXCEPT !.status = "stopping"]

(* An epoch that is already stopping is returned as it is, nothing written. *)
BeginTerminalStop(t) ==
  /\ TerminalIdle(states[t])
  /\ Drained(t)
  /\ states[t].status # "stopping"
  /\ Commit(t, Stopping(states[t]))

BeginStructuredSwitch(t) ==
  /\ TerminalIdle(states[t])
  /\ Drained(t)
  /\ Commit(t, Stopping(states[t]))

CanCompleteTerminalStart_AnyStatus(s, revision) ==                    \* mutant
  IsTerminal(s) /\ s.revision = revision

CanCompleteTerminalStart(s, revision) ==
  IsTerminal(s) /\ s.revision = revision /\ s.status = "starting"

Started(s, generation, pid) ==
  [s EXCEPT !.status = "ready", !.generation = generation, !.pid = pid]

CompleteTerminalStart(t, revision, generation, pid) ==
  /\ CanCompleteTerminalStart(states[t], revision)
  /\ Commit(t, Started(states[t], generation, pid))

StatusUpdateAllowed(current, next) ==
  CASE current = "deleting" -> next = "deleting"
    [] current = "stopped"  -> next \in {"stopped", "error"}
    [] current = "stopping" -> next \in {"stopping", "stopped", "error"}
    [] current = "exited"   -> next \in {"exited", "error"}
    [] OTHER                -> TRUE

(* updateTerminal is called with a patch; these are the states the patches of
   the callers make of s.  A patch of a field that is not modelled (an error
   text, an exit code, the provider session) gives s itself: it is committed
   too, and refused too if its status may not be set. *)
Patched(s) ==
  {[s EXCEPT !.pid = p] : p \in Pid}                      \* spawn
  \cup {s, [s EXCEPT !.turn = FALSE]}
  \cup {[s EXCEPT !.status = st] :
          st \in {"checking", "ready", "error", "exited"}}
  \cup {[s EXCEPT !.status = st, !.turn = FALSE] :
          st \in {"ready", "attention", "context-blocked", "error", "exited"}}
  \cup {[s EXCEPT !.status = "running", !.turn = TRUE]}
  \cup {[s EXCEPT !.status = "stopped", !.turn = FALSE, !.pid = Null]}

CanUpdateTerminal_AnyRevision(s, revision, generation, patched) ==    \* mutant
  /\ IsTerminal(s)
  /\ generation \in {"any", s.generation}
  /\ StatusUpdateAllowed(s.status, patched.status)

CanUpdateTerminal(s, revision, generation, patched) ==
  /\ IsTerminal(s)
  /\ s.revision = revision
  /\ generation \in {"any", s.generation}
  /\ StatusUpdateAllowed(s.status, patched.status)

UpdateTerminal(t, revision, generation, requireNoClaims, patched) ==
  /\ CanUpdateTerminal(states[t], revision, generation, patched)
  /\ requireNoClaims => Drained(t)
  /\ Commit(t, patched)

CanLeaveTerminal(s, revision) == IsTerminal(s) /\ s.revision = revision

Restoring(s) == Structured(s.revision + 1, "restoring")

(* toStructured, exported as completeStructuredSwitch and restoreStructured:
   neither the claims nor the status of the epoch are looked at. *)
ToStructured(t, revision) ==
  /\ CanRise(t)
  /\ CanLeaveTerminal(states[t], revision)
  /\ Commit(t, Restoring(states[t]))

-----------------------------------------------------------------------------
(* The structured side *)

CanCompleteStructuredRestore(s, revision) ==
  IsStructured(s) /\ s.status = "restoring" /\ s.revision = revision

CompleteStructuredRestore(t, revision) ==
  /\ CanCompleteStructuredRestore(states[t], revision)
  /\ Commit(t, Structured(revision, "ready"))

(* The claims are drained after this, by the caller. *)
BeginStructuredStop(t) ==
  /\ CanRise(t)
  /\ ReadyForStructured(states[t])
  /\ Commit(t, Structured(states[t].revision + 1, "stopping"))

CanCompleteStructuredStop(s, revision) ==
  IsStructured(s) /\ s.status = "stopping" /\ s.revision = revision

CompleteStructuredStop(t, revision) ==
  /\ CanCompleteStructuredStop(states[t], revision)
  /\ Commit(t, Structured(revision, "ready"))

-----------------------------------------------------------------------------
(* Deletion *)

StoppedForGood(s) == IsTerminal(s) /\ s.status = "stopped" /\ s.pid = Null

(* A deletion that has begun is returned as it is, nothing written. *)
CanBeginThreadDeletion(s) ==
  /\ s.status # "deleting"
  /\ IsStructured(s) \/ StoppedForGood(s) \/ TerminalIdle(s)

DeletionBegun(s) ==
  IF IsStructured(s) \/ StoppedForGood(s)
    THEN Structured(s.revision + 1, "deleting")
    ELSE [s EXCEPT !.status = "deleting"]

BeginThreadDeletion(t) ==
  /\ DeletionBegun(states[t]).revision =< MaxRevision
  /\ CanBeginThreadDeletion(states[t])
  /\ Commit(t, DeletionBegun(states[t]))

CanCompleteTerminalDeletion(s, revision) ==
  IsTerminal(s) /\ s.status = "deleting" /\ s.revision = revision

CompleteTerminalDeletion(t, revision) ==
  /\ CanRise(t)
  /\ CanCompleteTerminalDeletion(states[t], revision)
  /\ Commit(t, Structured(revision + 1, "deleting"))

(* forgetThread: the snapshot is written without the thread. *)
ForgetThread_NotDrained(t) ==                                         \* mutant
  /\ Tombstone(states[t])
  /\ Commit(t, DefaultState)

ForgetThread(t) ==
  /\ Tombstone(states[t])
  /\ Drained(t)
  /\ Commit(t, DefaultState)

-----------------------------------------------------------------------------
(* Starts of the server *)

AllDefault == [t \in Thread |-> DefaultState]

(* The snapshot is read and trusted. *)
LoadSnapshot ==
  /\ states' = disk
  /\ available' = TRUE
  /\ UNCHANGED <<disk, marker>>

(* A marker, or a snapshot that cannot be read, makes the authority refuse
   every operation.  The marker is written before the snapshot is moved out
   of the way, and either may fail. *)
LoadUnavailable ==
  /\ states' = AllDefault
  /\ available' = FALSE
  /\ \/ UNCHANGED <<disk, marker>>
     \/ ~marker /\ marker' = TRUE /\ disk' \in {disk, AllDefault}

Restart ==
  /\ claims' = NoClaims
  /\ LoadUnavailable \/ (~marker /\ LoadSnapshot)

(* External: somebody removes the marker while the server runs or is down. *)
OperatorResolves ==
  /\ marker
  /\ marker' = FALSE
  /\ UNCHANGED <<states, claims, disk, available>>

-----------------------------------------------------------------------------
Revision == 0 .. MaxRevision

ClaimStep(t, c) ==
  \/ AcquireStructured(t, c)
  \/ ReserveStructuredStart(t, c)
  \/ ClaimStructuredStart(t, c)
  \/ \E r \in Revision, g \in Generation \cup {Null} : AcquireTerminal(t, c, r, g)
  \/ ReleaseClaim(t, c)
  \/ ClaimExpires(t, c)

TerminalStep(t) ==
  \/ BeginTerminalSwitch(t)
  \/ BeginTerminalRestart(t)
  \/ BeginTerminalStop(t)
  \/ BeginStructuredSwitch(t)
  \/ \E r \in Revision :
       \/ \E g \in Generation, p \in Pid : CompleteTerminalStart(t, r, g, p)
       \/ \E g \in Generation \cup {Null, "any"}, b \in BOOLEAN,
             n \in Patched(states[t]) : UpdateTerminal(t, r, g, b, n)
       \/ ToStructured(t, r)

StructuredStep(t) ==
  \/ BeginStructuredStop(t)
  \/ BeginThreadDeletion(t)
  \/ ForgetThread(t)
  \/ \E r \in Revision :
       \/ CompleteStructuredRestore(t, r)
       \/ CompleteStructuredStop(t, r)
       \/ CompleteTerminalDeletion(t, r)

Init ==
  /\ states = AllDefault
  /\ claims = NoClaims
  /\ disk = AllDefault
  /\ available = TRUE
  /\ marker = FALSE

Next ==
  \/ \E t \in Thread :
       \/ \E c \in ClaimId : ClaimStep(t, c)
       \/ TerminalStep(t)
       \/ StructuredStep(t)
  \/ Restart
  \/ OperatorResolves

Spec == Init /\ [][Next]_vars

-----------------------------------------------------------------------------
(* Properties *)

(* Every variable has its type.  In particular a holder count never drops
   below zero, whoever releases what. *)
TypeOK ==
  /\ states \in [Thread -> ThreadState]
  /\ disk \in [Thread -> ThreadState]
  /\ claims \in [Thread -> [ClaimId -> Claim]]
  /\ available \in BOOLEAN
  /\ marker \in BOOLEAN

(* Whatever is in flight on a terminal thread was handed out under the very
   epoch that owns it: no structured turn start survives into a terminal
   epoch, no hook of an older runtime into a newer one.  Claims are not looked
   at when a start completes or a status is patched, only when an epoch ends,
   so this rests on the order of the two. *)
ClaimsMatchEpoch ==
  \A t \in Thread, c \in ClaimId :
    IsTerminal(states[t]) /\ claims[t][c] # NoClaim =>
      /\ claims[t][c].adapter = "terminal"
      /\ claims[t][c].revision = states[t].revision
      /\ claims[t][c].generation = states[t].generation

(* A claim somebody holds never expires under its holder, and a reservation
   nobody has taken over always can: leased says exactly that there is a
   holder.  Acquiring a claim again under the terminal does not set leased:
   that is right only because every claim found there is leased already. *)
LeasedIffHeld ==
  \A t \in Thread, c \in ClaimId : claims[t][c] # NoClaim =>
    /\ claims[t][c].leased <=> claims[t][c].holders > 0
    /\ claims[t][c].adapter = "terminal" => claims[t][c].leased

(* Only a terminal epoch whose start completed has a generation, on disk as in
   memory, and nobody works under an epoch that is still starting: so a
   generation is given to an epoch once, and never under somebody's feet. *)
Unborn(s) == IsStructured(s) \/ s.status = "starting" => s.generation = Null

StartingIsUnborn ==
  \A t \in Thread :
    /\ Unborn(states[t]) /\ Unborn(disk[t])
    /\ IsTerminal(states[t]) /\ states[t].status = "starting" =>
         \A c \in ClaimId : claims[t][c] = NoClaim

(* n is s, or what one operation makes of s as far as ownership goes. *)
SameEpoch(s, n) ==
  /\ n.adapter = s.adapter
  /\ n.revision = s.revision
  /\ s.generation # Null => n.generation = s.generation
  /\ ReadyForStructured(n) => s.status \in {"ready", "restoring", "stopping"}
  /\ Tombstone(s) => n = s

NextEpoch(s, n) ==
  /\ n.revision = s.revision + 1
  /\ n.generation = Null
  /\ ~ReadyForStructured(n)
  /\ ~Tombstone(s)
  /\ IsStructured(s) /\ IsTerminal(n) => ReadyForStructured(s)

Forgotten(s, n) == Tombstone(s) /\ n = DefaultState

Succeeds(s, n) == SameEpoch(s, n) \/ NextEpoch(s, n) \/ Forgotten(s, n)

(* What the next start would read is what memory has, or at most one operation
   ahead of it: an operation that reported a failed write may come true at the
   next start, but never is anything older than what callers were told read
   back. *)
DurableNotBehind == available => \A t \in Thread : Succeeds(states[t], disk[t])

(* A thread is given back to the structured runtime in two writes, also when
   the server restarts between them: it becomes ready only after a restoring
   or stopping of the same revision, or when its tombstone was forgotten. *)
ReadyIsEarned ==
  [][\A t \in Thread :
       available /\ available' /\ ReadyForStructured(states'[t])
         /\ ~ReadyForStructured(states[t]) =>
       \/ /\ IsStructured(states[t])
          /\ states[t].status \in {"restoring", "stopping"}
          /\ states'[t].revision = states[t].revision
       \/ Tombstone(states[t])]_vars

(* No two owners share a revision, so a revision check alone tells a late call
   of the previous owner from one of the present owner. *)
OwnersHaveOwnRevision ==
  [][\A t \in Thread :
       available /\ available' /\ states'[t].adapter # states[t].adapter =>
         states'[t].revision = states[t].revision + 1]_vars

(* The runtime of an epoch is never exchanged under it: once an epoch has a
   generation it keeps it, whatever completes late or is read back. *)
GenerationNeverReplaced ==
  [][\A t \in Thread :
       available /\ available' /\ states[t].generation # Null
         /\ states'[t].revision = states[t].revision =>
       states'[t].generation = states[t].generation]_vars

(* A completed deletion is final until the thread is forgotten, and it is
   forgotten only when nothing is in flight on it. *)
TombstoneIsFinal ==
  [][\A t \in Thread :
       available /\ available' /\ Tombstone(states[t]) =>
         \/ states'[t] = states[t]
         \/ states'[t] = DefaultState /\ claims'[t] = NoClaims[t]]_vars
=============================================================================
