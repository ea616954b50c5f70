------------------- MODULE ExecutionAdapterAuthorityProofs -------------------
(***************************************************************************)
(* Proofs about ExecutionAdapterAuthority, for any sets of threads, claims,*)
(* generations and pids and for any bounds.                                *)
(*                                                                         *)
(* The invariants the runs check are inductive together, not one by one:   *)
(* a claim matches its epoch because a starting epoch has none, the        *)
(* snapshot is not behind memory because a starting epoch has no           *)
(* generation yet, and a claim acquired under the terminal is leased       *)
(* because no structured reservation can be found there.                   *)
(***************************************************************************)
EXTENDS ExecutionAdapterAuthority, TLAPS

(* What the invariants say of one claim on a thread whose state is s. *)
ClaimFits(s, claim) ==
  /\ claim # NoClaim => /\ claim.leased <=> claim.holders > 0
                        /\ claim.adapter = "terminal" => claim.leased
  /\ IsTerminal(s) /\ claim # NoClaim =>
       /\ claim.adapter = "terminal"
       /\ claim.revision = s.revision
       /\ claim.generation = s.generation
       /\ s.status # "starting"

(* The inductive invariant: the invariants the runs check, arranged by thread
   and claim (InvMeans). *)
Inv ==
  /\ TypeOK
  /\ \A t \in Thread : Unborn(states[t]) /\ Unborn(disk[t])
  /\ \A t \in Thread, c \in ClaimId : ClaimFits(states[t], claims[t][c])
  /\ available => \A t \in Thread : Succeeds(states[t], disk[t])

LEMMA InvMeans ==
  Inv <=> /\ TypeOK /\ ClaimsMatchEpoch /\ LeasedIffHeld
          /\ StartingIsUnborn /\ DurableNotBehind
BY DEF Inv, ClaimsMatchEpoch, LeasedIffHeld, StartingIsUnborn,
       DurableNotBehind, ClaimFits

-----------------------------------------------------------------------------
(* Facts about single claims and single states *)

(* No claim is a well-typed claim, and the default is a well-typed state. *)
LEMMA DefaultsTyped == NoClaim \in Claim /\ DefaultState \in ThreadState
BY DEF NoClaim, Claim, DefaultState, Structured, ThreadState, StructuredStatus

(* Every structured state the operations make is well typed. *)
LEMMA StructuredTyped ==
  ASSUME NEW r \in Nat, NEW st \in StructuredStatus
  PROVE  Structured(r, st) \in ThreadState
BY DEF Structured, ThreadState

(* A fresh terminal epoch is well typed. *)
LEMMA StartingTyped ==
  ASSUME NEW r \in Nat PROVE Starting(r) \in ThreadState
BY DEF Starting, ThreadState, TerminalStatus

(* A state succeeds itself. *)
LEMMA SucceedsRefl == ASSUME NEW s PROVE Succeeds(s, s)
BY DEF Succeeds, SameEpoch, ReadyForStructured

(* Dropping the expired reservations keeps a claim or removes it. *)
LEMMA KeptFits ==
  ASSUME NEW s, NEW claim \in Claim, ClaimFits(s, claim)
  PROVE  Kept(claim) \in Claim /\ ClaimFits(s, Kept(claim))
BY DefaultsTyped DEF Kept, ClaimFits

(* One more holder. *)
LEMMA OneMoreFits ==
  ASSUME NEW s, NEW claim \in Claim, claim # NoClaim, ClaimFits(s, claim)
  PROVE  LET more == [claim EXCEPT !.holders = @ + 1, !.expired = FALSE] IN
         /\ Renewed(claim) \in Claim /\ ClaimFits(s, Renewed(claim))
         /\ more \in Claim
         /\ IsTerminal(s) => ClaimFits(s, more)
<1> DEFINE h == claim.holders + 1
           renewed == [claim EXCEPT !.holders = h, !.expired = FALSE,
                                    !.leased = TRUE]
           more == [claim EXCEPT !.holders = h, !.expired = FALSE]
<1>1. h \in Nat /\ h > 0 /\ more.holders = h /\ renewed.holders = h
  BY DEF Claim
<1> HIDE DEF h
<1>2. renewed \in Claim /\ more \in Claim
  BY <1>1 DEF Claim
<1>3. ClaimFits(s, renewed)
  BY <1>1 DEF ClaimFits, Claim
<1>4. IsTerminal(s) => ClaimFits(s, more)
  BY <1>1 DEF ClaimFits, Claim
<1>5. QED BY <1>2, <1>3, <1>4 DEF Renewed, h

(* One holder less, or the end of the claim. *)
LEMMA ReleasedFits ==
  ASSUME NEW s, NEW claim \in Claim, claim # NoClaim, ClaimFits(s, claim)
  PROVE  Released(claim) \in Claim /\ ClaimFits(s, Released(claim))
<1> DEFINE h == claim.holders - 1
           less == [claim EXCEPT !.holders = h]
<1>1. CASE claim.holders > 1
  <2>1. h \in Nat /\ h > 0 /\ less.holders = h
    BY <1>1 DEF Claim
  <2> HIDE DEF h
  <2>2. less \in Claim /\ ClaimFits(s, less)
    BY <1>1, <2>1 DEF Claim, ClaimFits
  <2>3. QED BY <1>1, <2>2 DEF Released, h
<1>2. CASE ~(claim.holders > 1)
  BY <1>2, DefaultsTyped DEF Released, ClaimFits
<1>3. QED BY <1>1, <1>2

LEMMA PrunedAt ==
  ASSUME NEW t \in Thread, NEW c \in ClaimId
  PROVE  Pruned[t][c] = Kept(claims[t][c])
BY DEF Pruned

-----------------------------------------------------------------------------
(* A claim step *)

(* An operation that changes one claim, into one that fits, keeps everything. *)
LEMMA ClaimChange ==
  ASSUME Inv, NEW t \in Thread, NEW c \in ClaimId, NEW new \in Claim,
         ClaimFits(states[t], new),
         UNCHANGED <<states, disk, available, marker>>,
         \/ claims' = [Pruned EXCEPT ![t][c] = new]
         \/ claims' = [claims EXCEPT ![t][c] = new]
  PROVE  Inv'
<1>1. \A u \in Thread, d \in ClaimId :
        /\ claims[u][d] \in Claim
        /\ ClaimFits(states[u], claims[u][d])
  BY DEF Inv, TypeOK
<1>2. \A u \in Thread, d \in ClaimId :
        /\ Pruned[u][d] \in Claim
        /\ ClaimFits(states[u], Pruned[u][d])
  BY <1>1, KeptFits, PrunedAt
<1>3. /\ claims \in [Thread -> [ClaimId -> Claim]]
      /\ Pruned \in [Thread -> [ClaimId -> Claim]]
  BY <1>2 DEF Inv, TypeOK, Pruned
<1>4. ASSUME NEW old \in [Thread -> [ClaimId -> Claim]],
             \A u \in Thread, d \in ClaimId : ClaimFits(states[u], old[u][d]),
             claims' = [old EXCEPT ![t] = [old[t] EXCEPT ![c] = new]]
      PROVE  /\ claims' \in [Thread -> [ClaimId -> Claim]]
             /\ \A u \in Thread, d \in ClaimId :
                  ClaimFits(states[u], claims'[u][d])
  <2>1. [old[t] EXCEPT ![c] = new] \in [ClaimId -> Claim]
    BY <1>4
  <2>2. claims' \in [Thread -> [ClaimId -> Claim]]
    BY <1>4, <2>1
  <2>3. ASSUME NEW u \in Thread, NEW d \in ClaimId
        PROVE  claims'[u][d] = old[u][d] \/ (u = t /\ claims'[u][d] = new)
    BY <1>4
  <2>4. QED BY <1>4, <2>2, <2>3
<1>5. /\ claims' \in [Thread -> [ClaimId -> Claim]]
      /\ \A u \in Thread, d \in ClaimId : ClaimFits(states[u], claims'[u][d])
  BY <1>1, <1>2, <1>3, <1>4
<1>6. QED BY <1>5 DEF Inv, TypeOK

-----------------------------------------------------------------------------
(* A committed state *)

(* The claims that exist on t still fit when its state becomes n. *)
ClaimsFollow(t, n) ==
  \/ Drained(t)
  \/ IsStructured(n)
  \/ IsTerminal(states[t]) /\ states[t].status = "starting"
  \/ /\ IsTerminal(states[t])
     /\ n.status # "starting"
     /\ n.revision = states[t].revision
     /\ n.generation = states[t].generation

LEMMA ClaimsFollowFits ==
  ASSUME Inv, NEW t \in Thread, NEW n \in ThreadState, ClaimsFollow(t, n),
         NEW c \in ClaimId
  PROVE  ClaimFits(n, Pruned[t][c])
<1>1. ClaimFits(states[t], Pruned[t][c])
  BY KeptFits, PrunedAt DEF Inv, TypeOK
<1>2. Pruned[t][c] # NoClaim => ~Drained(t)
  BY DEF Drained
<1>3. QED
  BY <1>1, <1>2 DEF ClaimFits, ClaimsFollow, IsTerminal, IsStructured

(* What a step does to every thread while the authority is available. *)
Forward ==
  available /\ available' =>
    \A u \in Thread :
      /\ Succeeds(states[u], states'[u])
      /\ Tombstone(states[u]) =>
           states'[u] = states[u] \/ claims'[u] = NoClaims[u]

(* Whatever the write does, a state that succeeds the old one keeps the
   invariant and goes forward; a tombstone may only go when all is drained. *)
LEMMA CommitKeeps ==
  ASSUME Inv, NEW t \in Thread, NEW n \in ThreadState, Unborn(n),
         Succeeds(states[t], n), ClaimsFollow(t, n), Commit(t, n),
         Tombstone(states[t]) => Drained(t)
  PROVE  Inv' /\ Forward
<1> USE DEF Inv, TypeOK
<1>1. /\ Persisted(t, n) \in [Thread -> ThreadState]
      /\ \A u \in Thread : /\ Unborn(Persisted(t, n)[u])
                           /\ Succeeds(states[u], Persisted(t, n)[u])
  BY SucceedsRefl DEF Persisted
<1>2. CASE Store(t, n)
  <2>1. \A u \in Thread, c \in ClaimId :
          /\ Pruned[u][c] \in Claim
          /\ ClaimFits(states[u], Pruned[u][c])
    BY KeptFits, PrunedAt
  <2>2. claims' \in [Thread -> [ClaimId -> Claim]]
    BY <1>2, <2>1 DEF Store, Pruned
  <2>3. \A u \in Thread, c \in ClaimId : ClaimFits(states'[u], claims'[u][c])
    <3> SUFFICES ASSUME NEW u \in Thread, NEW c \in ClaimId
                 PROVE  ClaimFits(Persisted(t, n)[u], Pruned[u][c])
      BY <1>2 DEF Store
    <3>1. CASE u = t
      BY <3>1, ClaimsFollowFits DEF Persisted
    <3>2. CASE u # t
      BY <3>2, <2>1 DEF Persisted
    <3>3. QED BY <3>1, <3>2
  <2>4. \A u \in Thread : Succeeds(states'[u], disk'[u])
    BY <1>2, SucceedsRefl DEF Store
  <2>5. Drained(t) => Pruned[t] = NoClaims[t]
    BY DEF Drained, Pruned, NoClaims
  <2>6. Forward
    BY <1>1, <1>2, <2>5 DEF Store, Forward, Persisted
  <2>7. QED BY <1>1, <1>2, <2>2, <2>3, <2>4, <2>6 DEF Store
<1>3. CASE StoreFails(t, n)
  BY <1>1, <1>3, SucceedsRefl DEF StoreFails, Forward
<1>4. QED BY <1>2, <1>3 DEF Commit

-----------------------------------------------------------------------------
(* The operations *)

(* A step on claims: acquiring, reserving, taking over, releasing, expiring. *)
LEMMA ClaimStepKeeps ==
  ASSUME Inv, NEW t \in Thread, NEW c \in ClaimId, ClaimStep(t, c)
  PROVE  Inv' /\ Forward
<1> DEFINE old == claims[t][c]
           kept == Pruned[t][c]
<1>1. /\ states[t] \in ThreadState
      /\ old \in Claim /\ ClaimFits(states[t], old)
      /\ kept \in Claim /\ ClaimFits(states[t], kept)
  BY KeptFits, PrunedAt DEF Inv, TypeOK
<1>2. ASSUME UNCHANGED <<states, disk, available, marker>> PROVE Forward
  BY <1>2, SucceedsRefl DEF Forward
<1>3. ASSUME NEW new \in Claim, SetClaim(t, c, new), ClaimFits(states[t], new)
      PROVE  Inv' /\ Forward
  BY <1>2, <1>3, ClaimChange DEF SetClaim
<1>4. ASSUME NEW a \in {"structured", "terminal"},
             NEW held \in BOOLEAN, NEW ts \in BOOLEAN
      PROVE  NewClaim(t, a, held, ts) \in Claim
  BY <1>1 DEF NewClaim, Claim, ThreadState
<1>5. kept # NoClaim => Renewed(kept) \in Claim /\ ClaimFits(states[t], Renewed(kept))
  BY <1>1, OneMoreFits
<1>6. CASE AcquireStructured(t, c)
  <2>1. ClaimFits(states[t], NewClaim(t, "structured", TRUE, FALSE))
    BY <1>6 DEF AcquireStructured, CanAddClaim, ReadyForStructured,
                IsStructured, IsTerminal, ClaimFits, NewClaim
  <2>2. QED BY <1>3, <1>4, <1>5, <1>6, <2>1 DEF AcquireStructured
<1>7. CASE ReserveStructuredStart(t, c)
  <2>1. ClaimFits(states[t], NewClaim(t, "structured", FALSE, TRUE))
    BY <1>7 DEF ReserveStructuredStart, CanAddClaim, ReadyForStructured,
                IsStructured, IsTerminal, ClaimFits, NewClaim
  <2>2. QED BY <1>1, <1>3, <1>4, <1>7, <2>1 DEF ReserveStructuredStart
<1>8. CASE ClaimStructuredStart(t, c)
  BY <1>3, <1>5, <1>8 DEF ClaimStructuredStart
<1>9. ASSUME NEW r, NEW g, AcquireTerminal(t, c, r, g)
      PROVE  Inv' /\ Forward
  <2> DEFINE more == [kept EXCEPT !.holders = @ + 1, !.expired = FALSE]
  <2>1. IsTerminal(states[t]) /\ states[t].status # "starting"
    BY <1>9 DEF AcquireTerminal, CanAcquireTerminal, AcceptsOperations
  <2>2. ClaimFits(states[t], NewClaim(t, "terminal", TRUE, FALSE))
    BY <2>1 DEF ClaimFits, NewClaim
  <2>3. kept # NoClaim => more \in Claim /\ ClaimFits(states[t], more)
    BY <1>1, <2>1, OneMoreFits
  <2>4. QED BY <1>3, <1>4, <1>9, <2>2, <2>3 DEF AcquireTerminal
<1>10. CASE ReleaseClaim(t, c)
  <2>1. Released(old) \in Claim /\ ClaimFits(states[t], Released(old))
    BY <1>1, <1>10, ReleasedFits DEF ReleaseClaim
  <2>2. claims' = [claims EXCEPT ![t][c] = Released(old)]
    BY <1>10 DEF ReleaseClaim
  <2>3. UNCHANGED <<states, disk, available, marker>>
    BY <1>10 DEF ReleaseClaim
  <2>4. QED BY <1>2, <2>1, <2>2, <2>3, ClaimChange
<1>11. CASE ClaimExpires(t, c)
  <2> DEFINE new == [old EXCEPT !.expired = TRUE]
  <2>1. new \in Claim /\ ClaimFits(states[t], new)
    BY <1>1, <1>11 DEF ClaimExpires, ClaimFits, Claim
  <2>2. claims' = [claims EXCEPT ![t][c] = new]
    BY <1>11 DEF ClaimExpires, Inv, TypeOK
  <2>3. UNCHANGED <<states, disk, available, marker>>
    BY <1>11 DEF ClaimExpires
  <2>4. QED BY <1>2, <2>1, <2>2, <2>3, ClaimChange
<1>12. QED
  BY <1>6, <1>7, <1>8, <1>9, <1>10, <1>11 DEF ClaimStep

(* A patch changes neither the epoch nor its generation. *)
LEMMA PatchedFacts ==
  ASSUME NEW s \in ThreadState, NEW n \in Patched(s), IsTerminal(s)
  PROVE  /\ n \in ThreadState
         /\ IsTerminal(n)
         /\ n.revision = s.revision
         /\ n.generation = s.generation
         /\ n.status = s.status \/ n.status # "starting"
<1>1. CASE \E p \in Pid : n = [s EXCEPT !.pid = p]
  BY <1>1 DEF ThreadState, IsTerminal
<1>2. CASE n \in {s, [s EXCEPT !.turn = FALSE]}
  BY <1>2 DEF ThreadState, IsTerminal
<1>3. CASE \E st \in {"checking", "ready", "error", "exited"} :
             n = [s EXCEPT !.status = st]
  BY <1>3 DEF ThreadState, TerminalStatus, IsTerminal
<1>4. CASE \E st \in {"ready", "attention", "context-blocked", "error", "exited"} :
             n = [s EXCEPT !.status = st, !.turn = FALSE]
  BY <1>4 DEF ThreadState, TerminalStatus, IsTerminal
<1>5. CASE n = [s EXCEPT !.status = "running", !.turn = TRUE]
  BY <1>5 DEF ThreadState, TerminalStatus, IsTerminal
<1>6. CASE n = [s EXCEPT !.status = "stopped", !.turn = FALSE, !.pid = Null]
  BY <1>6 DEF ThreadState, TerminalStatus, IsTerminal
<1>7. QED BY <1>1, <1>2, <1>3, <1>4, <1>5, <1>6 DEF Patched

LEMMA TerminalStepKeeps ==
  ASSUME Inv, NEW t \in Thread, TerminalStep(t)
  PROVE  Inv' /\ Forward
<1> DEFINE s == states[t]
<1>1. s \in ThreadState /\ s.revision \in Nat /\ Unborn(s)
  BY DEF Inv, TypeOK, ThreadState
<1> USE DEF IsTerminal, IsStructured, Tombstone, ReadyForStructured
<1>2. ASSUME Drained(t), ~Tombstone(s), IsStructured(s) => ReadyForStructured(s),
             Commit(t, Starting(s.revision + 1))
      PROVE  Inv' /\ Forward
  <2> DEFINE n == Starting(s.revision + 1)
  <2>1. n \in ThreadState
    BY <1>1, StartingTyped
  <2>2. Unborn(n) /\ Succeeds(s, n)
    BY <1>2 DEF Starting, Unborn, Succeeds, NextEpoch
  <2>3. QED BY <1>2, <2>1, <2>2, CommitKeeps DEF ClaimsFollow
<1>3. CASE BeginTerminalSwitch(t)
  BY <1>2, <1>3 DEF BeginTerminalSwitch
<1>4. CASE BeginTerminalRestart(t)
  BY <1>2, <1>4 DEF BeginTerminalRestart, TerminalIdle
<1>5. ASSUME IsTerminal(s), Drained(t), Commit(t, Stopping(s))
      PROVE  Inv' /\ Forward
  <2> DEFINE n == Stopping(s)
  <2>1. n \in ThreadState
    BY <1>1 DEF Stopping, ThreadState, TerminalStatus
  <2>2. Unborn(n) /\ Succeeds(s, n)
    BY <1>1, <1>5 DEF Stopping, Unborn, Succeeds, SameEpoch, ThreadState
  <2>3. QED BY <1>5, <2>1, <2>2, CommitKeeps DEF ClaimsFollow
<1>6. CASE BeginTerminalStop(t)
  BY <1>5, <1>6 DEF BeginTerminalStop, TerminalIdle
<1>7. CASE BeginStructuredSwitch(t)
  BY <1>5, <1>7 DEF BeginStructuredSwitch, TerminalIdle
<1>8. ASSUME NEW r, NEW g \in Generation, NEW p \in Pid,
             CompleteTerminalStart(t, r, g, p)
      PROVE  Inv' /\ Forward
  <2> DEFINE n == Started(s, g, p)
  <2>1. IsTerminal(s) /\ s.status = "starting" /\ s.generation = Null
    BY <1>1, <1>8 DEF CompleteTerminalStart, CanCompleteTerminalStart, Unborn
  <2>2. n \in ThreadState
    BY <1>1 DEF Started, ThreadState, TerminalStatus
  <2>3. Unborn(n) /\ Succeeds(s, n)
    BY <1>1, <2>1 DEF Started, Unborn, Succeeds, SameEpoch, ThreadState
  <2>4. Commit(t, n)
    BY <1>8 DEF CompleteTerminalStart
  <2>5. QED BY <2>1, <2>2, <2>3, <2>4, CommitKeeps DEF ClaimsFollow
<1>9. ASSUME NEW r, NEW g, NEW b, NEW n \in Patched(s),
             UpdateTerminal(t, r, g, b, n)
      PROVE  Inv' /\ Forward
  <2>1. IsTerminal(s) /\ Commit(t, n)
    BY <1>9 DEF UpdateTerminal, CanUpdateTerminal
  <2>2. /\ n \in ThreadState
        /\ IsTerminal(n)
        /\ n.revision = s.revision
        /\ n.generation = s.generation
        /\ n.status = s.status \/ n.status # "starting"
    BY <1>1, <2>1, PatchedFacts
  <2>3. Unborn(n) /\ Succeeds(s, n)
    BY <1>1, <2>1, <2>2 DEF Unborn, Succeeds, SameEpoch
  <2>4. ClaimsFollow(t, n)
    BY <2>1, <2>2 DEF ClaimsFollow
  <2>5. QED BY <2>1, <2>2, <2>3, <2>4, CommitKeeps
<1>10. ASSUME NEW r, ToStructured(t, r)
       PROVE  Inv' /\ Forward
  <2> DEFINE n == Restoring(s)
  <2>1. IsTerminal(s) /\ Commit(t, n)
    BY <1>10 DEF ToStructured, CanLeaveTerminal
  <2>2. n \in ThreadState
    BY <1>1, StructuredTyped DEF Restoring, StructuredStatus
  <2>3. Unborn(n) /\ Succeeds(s, n) /\ IsStructured(n)
    BY <2>1 DEF Restoring, Structured, Unborn, Succeeds, NextEpoch
  <2>4. QED BY <2>1, <2>2, <2>3, CommitKeeps DEF ClaimsFollow
<1>11. QED
  BY <1>3, <1>4, <1>6, <1>7, <1>8, <1>9, <1>10 DEF TerminalStep

LEMMA StructuredStepKeeps ==
  ASSUME Inv, NEW t \in Thread, StructuredStep(t)
  PROVE  Inv' /\ Forward
<1> DEFINE s == states[t]
<1>1. s \in ThreadState /\ s.revision \in Nat /\ Unborn(s)
  BY DEF Inv, TypeOK, ThreadState
<1> USE DEF IsTerminal, IsStructured, Tombstone, ReadyForStructured
<1>2. ASSUME NEW r \in Nat, NEW st \in StructuredStatus,
             Succeeds(s, Structured(r, st)),
             Commit(t, Structured(r, st)),
             Tombstone(s) => Drained(t)
      PROVE  Inv' /\ Forward
  <2> DEFINE n == Structured(r, st)
  <2>1. n \in ThreadState /\ Unborn(n) /\ IsStructured(n)
    BY StructuredTyped DEF Structured, Unborn
  <2>2. QED BY <1>2, <2>1, CommitKeeps DEF ClaimsFollow
<1>3. CASE BeginStructuredStop(t)
  <2> DEFINE n == Structured(s.revision + 1, "stopping")
  <2>1. ReadyForStructured(s) /\ Commit(t, n)
    BY <1>3 DEF BeginStructuredStop
  <2>2. Succeeds(s, n)
    BY <2>1 DEF Structured, Succeeds, NextEpoch
  <2>3. QED BY <1>1, <1>2, <2>1, <2>2 DEF StructuredStatus
<1>4. CASE BeginThreadDeletion(t)
  <2>1. CanBeginThreadDeletion(s) /\ Commit(t, DeletionBegun(s))
    BY <1>4 DEF BeginThreadDeletion
  <2>2. CASE IsStructured(s) \/ StoppedForGood(s)
    <3>1. DeletionBegun(s) = Structured(s.revision + 1, "deleting")
      BY <2>2 DEF DeletionBegun
    <3>2. Succeeds(s, Structured(s.revision + 1, "deleting"))
      BY <2>1, <2>2
         DEF CanBeginThreadDeletion, StoppedForGood, Structured, Succeeds,
             NextEpoch
    <3>3. ~Tombstone(s)
      BY <2>1 DEF CanBeginThreadDeletion
    <3>4. QED BY <1>1, <1>2, <2>1, <3>1, <3>2, <3>3 DEF StructuredStatus
  <2>3. CASE ~(IsStructured(s) \/ StoppedForGood(s))
    <3> DEFINE n == [s EXCEPT !.status = "deleting"]
    <3>1. IsTerminal(s) /\ Commit(t, n)
      BY <2>1, <2>3
         DEF CanBeginThreadDeletion, TerminalIdle, DeletionBegun
    <3>2. n \in ThreadState
      BY <1>1 DEF ThreadState, StructuredStatus
    <3>3. Unborn(n) /\ Succeeds(s, n)
      BY <1>1, <3>1 DEF Unborn, Succeeds, SameEpoch, ThreadState
    <3>4. ClaimsFollow(t, n)
      BY <1>1, <3>1 DEF ClaimsFollow, ThreadState
    <3>5. QED BY <3>1, <3>2, <3>3, <3>4, CommitKeeps
  <2>4. QED BY <2>2, <2>3
<1>5. CASE ForgetThread(t)
  <2>1. Tombstone(s) /\ Drained(t) /\ Commit(t, Structured(0, "ready"))
    BY <1>5 DEF ForgetThread, DefaultState
  <2>2. Succeeds(s, Structured(0, "ready"))
    BY <2>1 DEF Succeeds, Forgotten, DefaultState
  <2>3. QED BY <1>2, <2>1, <2>2 DEF StructuredStatus
<1>6. ASSUME NEW r, CompleteStructuredRestore(t, r) \/ CompleteStructuredStop(t, r)
      PROVE  Inv' /\ Forward
  <2>1. /\ IsStructured(s) /\ s.status \in {"restoring", "stopping"}
        /\ s.revision = r
        /\ Commit(t, Structured(r, "ready"))
    BY <1>6 DEF CompleteStructuredRestore, CanCompleteStructuredRestore,
                CompleteStructuredStop, CanCompleteStructuredStop
  <2>2. Succeeds(s, Structured(r, "ready"))
    BY <1>1, <2>1 DEF Unborn, Structured, Succeeds, SameEpoch
  <2>3. QED BY <1>1, <1>2, <2>1, <2>2 DEF StructuredStatus
<1>7. ASSUME NEW r, CompleteTerminalDeletion(t, r)
      PROVE  Inv' /\ Forward
  <2> DEFINE n == Structured(s.revision + 1, "deleting")
  <2>1. IsTerminal(s) /\ Commit(t, n)
    BY <1>7 DEF CompleteTerminalDeletion, CanCompleteTerminalDeletion
  <2>2. Succeeds(s, n)
    BY <2>1 DEF Structured, Succeeds, NextEpoch
  <2>3. QED BY <1>1, <1>2, <2>1, <2>2 DEF StructuredStatus
<1>8. QED
  BY <1>3, <1>4, <1>5, <1>6, <1>7 DEF StructuredStep

LEMMA RestartKeeps ==
  ASSUME Inv, Restart PROVE Inv' /\ Forward
<1>1. /\ AllDefault \in [Thread -> ThreadState]
      /\ \A t \in Thread : Unborn(AllDefault[t])
  BY DefaultsTyped DEF AllDefault, DefaultState, Structured, Unborn
<1>2. claims' = NoClaims
  BY DEF Restart
<1>3. /\ NoClaims \in [Thread -> [ClaimId -> Claim]]
      /\ \A t \in Thread, c \in ClaimId : NoClaims[t][c] = NoClaim
  BY DefaultsTyped DEF NoClaims
<1>4. \A s : ClaimFits(s, NoClaim)
  BY DEF ClaimFits
<1>5. CASE LoadUnavailable
  <2>1. /\ states' \in [Thread -> ThreadState] /\ disk' \in [Thread -> ThreadState]
        /\ available' = FALSE /\ marker' \in BOOLEAN
        /\ \A t \in Thread : Unborn(states'[t]) /\ Unborn(disk'[t])
    BY <1>1, <1>5 DEF LoadUnavailable, Inv, TypeOK
  <2>2. QED BY <1>2, <1>3, <1>4, <2>1 DEF Inv, TypeOK, Forward
<1>6. CASE LoadSnapshot
  <2>1. /\ states' = disk /\ disk' = disk /\ available' = TRUE
        /\ marker' = marker
    BY <1>6 DEF LoadSnapshot
  <2>2. Inv'
    BY <1>2, <1>3, <1>4, <2>1, SucceedsRefl DEF Inv, TypeOK
  <2>3. Forward
    BY <1>2, <2>1 DEF Forward, Inv
  <2>4. QED BY <2>2, <2>3
<1>7. QED BY <1>5, <1>6 DEF Restart

(* Every step keeps the invariant and goes forward. *)
LEMMA StepKeeps == Inv /\ [Next]_vars => Inv' /\ Forward
<1> SUFFICES ASSUME Inv, [Next]_vars PROVE Inv' /\ Forward
  OBVIOUS
<1>1. CASE UNCHANGED vars
  BY <1>1, SucceedsRefl DEF vars, Inv, TypeOK, Forward
<1>2. CASE \E t \in Thread : \E c \in ClaimId : ClaimStep(t, c)
  BY <1>2, ClaimStepKeeps
<1>3. CASE \E t \in Thread : TerminalStep(t)
  BY <1>3, TerminalStepKeeps
<1>4. CASE \E t \in Thread : StructuredStep(t)
  BY <1>4, StructuredStepKeeps
<1>5. CASE Restart
  BY <1>5, RestartKeeps
<1>6. CASE OperatorResolves
  BY <1>6, SucceedsRefl DEF OperatorResolves, Inv, TypeOK, Forward
<1>7. QED BY <1>1, <1>2, <1>3, <1>4, <1>5, <1>6 DEF Next

LEMMA InitKeeps == Init => Inv
<1> SUFFICES ASSUME Init PROVE Inv
  OBVIOUS
<1>1. /\ AllDefault \in [Thread -> ThreadState]
      /\ \A t \in Thread : Unborn(AllDefault[t])
  BY DefaultsTyped DEF AllDefault, DefaultState, Structured, Unborn
<1>2. /\ NoClaims \in [Thread -> [ClaimId -> Claim]]
      /\ \A t \in Thread, c \in ClaimId : NoClaims[t][c] = NoClaim
  BY DefaultsTyped DEF NoClaims
<1>3. QED
  BY <1>1, <1>2, SucceedsRefl DEF Init, Inv, TypeOK, ClaimFits

-----------------------------------------------------------------------------
(* The theorems *)

(* The inductive invariant holds: the base of all that follows. *)
THEOREM Invariance == Spec => []Inv
BY InitKeeps, StepKeeps, PTL DEF Spec

(* Every variable keeps its type; holder counts never become negative. *)
THEOREM TypeCorrect == Spec => []TypeOK
<1>1. Inv => TypeOK BY DEF Inv
<1>2. QED BY <1>1, Invariance, PTL

(* Claims in flight on a terminal thread belong to the epoch that owns it. *)
THEOREM ClaimsAreCurrent == Spec => []ClaimsMatchEpoch
<1>1. Inv => ClaimsMatchEpoch BY InvMeans
<1>2. QED BY <1>1, Invariance, PTL

(* A claim can expire exactly as long as nobody holds it. *)
THEOREM HeldClaimsStay == Spec => []LeasedIffHeld
<1>1. Inv => LeasedIffHeld BY InvMeans
<1>2. QED BY <1>1, Invariance, PTL

(* The snapshot is memory, or one operation ahead of it. *)
THEOREM SnapshotIsCurrent == Spec => []DurableNotBehind
<1>1. Inv => DurableNotBehind BY InvMeans
<1>2. QED BY <1>1, Invariance, PTL

(* Nothing but a finished start gives an epoch its generation. *)
THEOREM StartsAreClean == Spec => []StartingIsUnborn
<1>1. Inv => StartingIsUnborn BY InvMeans
<1>2. QED BY <1>1, Invariance, PTL

(* A thread is given back to the structured runtime in two writes. *)
THEOREM HandoverInTwoSteps == Spec => ReadyIsEarned
<1>1. Inv /\ [Next]_vars =>
        [\A t \in Thread :
           available /\ available' /\ ReadyForStructured(states'[t])
             /\ ~ReadyForStructured(states[t]) =>
           \/ /\ IsStructured(states[t])
              /\ states[t].status \in {"restoring", "stopping"}
              /\ states'[t].revision = states[t].revision
           \/ Tombstone(states[t])]_vars
  BY StepKeeps DEF Forward, Succeeds, SameEpoch, NextEpoch, Forgotten,
       ReadyForStructured, IsStructured
<1>2. QED BY <1>1, Invariance, PTL DEF Spec, ReadyIsEarned

(* Two owners never share a revision. *)
THEOREM RevisionTellsOwner == Spec => OwnersHaveOwnRevision
<1>1. Inv /\ [Next]_vars =>
        [\A t \in Thread :
           available /\ available' /\ states'[t].adapter # states[t].adapter =>
             states'[t].revision = states[t].revision + 1]_vars
  BY StepKeeps DEF Forward, Succeeds, SameEpoch, NextEpoch, Forgotten,
       Tombstone, IsStructured, DefaultState, Structured
<1>2. QED BY <1>1, Invariance, PTL DEF Spec, OwnersHaveOwnRevision

(* The generation of an epoch is set once. *)
THEOREM OneGenerationPerEpoch == Spec => GenerationNeverReplaced
<1>1. Inv /\ [Next]_vars =>
        [\A t \in Thread :
           available /\ available' /\ states[t].generation # Null
             /\ states'[t].revision = states[t].revision =>
           states'[t].generation = states[t].generation]_vars
  <2> SUFFICES ASSUME Inv, [Next]_vars, NEW t \in Thread,
                      available, available', states[t].generation # Null,
                      states'[t].revision = states[t].revision
               PROVE  states'[t].generation = states[t].generation
    BY DEF vars
  <2>1. Succeeds(states[t], states'[t])
    BY StepKeeps DEF Forward
  <2>2. states[t].revision \in Nat /\ Unborn(states[t])
    BY DEF Inv, TypeOK, ThreadState
  <2>3. QED
    BY <2>1, <2>2 DEF Succeeds, SameEpoch, NextEpoch, Forgotten, Tombstone, Unborn
<1>2. QED BY <1>1, Invariance, PTL DEF Spec, GenerationNeverReplaced

(* A tombstone stays until the thread is forgotten with nothing in flight. *)
THEOREM DeletionIsFinal == Spec => TombstoneIsFinal
<1>1. Inv /\ [Next]_vars =>
        [\A t \in Thread :
           available /\ available' /\ Tombstone(states[t]) =>
             \/ states'[t] = states[t]
             \/ states'[t] = DefaultState /\ claims'[t] = NoClaims[t]]_vars
  BY StepKeeps DEF Forward, Succeeds, SameEpoch, NextEpoch, Forgotten
<1>2. QED BY <1>1, Invariance, PTL DEF Spec, TombstoneIsFinal
=============================================================================
