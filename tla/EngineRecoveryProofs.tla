--------------------------- MODULE EngineRecoveryProofs ---------------------------
(***************************************************************************)
(* What the worker does after a commit can be cut short anywhere, and is   *)
(* made good from the log: the command read model, the stream of events    *)
(* and the tables follow the log in every state in which they are relied   *)
(* on, as long as one replay can read the log.                             *)
(*                                                                         *)
(* The invariant says how far each of them has got, by the step the worker *)
(* is at: a run that fails knows from where to read the log again, and the *)
(* hot tables are behind the log only while a repair rebuilds them.  It    *)
(* rests on what a replay leaves behind, whatever the tables were: each    *)
(* projector reflects what it read that concerns it, up to its new cursor. *)
(***************************************************************************)
EXTENDS OrchestrationEngineProofs, WellFoundedInduction

(* One replay reads what is left of the log. *)
OneReplayReadsAll == Len(log) <= ReadLimit

(* Cursors and tables of the log as it is. *)
Cursors == [Cursor -> 0..Len(log)]
Tables == [Projector -> SUBSET Sequence]

(* The table t reflects what concerns p of the events after one, to another. *)
Reflects(t, p, after, to) == \A s \in Sequence : after < s /\ s <= to /\ Applies(p, s) => s \in t

-----------------------------------------------------------------------------
(* Least and greatest numbers *)

(* A set of numbers has a least one. *)
LEMMA Least ==
  ASSUME NEW S, S \subseteq Nat, S # {}
  PROVE  \E x \in S : \A y \in S : x <= y
<1> DEFINE R == {ss \in Nat \X Nat : ss[1] < ss[2]}
<1>1. IsWellFoundedOn(R, Nat)
  BY NatLessThanWellFounded DEF OpToRel
<1>2. \A a, b \in Nat : a < b => <<a, b>> \in R
  OBVIOUS
<1> HIDE DEF R
<1>3. PICK x \in S : \A y \in S : ~(<<y, x>> \in R)
  BY <1>1, WFMin
<1>4. \A y \in S : ~(y < x)
  BY <1>2, <1>3
<1> QED
  BY <1>3, <1>4

(* A bounded one has a greatest. *)
LEMMA Greatest ==
  ASSUME NEW n \in Nat, NEW S, S \subseteq 0..n, S # {}
  PROVE  \E x \in S : \A y \in S : x >= y
<1> DEFINE T == {n - x : x \in S}
<1>1. T \subseteq Nat /\ T # {}
  <2>1. \A x \in 0..n : n - x \in Nat
    OBVIOUS
  <2> QED
    BY <2>1
<1>2. PICK t \in T : \A u \in T : t <= u
  <2> HIDE DEF T
  <2> QED
    BY <1>1, Least
<1>3. PICK x \in S : t = n - x
  OBVIOUS
<1>4. \A y \in S : n - x <= n - y
  BY <1>2, <1>3
<1> QED
  BY <1>3, <1>4

(* Min and Max are in the set, and bound it. *)
LEMMA MinIn ==
  ASSUME NEW S, S \subseteq Nat, S # {}
  PROVE  Min(S) \in S /\ \A y \in S : Min(S) <= y
BY Least DEF Min

(* Likewise. *)
LEMMA MaxIn ==
  ASSUME NEW n \in Nat, NEW S, S \subseteq 0..n, S # {}
  PROVE  Max(S) \in S /\ \A y \in S : Max(S) >= y
BY Greatest DEF Max

(* An upsert takes the later of two sequences. *)
LEMMA UpsertedLater ==
  ASSUME NEW a \in Nat, NEW b \in Nat
  PROVE  /\ Upserted(a, b) \in {a, b}
         /\ Upserted(a, b) >= a /\ Upserted(a, b) >= b
<1> DEFINE n == IF a <= b THEN b ELSE a
<1>1. n \in Nat /\ {a, b} \subseteq 0..n /\ {a, b} # {}
  OBVIOUS
<1>2. Max({a, b}) \in {a, b} /\ \A y \in {a, b} : Max({a, b}) >= y
  BY <1>1, MaxIn
<1> QED
  BY <1>2 DEF Upserted

-----------------------------------------------------------------------------
(* One projector *)

(* A refresh takes in events of the log, the one it comes with among them. *)
LEMMA RefreshedEvents ==
  ASSUME NEW s \in Sequence, Applies(Summaries, s)
  PROVE  RefreshedBy(s) \subseteq Sequence /\ s \in RefreshedBy(s)
BY DEF RefreshedBy

(* What is written reflects what was applied. *)
LEMMA WrittenEvents ==
  ASSUME NEW p \in Projector, NEW S, S \subseteq Sequence
  PROVE  /\ Written(p, S) \subseteq Sequence
         /\ \A s \in S : Applies(p, s) => s \in Written(p, S)
<1>1. CASE p = Summaries
  BY <1>1, RefreshedEvents DEF Written
<1>2. CASE p # Summaries
  BY <1>2 DEF Written
<1> QED
  BY <1>1, <1>2

(* A replay reads on from a cursor, to the end of the log if it can. *)
LEMMA ReadsOn ==
  ASSUME Len(log) \in Nat, NEW c \in 0..Len(log)
  PROVE  \E end \in c..Len(log) : /\ ReadFromSequence(c) = c + 1 .. end
                                  /\ OneReplayReadsAll => end = Len(log)
<1> DEFINE both == {Len(log), c + ReadLimit}
           end == Min(both)
<1>1. both \subseteq Nat /\ both # {} /\ c + ReadLimit >= c /\ c <= Len(log)
  BY ReadLimitAssumption
<1>2. end \in both /\ \A y \in both : end <= y
  <2> HIDE DEF both
  <2> QED
    BY <1>1, MinIn
<1>3. end \in c..Len(log)
  BY <1>1, <1>2, ReadLimitAssumption
<1>4. OneReplayReadsAll => end = Len(log)
  BY <1>1, <1>2, <1>3, ReadLimitAssumption DEF OneReplayReadsAll
<1>5. ReadFromSequence(c) = c + 1 .. end
  BY DEF ReadFromSequence
<1> HIDE DEF end
<1> QED
  BY <1>3, <1>4, <1>5

(* A projector that gets through. *)
LEMMA Through ==
  ASSUME Len(log) \in Nat, NEW p \in Projector, NEW c \in Cursors, NEW r \in Tables
  PROVE  LET b == BootstrapProjector(p, c, r)
         IN /\ b.cursor \in 0..Len(log) /\ b.rows \in SUBSET Sequence
            /\ r[p] \subseteq b.rows
            /\ Reflects(b.rows, p, c[p], b.cursor)
            /\ OneReplayReadsAll => Reflects(b.rows, p, c[p], Len(log))
<1> DEFINE read == ReadFromSequence(c[p])
<1>1. c[p] \in 0..Len(log) /\ r[p] \subseteq Sequence
  BY DEF Cursors, Tables, Cursor
<1>2. PICK end \in c[p]..Len(log) : /\ ReadFromSequence(c[p]) = c[p] + 1 .. end
                                    /\ OneReplayReadsAll => end = Len(log)
  BY <1>1, ReadsOn
<1>3. /\ read \subseteq c[p] + 1 .. Len(log) /\ read \subseteq Sequence
      /\ OneReplayReadsAll => read = c[p] + 1 .. Len(log)
  BY <1>2, <1>1 DEF Sequence
<1>4. Written(p, read) \subseteq Sequence /\ \A s \in read : Applies(p, s) => s \in Written(p, read)
  <2> HIDE DEF read
  <2> QED
    BY <1>3, WrittenEvents
<1>5. \A m \in read : \A s \in Sequence : c[p] < s /\ s <= m => s \in read
  BY <1>2, <1>1 DEF Sequence
<1>6. read # {} => Max(read) \in read
  <2> HIDE DEF read
  <2>1. read \subseteq 0..Len(log)
    BY <1>1, <1>3
  <2> QED
    BY <2>1, MaxIn
<1> DEFINE b == BootstrapProjector(p, c, r)
<1>7. /\ b.cursor = IF read = {} THEN c[p] ELSE Max(read)
      /\ b.rows = r[p] \cup Written(p, read)
  BY DEF BootstrapProjector
<1> HIDE DEF read, b
<1>8. b.cursor \in 0..Len(log)
  <2>1. \A n \in read : n \in 0..Len(log)
    BY <1>1, <1>3
  <2>2. CASE read = {}
    BY <1>1, <1>7, <2>2
  <2>3. CASE read # {}
    BY <1>6, <1>7, <2>1, <2>3
  <2> QED
    BY <2>2, <2>3
<1>9. b.rows \in SUBSET Sequence /\ r[p] \subseteq b.rows
  BY <1>1, <1>4, <1>7
<1>10. Reflects(b.rows, p, c[p], b.cursor)
  <2>1. CASE read = {}
    BY <1>1, <1>7, <2>1 DEF Reflects, Sequence
  <2>2. CASE read # {}
    BY <1>4, <1>5, <1>6, <1>7, <2>2 DEF Reflects
  <2> QED
    BY <2>1, <2>2
<1>11. OneReplayReadsAll => Reflects(b.rows, p, c[p], Len(log))
  <2>1. \A s \in Sequence : c[p] < s => s \in c[p] + 1 .. Len(log)
    BY <1>1 DEF Sequence
  <2> QED
    BY <1>3, <1>4, <1>7, <2>1 DEF Reflects
<1> QED
  BY <1>8, <1>9, <1>10, <1>11 DEF b

(* A projector that stops. *)
LEMMA Stopped ==
  ASSUME Len(log) \in Nat, NEW p \in Projector, NEW c \in Cursors, NEW r \in Tables,
         NEW f \in Nat
  PROVE  LET b == StoppedProjector(p, f, c, r)
         IN /\ b.cursor \in 0..Len(log) /\ b.rows \in SUBSET Sequence
            /\ r[p] \subseteq b.rows
            /\ Reflects(b.rows, p, c[p], b.cursor)
<1> DEFINE read == {s \in ReadFromSequence(c[p]) : s < f}
           applied == {s \in read : Applies(p, s)}
<1>1. c[p] \in 0..Len(log) /\ r[p] \subseteq Sequence
  BY DEF Cursors, Tables, Cursor
<1>2. PICK end \in c[p]..Len(log) : ReadFromSequence(c[p]) = c[p] + 1 .. end
  BY <1>1, ReadsOn
<1>3. read \subseteq Sequence /\ read \subseteq 0..Len(log) /\ applied \subseteq read
  BY <1>1, <1>2 DEF Sequence
<1>4. Written(p, read) \subseteq Sequence /\ \A s \in read : Applies(p, s) => s \in Written(p, read)
  <2> HIDE DEF read
  <2> QED
    BY <1>3, WrittenEvents
<1>5. \A m \in read : \A s \in Sequence : c[p] < s /\ s <= m => s \in read
  BY <1>1, <1>2 DEF Sequence
<1>6. applied # {} => Max(applied) \in applied
  <2> HIDE DEF applied, read
  <2> QED
    BY <1>3, MaxIn
<1> DEFINE b == StoppedProjector(p, f, c, r)
<1>7. /\ b.cursor = IF applied = {} THEN c[p] ELSE Max(applied)
      /\ b.rows = r[p] \cup Written(p, read)
  BY DEF StoppedProjector
<1> HIDE DEF read, applied, b
<1>8. b.cursor \in 0..Len(log)
  <2>1. \A n \in applied : n \in 0..Len(log)
    BY <1>3
  <2>2. CASE applied = {}
    BY <1>1, <1>7, <2>2
  <2>3. CASE applied # {}
    BY <1>6, <1>7, <2>1, <2>3
  <2> QED
    BY <2>2, <2>3
<1>9. b.rows \in SUBSET Sequence /\ r[p] \subseteq b.rows
  BY <1>1, <1>4, <1>7
<1>10. Reflects(b.rows, p, c[p], b.cursor)
  <2>1. CASE applied = {}
    BY <1>1, <1>7, <2>1 DEF Reflects, Sequence
  <2>2. CASE applied # {}
    BY <1>3, <1>4, <1>5, <1>6, <1>7, <2>2 DEF Reflects
  <2> QED
    BY <2>1, <2>2
<1> QED
  BY <1>8, <1>9, <1>10 DEF b

-----------------------------------------------------------------------------
(* All projectors *)

(* The store e has what r had, and every projector reflects what its cursor
   passed since c. *)
Furthers(e, c, r) ==
  /\ e.cursor \in Cursors /\ e.rows \in Tables
  /\ \A p \in Projector :
       r[p] \subseteq e.rows[p] /\ Reflects(e.rows[p], p, c[p], e.cursor[p])

(* In the store e every projector reflects what came after c. *)
Completes(e, c) == \A p \in Projector : Reflects(e.rows[p], p, c[p], Len(log))

(* However many projectors are through, and wherever the next one stopped. *)
LEMMA ProgressFurthers ==
  ASSUME Len(log) \in Nat, NEW c \in Cursors, NEW r \in Tables,
         NEW n \in 0..Len(projectors), NEW f \in Nat
  PROVE  LET e == Progress(n, f, c, r)
         IN /\ Furthers(e, c, r)
            /\ e.cursor["hot"] = c["hot"]
            /\ n = Len(projectors) /\ OneReplayReadsAll => Completes(e, c)
<1> DEFINE Of(p) ==
             LET i == CHOOSE i \in 1..Len(projectors) : projectors[i] = p
             IN IF i <= n THEN BootstrapProjector(p, c, r)
                ELSE IF i = n + 1 THEN StoppedProjector(p, f, c, r)
                ELSE [cursor |-> c[p], rows |-> r[p]]
           e == Progress(n, f, c, r)
<1>1. /\ e.cursor = [p \in Cursor |-> IF p = "hot" THEN c[p] ELSE Of(p).cursor]
      /\ e.rows = [p \in Projector |-> Of(p).rows]
  BY DEF Progress
<1>2. ASSUME NEW p \in Projector
      PROVE  /\ Of(p).cursor \in 0..Len(log) /\ Of(p).rows \in SUBSET Sequence
             /\ r[p] \subseteq Of(p).rows
             /\ Reflects(Of(p).rows, p, c[p], Of(p).cursor)
             /\ n = Len(projectors) /\ OneReplayReadsAll =>
                  Reflects(Of(p).rows, p, c[p], Len(log))
  <2>1. PICK i : /\ i \in 1..Len(projectors)
                 /\ i = CHOOSE j \in 1..Len(projectors) : projectors[j] = p
    BY DEF Projector
  <2>2. i \in Int /\ n \in Int /\ i <= Len(projectors)
    <3>1. Len(projectors) \in Nat
      BY ProjectorsAssumption
    <3>2. i \in 1..Len(projectors)
      BY <2>1
    <3> QED
      BY <3>1, <3>2
  <2>3. CASE i <= n
    <3>1. Of(p) = BootstrapProjector(p, c, r)
      BY <2>1, <2>3
    <3> HIDE DEF Of
    <3> QED
      BY <3>1, Through
  <2>4. CASE i = n + 1
    <3>1. ~(i <= n) /\ n # Len(projectors)
      BY <2>2, <2>4
    <3>2. Of(p) = StoppedProjector(p, f, c, r)
      BY <2>1, <2>4, <3>1
    <3> HIDE DEF Of
    <3> QED
      BY <3>1, <3>2, Stopped
  <2>5. CASE ~(i <= n) /\ i # n + 1
    <3>1. Of(p) = [cursor |-> c[p], rows |-> r[p]] /\ n # Len(projectors)
      BY <2>1, <2>2, <2>5
    <3>2. c[p] \in 0..Len(log) /\ r[p] \in SUBSET Sequence
      BY DEF Cursors, Tables, Cursor
    <3>3. Reflects(r[p], p, c[p], c[p])
      BY <3>2 DEF Reflects, Sequence
    <3> HIDE DEF Of
    <3> QED
      BY <3>1, <3>2, <3>3
  <2> QED
    BY <2>3, <2>4, <2>5
<1> HIDE DEF Of, e
<1>3. e.cursor \in Cursors /\ e.rows \in Tables /\ e.cursor["hot"] = c["hot"]
  <2>1. \A p \in Cursor : p # "hot" => p \in Projector
    BY DEF Cursor
  <2>2. c["hot"] \in 0..Len(log) /\ "hot" \in Cursor
    BY DEF Cursors, Cursor
  <2> QED
    BY <1>1, <1>2, <2>1, <2>2 DEF Cursors, Tables
<1>4. \A p \in Projector : e.cursor[p] = Of(p).cursor /\ e.rows[p] = Of(p).rows
  BY <1>1, ProjectorsAssumption DEF Cursor
<1>5. Furthers(e, c, r)
  BY <1>2, <1>3, <1>4 DEF Furthers
<1>6. n = Len(projectors) /\ OneReplayReadsAll => Completes(e, c)
  BY <1>2, <1>4 DEF Completes
<1> QED
  BY <1>3, <1>5, <1>6 DEF e

(* Only hot projectors are moved ahead, and only by a hot cursor. *)
LEMMA FastForwards ==
  ASSUME Len(log) \in Nat, NEW c \in Cursors
  PROVE  /\ FastForwarded(c) \in Cursors
         /\ FastForwarded(c)["hot"] = c["hot"]
         /\ FastForwarded(c)[Summaries] = c[Summaries]
         /\ c["hot"] = 0 => \A p \in Projector : FastForwarded(c)[p] = c[p]
<1>1. /\ \A p \in Cursor : c[p] \in 0..Len(log)
      /\ "hot" \in Cursor /\ Projector \subseteq Cursor /\ Summaries \in Projector
  BY ProjectorsAssumption DEF Cursors, Cursor
<1>2. "hot" \notin HotProjector /\ Summaries \notin HotProjector
  BY ProjectorsAssumption DEF HotProjector
<1> QED
  BY <1>1, <1>2 DEF FastForwarded, Cursors

(* No other cursor than the hot one is initialised. *)
LEMMA HotCursorInitialised ==
  ASSUME Len(log) \in Nat, NEW c \in Cursors
  PROVE  /\ InitializeHotCursor(c) \in Cursors
         /\ \A p \in Projector : InitializeHotCursor(c)[p] = c[p]
<1> DEFINE stored == {c[p] : p \in HotProjector} \ {0}
<1>1. CASE stored = {}
  BY <1>1 DEF InitializeHotCursor
<1>2. CASE stored # {}
  <2>1. c["hot"] \in 0..Len(log) /\ "hot" \in Cursor
    BY DEF Cursors, Cursor
  <2>2. stored \subseteq 0..Len(log)
    BY DEF Cursors, Cursor, HotProjector
  <2>3. Min(stored) \in 0..Len(log)
    <3> HIDE DEF stored
    <3>1. stored \subseteq Nat
      BY <2>2
    <3>2. Min(stored) \in stored
      BY <1>2, <3>1, MinIn
    <3> QED
      BY <2>2, <3>2
  <2> DEFINE u == Upserted(c["hot"], Min(stored))
  <2>4. u \in 0..Len(log)
    <3> HIDE DEF stored
    <3> QED
      BY <2>1, <2>3, UpsertedLater
  <2>5. InitializeHotCursor(c) = [c EXCEPT !["hot"] = u]
    BY <1>2 DEF InitializeHotCursor
  <2> HIDE DEF u
  <2> QED
    BY <2>1, <2>4, <2>5, ProjectorsAssumption DEF Cursors, Cursor
<1> QED
  BY <1>1, <1>2

-----------------------------------------------------------------------------
(* A bootstrap *)

(* One that gets through has replayed every projector to the end. *)
LEMMA BootstrapCompletes ==
  ASSUME Len(log) \in Nat, NEW c \in Cursors, NEW r \in Tables
  PROVE  LET e == Bootstrapped(c, r)
         IN /\ Furthers(e, FastForwarded(c), r)
            /\ OneReplayReadsAll => Completes(e, FastForwarded(c))
<1> DEFINE d == FastForwarded(c)
           end == Progress(Len(projectors), 0, d, r)
           e == Bootstrapped(c, r)
<1>1. d \in Cursors /\ Len(projectors) \in 0..Len(projectors)
  BY FastForwards, ProjectorsAssumption
<1>2. Furthers(end, d, r) /\ (OneReplayReadsAll => Completes(end, d))
  <2> HIDE DEF d
  <2> QED
    BY <1>1, ProgressFurthers
<1>3. e.cursor = InitializeHotCursor(end.cursor) /\ e.rows = end.rows
  BY DEF Bootstrapped, Progress
<1> HIDE DEF e, end, d
<1>4. e.cursor \in Cursors /\ \A p \in Projector : e.cursor[p] = end.cursor[p]
  BY <1>2, <1>3, HotCursorInitialised DEF Furthers
<1>5. Furthers(e, d, r)
  BY <1>2, <1>3, <1>4 DEF Furthers
<1>6. OneReplayReadsAll => Completes(e, d)
  BY <1>2, <1>3 DEF Completes
<1> QED
  BY <1>5, <1>6 DEF d, e

(* One that fails has replayed some. *)
LEMMA BrokenOffFurthers ==
  ASSUME Len(log) \in Nat, NEW c \in Cursors, NEW r \in Tables, NEW e \in BrokenOff(c, r)
  PROVE  /\ \/ Furthers(e, c, r)
            \/ Furthers(e, FastForwarded(c), r)
         /\ e.cursor["hot"] = c["hot"]
<1>1. CASE e = [cursor |-> c, rows |-> r]
  <2>1. \A p \in Projector : c[p] \in 0..Len(log)
    BY DEF Cursors, Cursor
  <2>2. \A p \in Projector : Reflects(r[p], p, c[p], c[p])
    BY <2>1 DEF Reflects, Sequence
  <2> QED
    BY <1>1, <2>2 DEF Furthers
<1>2. CASE \E n \in 0..Len(projectors), f \in Sequence :
             e = Progress(n, f, FastForwarded(c), r)
  <2>1. PICK n \in 0..Len(projectors), f \in Sequence :
               e = Progress(n, f, FastForwarded(c), r)
    BY <1>2
  <2>2. f \in Nat /\ FastForwarded(c) \in Cursors /\ FastForwarded(c)["hot"] = c["hot"]
    BY FastForwards DEF Sequence
  <2> QED
    BY <2>1, <2>2, ProgressFurthers
<1> QED
  BY <1>1, <1>2 DEF BrokenOff

(* The log never outgrows a replay. *)
OneReplay == MaxEvents \in Nat /\ MaxEvents <= ReadLimit

-----------------------------------------------------------------------------
(* The invariant *)

InRun == worker.step \in {"committed", "deferring", "publishing", "answering"}

(* Numbers are places in the log. *)
Within ==
  /\ Len(log) \in Nat /\ OneReplayReadsAll
  /\ cursor \in Cursors /\ rows \in Tables
  /\ worker.start \in 0..Len(log)
  /\ commandReadModel.snapshotSequence \in 0..Len(log)
  /\ base \in 0..Len(log) /\ heard \subseteq Sequence
  /\ repair.under => repair.cursor \in Cursors /\ repair.projects \subseteq Sequence

(* A run works on the last events of the log, and started before them. *)
Placed ==
  InRun =>
    /\ worker.first \in 1..Len(log) /\ worker.last = Len(log)
    /\ worker.next \in worker.first..worker.last
    /\ worker.start < worker.first
    /\ worker.step = "committed" => worker.next = worker.first

(* Nothing runs when the engine is down, and no run during a repair. *)
Exclusive ==
  /\ ~up => worker.step = "idle" /\ heard = {} /\ ~repair.under
  /\ repair.under => ~Holding

(* How far the events are published, and the model set, at the least. *)
Published ==
  IF worker.step \in {"committed", "deferring"} THEN worker.first - 1
  ELSE IF worker.step = "publishing" THEN worker.next - 1
  ELSE IF worker.step = "failed" THEN worker.start
  ELSE Len(log)

Modelled ==
  IF worker.step = "committed" THEN worker.first - 1
  ELSE IF worker.step = "failed" THEN worker.start
  ELSE Len(log)

HeardSoFar ==
  "unreconciled" \notin degraded =>
    /\ \A s \in heard : base + 1 .. s \subseteq heard
    /\ up => base + 1 .. Published \subseteq heard

ModelSoFar ==
  degraded = {} /\ up => 1..Modelled \subseteq commandReadModel.reflects

(* A hot table reflects the log, but for the one that a repair rebuilds: that
   is replayed from its own cursor, as there is no hot cursor yet. *)
HotTable(p) ==
  \/ Reflects(rows[p], p, 0, Len(log))
  \/ /\ p = "projects" /\ (repair.under \/ ~up)
     /\ cursor["hot"] = 0 /\ Reflects(rows[p], p, 0, cursor[p])

HotTables ==
  "unrestored" \notin degraded =>
    /\ \A p \in HotProjector : HotTable(p)
    /\ repair.under => Reflects(repair.projects, "projects", 0, Len(log))

(* The summaries reflect what was projected or given up. *)
Summed == rows[Summaries] \cup skipped

SummaryTable ==
  "unrestored" \notin degraded =>
    /\ Reflects(Summed, Summaries, 0, cursor[Summaries])
    /\ repair.under => Reflects(Summed, Summaries, 0, repair.cursor[Summaries])

Projected == IF worker.step \in {"committed", "deferring"} THEN worker.next - 1 ELSE Len(log)

SummedSoFar ==
  "unrestored" \notin degraded /\ up /\ ~dirty =>
    Reflects(Summed, Summaries, 0, Projected)

(* A repair replays the projects from the start. *)
FromTheStart == repair.under => cursor["projects"] = 0 /\ cursor["hot"] = 0

(* Every table that the model is loaded from has its projector. *)
Listed == \A s \in Sequence : \A p \in SnapshotTables : Applies(p, s) => p \in Projector

Stored == HotTables /\ SummaryTable /\ FromTheStart /\ Listed

Recovering ==
  /\ Within /\ Placed /\ Exclusive
  /\ HeardSoFar /\ ModelSoFar
  /\ Stored /\ SummedSoFar

-----------------------------------------------------------------------------
(* What the invariant says *)

(* A run decides on a model of all the log. *)
LEMMA ModelIsCurrent == Recovering => DecidesOnCurrentModel
<1> SUFFICES ASSUME Recovering, worker.step = "running", degraded = {}
             PROVE  Sequence \subseteq commandReadModel.reflects
  BY DEF DecidesOnCurrentModel
<1>1. up
  BY DEF Recovering, Exclusive
<1> QED
  BY <1>1 DEF Recovering, ModelSoFar, Modelled, Sequence

(* No table is behind its cursor. *)
LEMMA TablesFollowCursors == Recovering => SkippedOnlyByTimeout
<1> SUFFICES ASSUME Recovering, "unrestored" \notin degraded, NEW p \in Projector,
                    NEW s \in 1..cursor[p], Applies(p, s)
             PROVE  s \in rows[p] \/ (p = Summaries /\ s \in skipped)
  BY DEF SkippedOnlyByTimeout
<1>1. cursor[p] \in 0..Len(log)
  BY DEF Recovering, Within, Cursors, Cursor
<1>2. s \in Sequence /\ 0 < s /\ s <= cursor[p] /\ s <= Len(log)
  BY <1>1 DEF Sequence
<1>3. CASE p = Summaries
  BY <1>2, <1>3 DEF Recovering, Stored, SummaryTable, Summed, Reflects
<1>4. CASE p # Summaries
  BY <1>2, <1>4 DEF Recovering, Stored, HotTables, HotTable, HotProjector, Reflects
<1> QED
  BY <1>3, <1>4

(* No subscriber has a gap. *)
LEMMA NoGap == Recovering => HeardInOrder
BY DEF Recovering, HeardSoFar, HeardInOrder

-----------------------------------------------------------------------------
(* Steps that leave the store alone *)

(* The store as it is, though more may have been given up. *)
LEMMA StoredStays ==
  ASSUME Within, Stored, UNCHANGED <<pipeline, repair, up>>,
         degraded \subseteq degraded', skipped \subseteq skipped'
  PROVE  Stored'
<1>1. HotTables'
  BY DEF Stored, HotTables, HotTable, Reflects, Sequence, Applies, pipeline
<1>2. SummaryTable'
  BY DEF Stored, SummaryTable, Summed, Reflects, Sequence, Applies, pipeline
<1>3. FromTheStart' /\ Listed'
  BY DEF Stored, FromTheStart, Listed, Sequence, Applies, pipeline
<1> QED
  BY <1>1, <1>2, <1>3 DEF Stored

(* A step of callers. *)
LEMMA CallersRecover ==
  ASSUME Recovering,
         UNCHANGED <<pipeline, worker, commandReadModel, heard, dirty, repair, up, base,
                     skipped, degraded>>
  PROVE  Recovering'
<1>1. Stored'
  BY StoredStays DEF Recovering
<1>2. Within' /\ Placed' /\ Exclusive'
  BY DEF Recovering, Within, Placed, InRun, Exclusive, Holding, OneReplayReadsAll, Cursors,
     Tables, Sequence, pipeline
<1>3. HeardSoFar' /\ ModelSoFar'
  BY DEF Recovering, HeardSoFar, ModelSoFar, Published, Modelled, pipeline
<1>4. SummedSoFar'
  BY DEF Recovering, SummedSoFar, Projected, Summed, Reflects, Sequence, Applies, pipeline
<1> QED
  BY <1>1, <1>2, <1>3, <1>4 DEF Recovering

(* The worker moves between steps at which all of the log is taken care of. *)
Settled == {"idle", "waiting", "running", "resolving"}

LEMMA WorkerRecovers ==
  ASSUME Recovering, up,
         UNCHANGED <<pipeline, commandReadModel, heard, dirty, repair, up, base, skipped,
                     degraded>>,
         worker.step \in Settled \cup {"answering"}, worker'.step \in Settled,
         worker'.start \in 0..Len(log), repair.under => ~Holding'
  PROVE  Recovering'
<1>1. Stored'
  BY StoredStays DEF Recovering
<1>2. Within' /\ Placed' /\ Exclusive'
  BY DEF Recovering, Within, Placed, InRun, Exclusive, OneReplayReadsAll, Cursors,
     Tables, Sequence, pipeline, Settled
<1>3. HeardSoFar' /\ ModelSoFar'
  BY DEF Recovering, HeardSoFar, ModelSoFar, Published, Modelled, pipeline, Settled
<1>4. SummedSoFar'
  BY DEF Recovering, SummedSoFar, Projected, Summed, Reflects, Sequence, Applies, pipeline,
     Settled
<1> QED
  BY <1>1, <1>2, <1>3, <1>4 DEF Recovering

(* The fields of a worker that moves within its run. *)
LEMMA AtFields ==
  ASSUME Settling, NEW step, At(step)
  PROVE  /\ worker'.step = step
         /\ worker'.start = worker.start /\ worker'.first = worker.first
         /\ worker'.last = worker.last /\ worker'.next = worker.next
<1>1. PICK V : worker \in WorkerIn(V)
  BY DEF Settling, Shaped
<1> QED
  BY <1>1 DEF At, WorkerIn

(* Those of one that fails. *)
LEMMA FailFields ==
  ASSUME NEW error, Fail(error)
  PROVE  worker'.step = "failed" /\ worker'.start = worker.start
BY DEF Fail, Idle

(* Those of an idle one. *)
LEMMA IdleFields == Idle.step = "idle" /\ Idle.start = 0
BY DEF Idle

(* Steps to and from the queue, and the answers. *)
LEMMA QueueRecovers ==
  ASSUME Settling, Recovering,
         \/ TakeEnvelope \/ SkipAbandoned \/ Begin \/ ReplayReceipt \/ Succeed
         \/ ResolveStoredOutcome \/ ResolveFailure
  PROVE  Recovering'
<1>1. CASE TakeEnvelope
  <2>1. worker'.step = "waiting" /\ worker'.start = commandReadModel.snapshotSequence
    BY <1>1 DEF TakeEnvelope, Idle
  <2> QED
    BY <1>1, <2>1, WorkerRecovers DEF TakeEnvelope, Settled, Recovering, Within, Holding,
       auxiliary
<1>2. CASE Begin
  <2>1. worker'.step = "running" /\ worker'.start = worker.start
    BY <1>2, AtFields DEF Begin
  <2> QED
    BY <1>2, <2>1, WorkerRecovers DEF Begin, MaintenanceLockFree, Settled, Recovering,
       Within, auxiliary
<1>3. CASE SkipAbandoned \/ ReplayReceipt \/ Succeed \/ ResolveStoredOutcome \/ ResolveFailure
  <2>1. worker'.step = "idle" /\ worker'.start = 0
    BY <1>3, IdleFields DEF SkipAbandoned, ReplayReceipt, Succeed, ResolveStoredOutcome,
       ResolveFailure
  <2>2. worker.step \in {"waiting", "running", "answering", "resolving"}
    BY <1>3 DEF SkipAbandoned, ReplayReceipt, Succeed, ResolveStoredOutcome, ResolveFailure
  <2>3. /\ UNCHANGED <<pipeline, commandReadModel, heard, dirty, repair, up, base, skipped,
                       degraded>>
    BY <1>3 DEF SkipAbandoned, ReplayReceipt, Succeed, ResolveStoredOutcome, ResolveFailure,
       auxiliary
  <2>4. up
    BY <2>2 DEF Recovering, Exclusive
  <2>5. 0 \in 0..Len(log) /\ ~Holding'
    BY <2>1 DEF Recovering, Within, Holding
  <2> QED
    BY <2>1, <2>2, <2>3, <2>4, <2>5, WorkerRecovers DEF Settled
<1> QED
  BY <1>1, <1>2, <1>3

(* A run that fails goes back to where it started; what it had not projected
   is skipped, unless a catch-up is due. *)
LEMMA FailuresRecover ==
  ASSUME Settling, Recovering, Reject \/ RunFails \/ RunTimeout PROVE Recovering'
<1>1. /\ worker'.step = "failed" /\ worker'.start = worker.start
      /\ worker.step \in {"running", "committed", "deferring", "publishing", "answering"}
  BY FailFields DEF Reject, RunFails, RunTimeout
<1>2. UNCHANGED <<pipeline, commandReadModel, heard, dirty, repair, up, base, degraded>>
  BY DEF Reject, RunFails, RunTimeout, auxiliary
<1>3. skipped' = IF worker.step \in {"committed", "deferring"} /\ ~dirty
                   THEN skipped \cup worker.next..worker.last
                   ELSE skipped
  BY DEF Reject, RunFails, RunTimeout, auxiliary
<1>4. Stored'
  BY <1>2, <1>3, StoredStays DEF Recovering
<1>5. Within' /\ Placed' /\ Exclusive'
  BY <1>1, <1>2 DEF Recovering, Within, Placed, InRun, Exclusive, Holding, OneReplayReadsAll,
     Cursors, Tables, Sequence, pipeline
<1>6. /\ Published \in Int /\ Modelled \in Int
      /\ worker.start <= Published /\ worker.start <= Modelled
  BY <1>1 DEF Recovering, Within, Placed, InRun, Published, Modelled
<1>7. Published' = worker.start /\ Modelled' = worker.start
  BY <1>1 DEF Published, Modelled
<1>8. /\ base + 1 .. worker.start \subseteq base + 1 .. Published
      /\ 1 .. worker.start \subseteq 1 .. Modelled
  BY <1>6 DEF Recovering, Within
<1>9. HeardSoFar' /\ ModelSoFar'
  BY <1>2, <1>7, <1>8 DEF Recovering, HeardSoFar, ModelSoFar
<1>10. SummedSoFar'
  <2> SUFFICES ASSUME "unrestored" \notin degraded, up, ~dirty
               PROVE  Reflects(Summed, Summaries, 0, Len(log))'
    BY <1>1, <1>2 DEF SummedSoFar, Projected, pipeline
  <2>1. Reflects(Summed, Summaries, 0, Projected)
    BY DEF Recovering, SummedSoFar
  <2>2. \A s \in Sequence : s <= Projected \/ s \in skipped'
    BY <1>3 DEF Recovering, Within, Placed, InRun, Projected, Sequence
  <2>3. Summed \subseteq Summed' /\ skipped' \subseteq Summed'
    BY <1>2, <1>3 DEF Summed, pipeline
  <2> QED
    BY <1>2, <2>1, <2>2, <2>3 DEF Reflects, Sequence, Applies, pipeline
<1> QED
  BY <1>4, <1>5, <1>9, <1>10 DEF Recovering

-----------------------------------------------------------------------------
(* The rest of a run *)

(* The model takes in what was committed. *)
LEMMA SetCommandReadModelRecovers ==
  ASSUME Settling, Recovering, SetCommandReadModel PROVE Recovering'
<1>1. /\ worker.step = "committed" /\ worker'.step = "deferring"
      /\ worker'.start = worker.start /\ worker'.first = worker.first
      /\ worker'.last = worker.last /\ worker'.next = worker.next
  BY AtFields DEF SetCommandReadModel
<1>2. /\ UNCHANGED <<pipeline, heard, dirty, repair, up, base, skipped, degraded>>
      /\ commandReadModel'.snapshotSequence = worker.last
      /\ commandReadModel'.reflects =
           commandReadModel.reflects \cup worker.first..worker.last
  BY DEF SetCommandReadModel, auxiliary
<1>3. Stored'
  BY <1>2, StoredStays DEF Recovering
<1>4. Within' /\ Placed' /\ Exclusive'
  BY <1>1, <1>2 DEF Recovering, Within, Placed, InRun, Exclusive, Holding, OneReplayReadsAll,
     Cursors, Tables, Sequence, pipeline
<1>5. HeardSoFar'
  BY <1>1, <1>2 DEF Recovering, HeardSoFar, Published
<1>6. ModelSoFar'
  <2>1. Modelled = worker.first - 1 /\ Modelled' = worker.last
    BY <1>1, <1>2 DEF Recovering, Placed, InRun, Modelled, pipeline
  <2>2. \A s \in 1..worker.last : s \in 1..worker.first - 1 \/ s \in worker.first..worker.last
    BY <1>1 DEF Recovering, Within, Placed, InRun
  <2> QED
    BY <1>2, <2>1, <2>2 DEF Recovering, ModelSoFar
<1>7. SummedSoFar'
  BY <1>1, <1>2 DEF Recovering, SummedSoFar, Projected, Summed, Reflects, Sequence, Applies,
     pipeline
<1> QED
  BY <1>3, <1>4, <1>5, <1>6, <1>7 DEF Recovering

(* The fields of a worker on its way through the events. *)
LEMMA NextEventFields ==
  ASSUME Settling, NEW task, NextEvent(task)
  PROVE  /\ worker'.start = worker.start /\ worker'.first = worker.first
         /\ worker'.last = worker.last
         /\ worker.next < worker.last =>
              worker'.step = worker.step /\ worker'.next = worker.next + 1
         /\ ~(worker.next < worker.last) =>
              worker'.step = task /\ worker'.next = worker.first
<1>1. PICK V : worker \in WorkerIn(V)
  BY DEF Settling, Shaped
<1> QED
  BY <1>1 DEF NextEvent, WorkerIn

(* The place in the log of a worker on its way. *)
LEMMA OnItsWay ==
  ASSUME Settling, Recovering, NEW task \in {"publishing", "answering"}, NextEvent(task),
         worker.step \in {"deferring", "publishing"}, log' = log
  PROVE  /\ Placed' /\ worker.next \in Sequence /\ worker'.start \in 0..Len(log)
         /\ worker.next \in Nat /\ Len(log) \in Nat
         /\ worker.next < worker.last => worker'.next - 1 = worker.next
         /\ ~(worker.next < worker.last) => worker.next = Len(log)
  BY NextEventFields DEF Recovering, Within, Placed, InRun, Sequence

(* An event is published after all before it. *)
LEMMA PublishRecovers ==
  ASSUME Settling, Recovering, Publish PROVE Recovering'
<1>1. /\ worker.step = "publishing" /\ NextEvent("answering")
      /\ heard' = heard \cup {worker.next}
      /\ UNCHANGED <<pipeline, commandReadModel, dirty, repair, up, base, skipped, degraded>>
  BY DEF Publish, auxiliary
<1>2. log' = log
  BY <1>1 DEF pipeline
<1>3. /\ Placed' /\ worker.next \in Sequence /\ worker'.start \in 0..Len(log)
      /\ worker.next \in Nat /\ Len(log) \in Nat
      /\ worker.next < worker.last => worker'.next - 1 = worker.next
      /\ ~(worker.next < worker.last) => worker.next = Len(log)
  BY <1>1, <1>2, OnItsWay
<1>4. worker'.step \in {"publishing", "answering"}
      /\ (worker.next < worker.last <=> worker'.step = "publishing")
  BY <1>1, NextEventFields
<1>5. up
  BY <1>1 DEF Recovering, Exclusive
<1>6. Stored'
  BY <1>1, StoredStays DEF Recovering
<1>7. Within' /\ Exclusive'
  BY <1>1, <1>3, <1>4, <1>5 DEF Recovering, Within, Exclusive, Holding, OneReplayReadsAll,
     Cursors, Tables, Sequence, pipeline
<1>8. Published = worker.next - 1 /\ Published' = worker.next
  BY <1>1, <1>2, <1>3, <1>4 DEF Published
<1>9. HeardSoFar'
  <2> SUFFICES ASSUME "unreconciled" \notin degraded
               PROVE  /\ \A s \in heard' : base + 1 .. s \subseteq heard'
                      /\ base + 1 .. worker.next \subseteq heard'
    BY <1>1, <1>8 DEF HeardSoFar
  <2>1. /\ \A s \in heard : base + 1 .. s \subseteq heard
        /\ base + 1 .. worker.next - 1 \subseteq heard
    BY <1>5, <1>8 DEF Recovering, HeardSoFar
  <2>2. base + 1 .. worker.next \subseteq heard'
    <3>1. \A s \in base + 1 .. worker.next : s \in base + 1 .. worker.next - 1 \/ s = worker.next
      BY <1>3 DEF Recovering, Within
    <3> QED
      BY <1>1, <2>1, <3>1
  <2> QED
    BY <1>1, <2>1, <2>2
<1>10. ModelSoFar'
  BY <1>1, <1>2, <1>4 DEF Recovering, ModelSoFar, Modelled
<1>11. SummedSoFar'
  BY <1>1, <1>2, <1>4 DEF Recovering, SummedSoFar, Projected, Summed, Reflects, Sequence,
     Applies, pipeline
<1> QED
  BY <1>3, <1>6, <1>7, <1>9, <1>10, <1>11 DEF Recovering

(* Before the log is read again all before the start of the run is there. *)
LEMMA ReconcileRecovers ==
  ASSUME Settling, Recovering, Reconcile \/ ReconcileFails PROVE Recovering'
<1>1. /\ worker.step = "failed" /\ worker'.step = "resolving"
      /\ worker'.start = worker.start
      /\ UNCHANGED <<pipeline, dirty, repair, up, base, skipped>>
  BY AtFields DEF Reconcile, ReconcileFails, auxiliary
<1>2. worker.start \in 0..Len(log) /\ Len(log) \in Nat
  BY DEF Recovering, Within
<1>3. PersistedSinceStart = worker.start + 1 .. Len(log)
  <2>1. PICK end \in worker.start..Len(log) :
          /\ ReadFromSequence(worker.start) = worker.start + 1 .. end
          /\ OneReplayReadsAll => end = Len(log)
    BY <1>2, ReadsOn
  <2> QED
    BY <2>1 DEF PersistedSinceStart, Recovering, Within
<1>4. up
  BY <1>1 DEF Recovering, Exclusive
<1>5. \/ /\ PersistedSinceStart = {} /\ UNCHANGED <<commandReadModel, heard>>
         /\ degraded' = degraded
      \/ /\ PersistedSinceStart # {} /\ degraded' = degraded
         /\ commandReadModel'.snapshotSequence = Max(PersistedSinceStart)
         /\ commandReadModel'.reflects = commandReadModel.reflects \cup PersistedSinceStart
         /\ heard' = heard \cup PersistedSinceStart
      \/ /\ degraded' = degraded \cup {"unreconciled"}
         /\ UNCHANGED <<commandReadModel, heard>>
  BY DEF Reconcile, ReconcileFails, Reconciled, auxiliary
<1>6. Stored'
  BY <1>1, <1>5, StoredStays DEF Recovering
<1>7. PersistedSinceStart # {} => Max(PersistedSinceStart) = Len(log)
  <2> SUFFICES ASSUME PersistedSinceStart # {} PROVE Max(PersistedSinceStart) = Len(log)
    OBVIOUS
  <2>1. worker.start + 1 \in Int /\ Len(log) \in Int /\ worker.start + 1 <= Len(log)
    BY <1>2, <1>3
  <2> QED
    BY <1>3, <2>1, Ends
<1>8. Within' /\ Placed' /\ Exclusive'
  <2>1. PersistedSinceStart \subseteq Sequence
    BY <1>2, <1>3 DEF Sequence
  <2>2. commandReadModel'.snapshotSequence \in 0..Len(log) /\ heard' \subseteq Sequence
    BY <1>2, <1>5, <1>7, <2>1 DEF Recovering, Within
  <2>3. Placed' /\ Exclusive'
    BY <1>1, <1>4 DEF Recovering, Placed, InRun, Exclusive, Holding
  <2>4. Within'
    BY <1>1, <2>2 DEF Recovering, Within, OneReplayReadsAll, Cursors, Tables, Sequence, pipeline
  <2> QED
    BY <2>3, <2>4
<1>9. /\ Published = worker.start /\ Modelled = worker.start
      /\ Published' = Len(log) /\ Modelled' = Len(log)
  BY <1>1 DEF Published, Modelled, pipeline
<1>10. HeardSoFar' /\ ModelSoFar'
  <2>1. CASE degraded' = degraded \cup {"unreconciled"}
    BY <2>1 DEF HeardSoFar, ModelSoFar
  <2>2. CASE PersistedSinceStart = {} /\ UNCHANGED <<commandReadModel, heard, degraded>>
    <3>1. Len(log) = worker.start
      BY <1>2, <1>3, <2>2
    <3> QED
      BY <1>1, <1>9, <2>2, <3>1 DEF Recovering, HeardSoFar, ModelSoFar
  <2>3. CASE /\ degraded' = degraded
             /\ commandReadModel'.reflects = commandReadModel.reflects \cup PersistedSinceStart
             /\ heard' = heard \cup PersistedSinceStart
    <3>1. \A n \in Int : \A s \in n..Len(log) :
            s \in n..worker.start \/ s \in PersistedSinceStart
      BY <1>2, <1>3
    <3>2. \A s \in PersistedSinceStart : s \in Int /\ s <= Len(log)
      BY <1>2, <1>3
    <3>3. base + 1 \in Int
      BY DEF Recovering, Within
    <3>4. ModelSoFar'
      BY <1>1, <1>9, <2>3, <3>1 DEF Recovering, ModelSoFar
    <3>5. HeardSoFar'
      <4> SUFFICES ASSUME "unreconciled" \notin degraded
                   PROVE  /\ \A s \in heard' : base + 1 .. s \subseteq heard'
                          /\ base + 1 .. Len(log) \subseteq heard'
        BY <1>1, <1>9, <2>3 DEF HeardSoFar
      <4>1. /\ \A s \in heard : base + 1 .. s \subseteq heard
            /\ base + 1 .. worker.start \subseteq heard
        BY <1>4, <1>9 DEF Recovering, HeardSoFar
      <4>2. base + 1 .. Len(log) \subseteq heard'
        BY <2>3, <3>1, <3>3, <4>1
      <4>3. \A s \in PersistedSinceStart : base + 1 .. s \subseteq base + 1 .. Len(log)
        BY <1>2, <3>2, <3>3
      <4> QED
        BY <2>3, <4>1, <4>2, <4>3
    <3> QED
      BY <3>4, <3>5
  <2> QED
    BY <1>5, <2>1, <2>2, <2>3
<1>11. SummedSoFar'
  BY <1>1, <1>5 DEF Recovering, SummedSoFar, Projected, Summed, Reflects, Sequence, Applies,
     pipeline
<1> QED
  BY <1>6, <1>8, <1>10, <1>11 DEF Recovering

-----------------------------------------------------------------------------
(* Steps that replay *)

(* A larger table reflects as much. *)
LEMMA ReflectsMore ==
  ASSUME NEW t, NEW u, NEW p, NEW a, NEW b, t \subseteq u, Reflects(t, p, a, b)
  PROVE  Reflects(u, p, a, b)
BY DEF Reflects

(* One stretch and the next make a longer one. *)
LEMMA ReflectsOn ==
  ASSUME Len(log) \in Nat, NEW t, NEW p, NEW a \in Int, NEW b \in Int, NEW c \in Int,
         Reflects(t, p, a, b), Reflects(t, p, b, c)
  PROVE  Reflects(t, p, a, c)
BY DEF Reflects, Sequence

(* A replay from the cursors leaves the tables at what the cursors say, and at
   all of the log if it got through. *)
LEMMA Replayed ==
  ASSUME Recovering, "unrestored" \notin degraded, NEW e,
         Furthers(e, cursor, rows) \/ Furthers(e, FastForwarded(cursor), rows)
  PROVE  /\ \A p \in HotProjector :
              \/ Reflects(e.rows[p], p, 0, Len(log))
              \/ /\ p = "projects" /\ (repair.under \/ ~up)
                 /\ cursor["hot"] = 0 /\ Reflects(e.rows[p], p, 0, e.cursor[p])
                 /\ Completes(e, FastForwarded(cursor)) => Reflects(e.rows[p], p, 0, Len(log))
         /\ Reflects(e.rows[Summaries] \cup skipped, Summaries, 0, e.cursor[Summaries])
         /\ Completes(e, FastForwarded(cursor)) =>
              Reflects(e.rows[Summaries] \cup skipped, Summaries, 0, Len(log))
<1> DEFINE d == FastForwarded(cursor)
<1>1. Len(log) \in Nat /\ cursor \in Cursors
  BY DEF Recovering, Within
<1>2. /\ \A p \in Projector : cursor[p] \in Int
      /\ \A p \in Projector : e.cursor[p] \in Int
      /\ Len(log) \in Int
  BY <1>1 DEF Furthers, Cursors, Cursor
<1>3. /\ d[Summaries] = cursor[Summaries]
      /\ cursor["hot"] = 0 => \A p \in Projector : d[p] = cursor[p]
  BY <1>1, FastForwards
<1>4. \A p \in Projector : /\ rows[p] \subseteq e.rows[p]
                           /\ \/ Reflects(e.rows[p], p, cursor[p], e.cursor[p])
                              \/ Reflects(e.rows[p], p, d[p], e.cursor[p])
  BY DEF Furthers
<1>5. Completes(e, d) => \A p \in Projector : Reflects(e.rows[p], p, d[p], Len(log))
  BY DEF Completes
<1> HIDE DEF d
<1>6. ASSUME NEW p \in HotProjector
      PROVE  \/ Reflects(e.rows[p], p, 0, Len(log))
             \/ /\ p = "projects" /\ (repair.under \/ ~up)
                /\ cursor["hot"] = 0 /\ Reflects(e.rows[p], p, 0, e.cursor[p])
                /\ Completes(e, d) => Reflects(e.rows[p], p, 0, Len(log))
  <2>1. p \in Projector /\ HotTable(p)
    BY DEF HotProjector, Recovering, Stored, HotTables
  <2>2. CASE Reflects(rows[p], p, 0, Len(log))
    BY <1>4, <2>1, <2>2, ReflectsMore
  <2>3. CASE /\ p = "projects" /\ (repair.under \/ ~up)
             /\ cursor["hot"] = 0 /\ Reflects(rows[p], p, 0, cursor[p])
    <3>1. Reflects(e.rows[p], p, 0, cursor[p])
      BY <1>4, <2>1, <2>3, ReflectsMore
    <3>2. Reflects(e.rows[p], p, cursor[p], e.cursor[p])
      BY <1>3, <1>4, <2>1, <2>3
    <3>3. Reflects(e.rows[p], p, 0, e.cursor[p])
      BY <1>1, <1>2, <2>1, <3>1, <3>2, ReflectsOn
    <3>4. ASSUME Completes(e, d) PROVE Reflects(e.rows[p], p, 0, Len(log))
      <4>1. Reflects(e.rows[p], p, cursor[p], Len(log))
        BY <1>3, <1>5, <2>1, <2>3, <3>4
      <4> QED
        BY <1>1, <1>2, <2>1, <3>1, <4>1, ReflectsOn
    <3> QED
      BY <2>3, <3>3, <3>4
  <2> QED
    BY <2>1, <2>2, <2>3 DEF HotTable
<1> DEFINE t == e.rows[Summaries] \cup skipped
<1>7. Summaries \in Projector
  BY ProjectorsAssumption
<1>8. Reflects(t, Summaries, 0, cursor[Summaries])
  <2>1. Summed \subseteq t
    BY <1>4, <1>7 DEF Summed
  <2>2. Reflects(Summed, Summaries, 0, cursor[Summaries])
    BY DEF Recovering, Stored, SummaryTable
  <2> HIDE DEF t
  <2> QED
    BY <2>1, <2>2, ReflectsMore
<1>9. Reflects(t, Summaries, cursor[Summaries], e.cursor[Summaries])
  <2>1. Reflects(e.rows[Summaries], Summaries, cursor[Summaries], e.cursor[Summaries])
    BY <1>3, <1>4, <1>7
  <2> QED
    BY <2>1, ReflectsMore
<1>10. ASSUME Completes(e, d) PROVE Reflects(t, Summaries, cursor[Summaries], Len(log))
  <2>1. Reflects(e.rows[Summaries], Summaries, cursor[Summaries], Len(log))
    BY <1>3, <1>5, <1>7, <1>10
  <2> QED
    BY <2>1, ReflectsMore
<1> HIDE DEF t
<1>11. /\ Reflects(t, Summaries, 0, e.cursor[Summaries])
       /\ Completes(e, d) => Reflects(t, Summaries, 0, Len(log))
  BY <1>1, <1>2, <1>7, <1>8, <1>9, <1>10, ReflectsOn
<1> QED
  BY <1>6, <1>11 DEF d, t

(* The store after a step that replays: e is what the replay left, and either
   it got through, or it began from tables that no repair had emptied. *)
LEMMA StoreReplayed ==
  ASSUME Recovering, NEW e,
         Furthers(e, cursor, rows) \/ Furthers(e, FastForwarded(cursor), rows),
         cursor' = e.cursor, rows' = e.rows,
         \/ Completes(e, FastForwarded(cursor))
         \/ e.cursor["hot"] = cursor["hot"] /\ ~repair.under /\ UNCHANGED <<up, dirty>>,
         ~repair'.under, UNCHANGED <<log, worker, skipped, degraded>>
  PROVE  cursor' \in Cursors' /\ rows' \in Tables' /\ Stored' /\ SummedSoFar'
<1>1. cursor' \in Cursors' /\ rows' \in Tables'
  BY DEF Furthers, Cursors, Tables, Sequence
<1>2. ASSUME "unrestored" \notin degraded
      PROVE  /\ \A p \in HotProjector :
                  \/ Reflects(e.rows[p], p, 0, Len(log))
                  \/ /\ p = "projects" /\ (repair.under \/ ~up)
                     /\ cursor["hot"] = 0 /\ Reflects(e.rows[p], p, 0, e.cursor[p])
                     /\ Completes(e, FastForwarded(cursor)) =>
                          Reflects(e.rows[p], p, 0, Len(log))
             /\ Reflects(e.rows[Summaries] \cup skipped, Summaries, 0, e.cursor[Summaries])
             /\ Completes(e, FastForwarded(cursor)) =>
                  Reflects(e.rows[Summaries] \cup skipped, Summaries, 0, Len(log))
  BY <1>2, Replayed
<1>3. HotTables'
  <2> SUFFICES ASSUME "unrestored" \notin degraded, NEW p \in HotProjector
               PROVE  HotTable(p)'
    BY DEF HotTables
  <2>1. CASE Completes(e, FastForwarded(cursor))
    <3>1. Reflects(e.rows[p], p, 0, Len(log))
      BY <1>2, <2>1
    <3>2. Reflects(rows[p], p, 0, Len(log))'
      BY <3>1 DEF Reflects, Sequence, Applies
    <3> QED
      BY <3>2 DEF HotTable
  <2>2. CASE e.cursor["hot"] = cursor["hot"] /\ ~repair.under /\ UNCHANGED <<up, dirty>>
    <3>1. \/ Reflects(e.rows[p], p, 0, Len(log))
          \/ /\ p = "projects" /\ ~up
             /\ cursor["hot"] = 0 /\ Reflects(e.rows[p], p, 0, e.cursor[p])
      BY <1>2, <2>2
    <3>2. \/ Reflects(rows[p], p, 0, Len(log))'
          \/ p = "projects" /\ ~up' /\ cursor'["hot"] = 0 /\ Reflects(rows[p], p, 0, cursor[p])'
      BY <2>2, <3>1 DEF Reflects, Sequence, Applies
    <3> QED
      BY <3>2 DEF HotTable
  <2> QED
    BY <2>1, <2>2
<1>4. SummaryTable'
  BY <1>2 DEF SummaryTable, Summed, Reflects, Sequence, Applies
<1>5. FromTheStart' /\ Listed'
  BY DEF Recovering, Stored, FromTheStart, Listed, Sequence, Applies
<1>6. SummedSoFar'
  <2> SUFFICES ASSUME "unrestored" \notin degraded, up', ~dirty'
               PROVE  Reflects(Summed, Summaries, 0, Projected)'
    BY DEF SummedSoFar
  <2>1. Projected' = Projected /\ Projected \in Int /\ Projected <= Len(log)
    BY DEF Recovering, Within, Placed, InRun, Projected
  <2>2. CASE Completes(e, FastForwarded(cursor))
    <3>1. Reflects(e.rows[Summaries] \cup skipped, Summaries, 0, Len(log))
      BY <1>2, <2>2
    <3>2. \A n \in Sequence : n <= Projected => n <= Len(log)
      BY DEF Sequence
    <3> QED
      BY <2>1, <3>1, <3>2 DEF Summed, Reflects, Sequence, Applies
  <2>3. CASE UNCHANGED <<up, dirty>>
    <3>1. Reflects(Summed, Summaries, 0, Projected)
      BY <2>3 DEF Recovering, SummedSoFar
    <3>2. rows[Summaries] \subseteq rows'[Summaries]
      BY ProjectorsAssumption DEF Furthers
    <3> QED
      BY <2>1, <3>1, <3>2 DEF Summed, Reflects, Sequence, Applies
  <2> QED
    BY <2>2, <2>3
<1> QED
  BY <1>1, <1>3, <1>4, <1>5, <1>6 DEF Stored

(* A bootstrap leaves such a store. *)
LEMMA BootstrapReplays ==
  ASSUME Recovering, Bootstrap
  PROVE  \E e : /\ Furthers(e, FastForwarded(cursor), rows)
                /\ Completes(e, FastForwarded(cursor))
                /\ cursor' = e.cursor /\ rows' = e.rows /\ log' = log
<1>1. /\ Len(log) \in Nat /\ OneReplayReadsAll /\ cursor \in Cursors /\ rows \in Tables
  BY DEF Recovering, Within
<1>2. PICK e : e = Bootstrapped(cursor, rows)
  OBVIOUS
<1>3. Furthers(e, FastForwarded(cursor), rows) /\ Completes(e, FastForwarded(cursor))
  BY <1>1, <1>2, BootstrapCompletes
<1> QED
  BY <1>2, <1>3 DEF Bootstrap, Becomes

(* So does one that fails, though it did not get through. *)
LEMMA BootstrapFailsReplays ==
  ASSUME Recovering, BootstrapFails
  PROVE  \E e : /\ Furthers(e, cursor, rows) \/ Furthers(e, FastForwarded(cursor), rows)
                /\ e.cursor["hot"] = cursor["hot"]
                /\ cursor' = e.cursor /\ rows' = e.rows /\ log' = log
<1>1. Len(log) \in Nat /\ cursor \in Cursors /\ rows \in Tables
  BY DEF Recovering, Within
<1>2. PICK e \in BrokenOff(cursor, rows) : Becomes(e)
  BY DEF BootstrapFails
<1> QED
  BY <1>1, <1>2, BrokenOffFurthers DEF Becomes

(* A catch-up makes up for what was dirty, or leaves it. *)
LEMMA CatchUpRecovers ==
  ASSUME Recovering, CatchUp PROVE Recovering'
<1>1. /\ up /\ ~repair.under /\ repair' = repair
      /\ UNCHANGED <<worker, commandReadModel, heard, up, base, skipped, degraded>>
  BY DEF CatchUp, MaintenanceLockFree, auxiliary
<1>2. PICK e : /\ Furthers(e, cursor, rows) \/ Furthers(e, FastForwarded(cursor), rows)
               /\ \/ Completes(e, FastForwarded(cursor))
                  \/ e.cursor["hot"] = cursor["hot"] /\ UNCHANGED dirty
               /\ cursor' = e.cursor /\ rows' = e.rows /\ log' = log
  BY BootstrapReplays, BootstrapFailsReplays DEF CatchUp
<1>3. cursor' \in Cursors' /\ rows' \in Tables' /\ Stored' /\ SummedSoFar'
  BY <1>1, <1>2, StoreReplayed
<1>4. Within' /\ Placed' /\ Exclusive'
  BY <1>1, <1>2, <1>3 DEF Recovering, Within, Placed, InRun, Exclusive, Holding,
     OneReplayReadsAll, Sequence
<1>5. HeardSoFar' /\ ModelSoFar'
  BY <1>1, <1>2 DEF Recovering, HeardSoFar, ModelSoFar, Published, Modelled
<1> QED
  BY <1>3, <1>4, <1>5 DEF Recovering

(* With the hot tables at the end of the log a loaded model reflects all of it. *)
HotWhole == \A p \in HotProjector : Reflects(rows[p], p, 0, Len(log))

LEMMA LoadedModel ==
  Len(log) \in Nat /\ cursor \in Cursors /\ Listed =>
    /\ GetCommandReadModel.snapshotSequence \in 0..Len(log)
    /\ HotWhole => Sequence \subseteq GetCommandReadModel.reflects
<1> SUFFICES ASSUME Len(log) \in Nat, cursor \in Cursors, Listed
             PROVE  /\ GetCommandReadModel.snapshotSequence \in 0..Len(log)
                    /\ HotWhole => Sequence \subseteq GetCommandReadModel.reflects
  OBVIOUS
<1>1. GetCommandReadModel.snapshotSequence \in 0..Len(log)
  <2> DEFINE both == {cursor["hot"], cursor[Summaries]}
  <2>1. both \subseteq 0..Len(log) /\ both # {}
    BY ProjectorsAssumption DEF Cursors, Cursor
  <2> HIDE DEF both
  <2>2. both \subseteq Nat
    BY <2>1
  <2>3. Min(both) \in both
    BY <2>1, <2>2, MinIn
  <2>4. Min(both) \in 0..Len(log)
    BY <2>1, <2>3
  <2>5. GetCommandReadModel.snapshotSequence = Min(both)
    BY DEF GetCommandReadModel, ComputeSnapshotSequence, both
  <2> QED
    BY <2>4, <2>5
<1>2. ASSUME HotWhole, NEW s \in Sequence, NEW p \in SnapshotTables, Applies(p, s)
      PROVE  s \in rows[p]
  <2>1. p \in HotProjector
    BY <1>2 DEF Listed, HotProjector, SnapshotTables, Summaries
  <2> QED
    BY <1>2, <2>1 DEF HotWhole, Reflects, Sequence
<1> QED
  BY <1>1, <1>2 DEF GetCommandReadModel

(* The hot tables are whole whenever the engine is up and not in a repair. *)
LEMMA WholeOutsideRepairs ==
  HotTables /\ "unrestored" \notin degraded /\ up /\ ~repair.under => HotWhole
BY DEF HotTables, HotTable, HotWhole

(* The model is loaded again from tables that are whole. *)
LEMMA RefreshRecovers ==
  ASSUME Recovering, RefreshCommandReadModel PROVE Recovering'
<1>1. /\ up /\ ~repair.under /\ commandReadModel' = GetCommandReadModel
      /\ UNCHANGED <<pipeline, worker, heard, dirty, repair, up, base, skipped, degraded>>
  BY DEF RefreshCommandReadModel, MaintenanceLockFree, auxiliary
<1>2. /\ commandReadModel'.snapshotSequence \in 0..Len(log)
      /\ HotWhole => Sequence \subseteq commandReadModel'.reflects
  BY <1>1, LoadedModel DEF Recovering, Within, Stored
<1>3. Stored'
  BY <1>1, StoredStays DEF Recovering
<1>4. Within' /\ Placed' /\ Exclusive'
  BY <1>1, <1>2 DEF Recovering, Within, Placed, InRun, Exclusive, Holding, OneReplayReadsAll,
     Cursors, Tables, Sequence, pipeline
<1>5. HeardSoFar'
  BY <1>1 DEF Recovering, HeardSoFar, Published, pipeline
<1>6. ModelSoFar'
  <2> SUFFICES ASSUME degraded = {} PROVE 1..Len(log) \subseteq commandReadModel'.reflects
    BY <1>1 DEF ModelSoFar, Modelled, pipeline, RefreshCommandReadModel, MaintenanceLockFree,
       Holding
  <2>1. HotWhole
    BY <1>1, WholeOutsideRepairs DEF Recovering, Stored
  <2> QED
    BY <1>2, <2>1 DEF Sequence
<1>7. SummedSoFar'
  BY <1>1 DEF Recovering, SummedSoFar, Projected, Summed, Reflects, Sequence, Applies,
     pipeline
<1> QED
  BY <1>3, <1>4, <1>5, <1>6, <1>7 DEF Recovering

(* A start replays what is left and loads the model; nobody has subscribed yet. *)
LEMMA StartRecovers ==
  ASSUME Recovering, Start PROVE Recovering'
<1>1. /\ ~up /\ ~repair.under /\ worker.step = "idle" /\ heard = {}
      /\ commandReadModel' = GetCommandReadModel' /\ base' = Len(log) /\ up'
      /\ UNCHANGED <<worker, heard, dirty, repair, skipped, degraded>>
  BY DEF Start, Recovering, Exclusive
<1>2. PICK e : /\ Furthers(e, FastForwarded(cursor), rows)
               /\ Completes(e, FastForwarded(cursor))
               /\ cursor' = e.cursor /\ rows' = e.rows /\ log' = log
  BY BootstrapReplays DEF Start
<1>3. cursor' \in Cursors' /\ rows' \in Tables' /\ Stored' /\ SummedSoFar'
  BY <1>1, <1>2, StoreReplayed
<1>4. Len(log) \in Nat
  BY DEF Recovering, Within
<1>5. /\ GetCommandReadModel'.snapshotSequence \in 0..Len(log)
      /\ HotWhole' => Sequence \subseteq GetCommandReadModel'.reflects
  <2>1. (Len(log) \in Nat /\ cursor \in Cursors /\ Listed =>
          /\ GetCommandReadModel.snapshotSequence \in 0..Len(log)
          /\ HotWhole => Sequence \subseteq GetCommandReadModel.reflects)'
    BY LoadedModel, PTL
  <2> QED
    BY <1>2, <1>3, <1>4, <2>1 DEF Stored, Sequence
<1>6. Within' /\ Placed' /\ Exclusive'
  BY <1>1, <1>2, <1>3, <1>4, <1>5 DEF Recovering, Within, Placed, InRun, Exclusive, Holding,
     OneReplayReadsAll, Sequence
<1>7. HeardSoFar'
  BY <1>1, <1>2, <1>4 DEF HeardSoFar, Published
<1>8. ModelSoFar'
  <2> SUFFICES ASSUME degraded = {} PROVE 1..Len(log) \subseteq commandReadModel'.reflects
    BY <1>1, <1>2 DEF ModelSoFar, Modelled
  <2>1. (HotTables /\ "unrestored" \notin degraded /\ up /\ ~repair.under => HotWhole)'
    BY WholeOutsideRepairs, PTL
  <2>2. HotWhole'
    BY <1>1, <1>3, <2>1 DEF Stored
  <2> QED
    BY <1>1, <1>5, <2>2 DEF Sequence
<1> QED
  BY <1>3, <1>6, <1>7, <1>8 DEF Recovering

(* A start that fails leaves the store to the next. *)
LEMMA StartFailsRecovers ==
  ASSUME Recovering, StartFails PROVE Recovering'
<1>1. /\ ~up /\ ~repair.under
      /\ UNCHANGED <<worker, commandReadModel, heard, dirty, repair, up, base, skipped, degraded>>
  BY DEF StartFails, engine, auxiliary, Recovering, Exclusive
<1>2. PICK e : /\ Furthers(e, cursor, rows) \/ Furthers(e, FastForwarded(cursor), rows)
               /\ \/ Completes(e, FastForwarded(cursor))
                  \/ e.cursor["hot"] = cursor["hot"]
               /\ cursor' = e.cursor /\ rows' = e.rows /\ log' = log
  BY BootstrapReplays, BootstrapFailsReplays DEF StartFails
<1>3. cursor' \in Cursors' /\ rows' \in Tables' /\ Stored' /\ SummedSoFar'
  BY <1>1, <1>2, StoreReplayed
<1>4. Within' /\ Placed' /\ Exclusive'
  BY <1>1, <1>2, <1>3 DEF Recovering, Within, Placed, InRun, Exclusive, Holding,
     OneReplayReadsAll, Sequence
<1>5. HeardSoFar' /\ ModelSoFar'
  BY <1>1, <1>2 DEF Recovering, HeardSoFar, ModelSoFar, Published, Modelled
<1> QED
  BY <1>3, <1>4, <1>5 DEF Recovering

-----------------------------------------------------------------------------
(* Repairs and crashes *)

(* A repair empties the projects and starts them over; what it backed up was
   whole. *)
LEMMA BeginRepairRecovers ==
  ASSUME Recovering, BeginRepair PROVE Recovering'
<1>1. /\ up /\ ~repair.under /\ ~Holding
      /\ repair'.under /\ repair'.cursor = cursor /\ repair'.projects = rows["projects"]
      /\ UNCHANGED <<worker, commandReadModel, heard, dirty, up, base, skipped, degraded>>
  BY DEF BeginRepair, MaintenanceLockFree, auxiliary
<1>2. /\ log' = log /\ rows' = [rows EXCEPT !["projects"] = {}]
      /\ cursor' = [p \in Cursor |->
                      IF p \in PROJECT_METADATA_SNAPSHOT_PROJECTORS THEN 0 ELSE cursor[p]]
  BY DEF BeginRepair, ResetDerivedProjectionState, Becomes
<1>3. /\ Len(log) \in Nat /\ cursor \in Cursors /\ rows \in Tables
      /\ {"projects", Summaries} \subseteq Projector /\ Projector \subseteq Cursor
      /\ "hot" \in Cursor /\ "projects" \in HotProjector
  BY ProjectorsAssumption DEF Recovering, Within, Cursor, HotProjector, Summaries
<1>4. /\ cursor' \in Cursors /\ cursor'["projects"] = 0 /\ cursor'["hot"] = 0
      /\ cursor'[Summaries] = cursor[Summaries]
  BY <1>2, <1>3 DEF Cursors, PROJECT_METADATA_SNAPSHOT_PROJECTORS, Summaries
<1>5. /\ rows' \in Tables /\ rows'["projects"] = {}
      /\ \A p \in Projector : p # "projects" => rows'[p] = rows[p]
  BY <1>2, <1>3 DEF Tables
<1>6. rows'[Summaries] = rows[Summaries] /\ rows["projects"] \subseteq Sequence
  BY <1>3, <1>5 DEF Tables, Summaries
<1>7. Within' /\ Placed' /\ Exclusive'
  BY <1>1, <1>2, <1>3, <1>4, <1>5, <1>6 DEF Recovering, Within, Placed, InRun, Exclusive,
     Holding, OneReplayReadsAll, Cursors, Tables, Sequence
<1>8. HotTables'
  <2> SUFFICES ASSUME "unrestored" \notin degraded
               PROVE  /\ \A p \in HotProjector : HotTable(p)'
                      /\ Reflects(repair.projects, "projects", 0, Len(log))'
    BY <1>1 DEF HotTables
  <2>1. HotWhole
    BY <1>1, WholeOutsideRepairs DEF Recovering, Stored
  <2>2. Reflects(repair.projects, "projects", 0, Len(log))'
    BY <1>1, <1>2, <1>3, <2>1 DEF HotWhole, Reflects, Sequence, Applies
  <2>3. ASSUME NEW p \in HotProjector PROVE HotTable(p)'
    <3>1. CASE p = "projects"
      <4>1. Reflects(rows[p], p, 0, cursor[p])'
        BY <1>4, <3>1 DEF Reflects, Sequence
      <4> QED
        BY <1>1, <1>4, <3>1, <4>1 DEF HotTable
    <3>2. CASE p # "projects"
      <4>1. rows'[p] = rows[p]
        BY <1>5, <3>2 DEF HotProjector
      <4>2. Reflects(rows[p], p, 0, Len(log))'
        BY <1>2, <2>1, <4>1 DEF HotWhole, Reflects, Sequence, Applies
      <4> QED
        BY <4>2 DEF HotTable
    <3> QED
      BY <3>1, <3>2
  <2> QED
    BY <2>2, <2>3
<1>9. SummaryTable' /\ SummedSoFar'
  BY <1>1, <1>2, <1>4, <1>6 DEF Recovering, Stored, SummaryTable, SummedSoFar, Projected,
     Summed, Reflects, Sequence, Applies
<1>10. FromTheStart' /\ Listed'
  BY <1>2, <1>4 DEF Recovering, Stored, FromTheStart, Listed, Sequence, Applies
<1>11. HeardSoFar' /\ ModelSoFar'
  BY <1>1, <1>2 DEF Recovering, HeardSoFar, ModelSoFar, Published, Modelled
<1> QED
  BY <1>7, <1>8, <1>9, <1>10, <1>11 DEF Recovering, Stored

(* A repair that gets through has rebuilt what it emptied. *)
LEMMA RepairSucceedsRecovers ==
  ASSUME Recovering, RepairSucceeds PROVE Recovering'
<1>1. /\ repair.under /\ up /\ ~Holding /\ ~repair'.under
      /\ UNCHANGED <<worker, heard, dirty, up, base, skipped, degraded>>
      /\ commandReadModel' \in {commandReadModel, GetCommandReadModel'}
  BY DEF RepairSucceeds, NoRepair, auxiliary, Recovering, Exclusive
<1>2. PICK e : /\ Furthers(e, FastForwarded(cursor), rows)
               /\ Completes(e, FastForwarded(cursor))
               /\ cursor' = e.cursor /\ rows' = e.rows /\ log' = log
  BY BootstrapReplays DEF RepairSucceeds
<1>3. cursor' \in Cursors' /\ rows' \in Tables' /\ Stored' /\ SummedSoFar'
  BY <1>1, <1>2, StoreReplayed
<1>4. Len(log) \in Nat /\ commandReadModel.snapshotSequence \in 0..Len(log)
  BY DEF Recovering, Within
<1>5. /\ GetCommandReadModel'.snapshotSequence \in 0..Len(log)
      /\ HotWhole' => Sequence \subseteq GetCommandReadModel'.reflects
  <2>1. (Len(log) \in Nat /\ cursor \in Cursors /\ Listed =>
          /\ GetCommandReadModel.snapshotSequence \in 0..Len(log)
          /\ HotWhole => Sequence \subseteq GetCommandReadModel.reflects)'
    BY LoadedModel, PTL
  <2> QED
    BY <1>2, <1>3, <1>4, <2>1 DEF Stored, Sequence
<1>6. Within' /\ Placed' /\ Exclusive'
  BY <1>1, <1>2, <1>3, <1>4, <1>5 DEF Recovering, Within, Placed, InRun, Exclusive, Holding,
     OneReplayReadsAll, Sequence
<1>7. HeardSoFar'
  BY <1>1, <1>2 DEF Recovering, HeardSoFar, Published
<1>8. ModelSoFar'
  <2> SUFFICES ASSUME degraded = {} PROVE 1..Modelled \subseteq commandReadModel'.reflects
    BY <1>1, <1>2 DEF ModelSoFar, Modelled
  <2>1. (HotTables /\ "unrestored" \notin degraded /\ up /\ ~repair.under => HotWhole)'
    BY WholeOutsideRepairs, PTL
  <2>2. HotWhole'
    BY <1>1, <1>3, <2>1 DEF Stored
  <2>3. 1..Modelled \subseteq Sequence
    BY <1>1 DEF Modelled, Holding, Sequence
  <2>4. 1..Modelled \subseteq commandReadModel.reflects
    BY <1>1 DEF Recovering, ModelSoFar
  <2> QED
    BY <1>1, <1>5, <2>2, <2>3, <2>4
<1> QED
  BY <1>3, <1>6, <1>7, <1>8 DEF Recovering

(* One that fails puts back what it had backed up, or says so. *)
LEMMA RepairFailsRecovers ==
  ASSUME Recovering, RepairFails PROVE Recovering'
<1>1. /\ repair.under /\ up /\ ~Holding /\ ~repair'.under /\ log' = log
      /\ UNCHANGED <<worker, commandReadModel, heard, dirty, up, base, skipped>>
  BY DEF RepairFails, NoRepair, Becomes, Recovering, Exclusive
<1>2. PICK e \in BrokenOff(cursor, rows) :
        \/ Becomes(Restored(e)) /\ degraded' = degraded
        \/ Becomes(e) /\ degraded' = degraded \cup {"unrestored"}
  BY DEF RepairFails
<1>3. /\ Len(log) \in Nat /\ cursor \in Cursors /\ rows \in Tables
      /\ repair.cursor \in Cursors /\ repair.projects \subseteq Sequence
  BY <1>1 DEF Recovering, Within
<1>4. /\ e.cursor \in Cursors /\ e.rows \in Tables
      /\ \A p \in Projector : rows[p] \subseteq e.rows[p]
  BY <1>2, <1>3, BrokenOffFurthers DEF Furthers
<1>5. Placed' /\ Exclusive' /\ HeardSoFar' /\ ModelSoFar'
  BY <1>1, <1>2 DEF Recovering, Placed, InRun, Exclusive, Holding, HeardSoFar, ModelSoFar,
     Published, Modelled
<1>6. FromTheStart' /\ Listed'
  BY <1>1 DEF Recovering, Stored, FromTheStart, Listed, Sequence, Applies
<1>7. CASE Becomes(e) /\ degraded' = degraded \cup {"unrestored"}
  <2>1. cursor' \in Cursors /\ rows' \in Tables
    BY <1>4, <1>7 DEF Becomes
  <2>2. Within'
    BY <1>1, <2>1 DEF Recovering, Within, OneReplayReadsAll, Cursors, Tables, Sequence
  <2>3. HotTables' /\ SummaryTable' /\ SummedSoFar'
    BY <1>7 DEF HotTables, SummaryTable, SummedSoFar
  <2> QED
    BY <1>5, <1>6, <2>2, <2>3 DEF Recovering, Stored
<1>8. CASE Becomes(Restored(e)) /\ degraded' = degraded
  <2>1. cursor' = repair.cursor /\ rows' = [e.rows EXCEPT !["projects"] = repair.projects]
    BY <1>8 DEF Becomes, Restored
  <2>2. "projects" \in Projector /\ Summaries \in Projector /\ Summaries # "projects"
    BY ProjectorsAssumption DEF Summaries
  <2>3. /\ rows' \in Tables /\ rows'["projects"] = repair.projects
        /\ \A p \in Projector : p # "projects" => rows'[p] = e.rows[p]
    BY <1>3, <1>4, <2>1, <2>2 DEF Tables
  <2>4. Within'
    BY <1>1, <1>3, <2>1, <2>3 DEF Recovering, Within, OneReplayReadsAll, Cursors, Tables,
       Sequence
  <2>5. HotTables'
    <3> SUFFICES ASSUME "unrestored" \notin degraded, NEW p \in HotProjector
                 PROVE  HotTable(p)'
      BY <1>1, <1>8 DEF HotTables
    <3>1. CASE p = "projects"
      <4>1. Reflects(repair.projects, "projects", 0, Len(log))
        BY <1>1 DEF Recovering, Stored, HotTables
      <4>2. Reflects(rows[p], p, 0, Len(log))'
        BY <1>1, <2>3, <3>1, <4>1 DEF Reflects, Sequence, Applies
      <4> QED
        BY <4>2 DEF HotTable
    <3>2. CASE p # "projects"
      <4>1. Reflects(rows[p], p, 0, Len(log))
        BY <3>2 DEF Recovering, Stored, HotTables, HotTable
      <4>2. rows[p] \subseteq rows'[p]
        BY <1>4, <2>3, <3>2 DEF HotProjector
      <4>3. Reflects(rows[p], p, 0, Len(log))'
        BY <1>1, <4>1, <4>2 DEF Reflects, Sequence, Applies
      <4> QED
        BY <4>3 DEF HotTable
    <3> QED
      BY <3>1, <3>2
  <2>6. rows[Summaries] \subseteq rows'[Summaries]
    BY <1>4, <2>2, <2>3
  <2>7. SummaryTable'
    BY <1>1, <1>8, <2>1, <2>6 DEF Recovering, Stored, SummaryTable, Summed, Reflects,
       Sequence, Applies
  <2>8. SummedSoFar'
    BY <1>1, <1>8, <2>6 DEF Recovering, SummedSoFar, Projected, Summed, Reflects, Sequence,
       Applies
  <2> QED
    BY <1>5, <1>6, <2>4, <2>5, <2>7, <2>8 DEF Recovering, Stored
<1> QED
  BY <1>2, <1>7, <1>8

(* A crash during a repair leaves the projects to the next start. *)
LEMMA CrashRecovers ==
  ASSUME Recovering, Crash PROVE Recovering'
<1>1. /\ up /\ ~up' /\ worker'.step = "idle" /\ worker'.start = 0 /\ heard' = {}
      /\ ~repair'.under /\ commandReadModel'.snapshotSequence = 0
      /\ UNCHANGED <<log, cursor, rows, base, skipped, degraded>>
  BY IdleFields DEF Crash, pipeline, auxiliary, NoRepair, EmptyModel
<1>2. Within' /\ Placed' /\ Exclusive'
  BY <1>1 DEF Recovering, Within, Placed, InRun, Exclusive, Holding, OneReplayReadsAll,
     Cursors, Tables, Sequence
<1>3. HeardSoFar' /\ ModelSoFar' /\ SummedSoFar'
  BY <1>1 DEF HeardSoFar, ModelSoFar, SummedSoFar
<1>4. HotTables'
  <2> SUFFICES ASSUME "unrestored" \notin degraded, NEW p \in HotProjector
               PROVE  HotTable(p)'
    BY <1>1 DEF HotTables
  <2>1. HotTable(p)
    BY DEF Recovering, Stored, HotTables
  <2> QED
    BY <1>1, <2>1 DEF HotTable, Reflects, Sequence, Applies
<1>5. SummaryTable' /\ FromTheStart' /\ Listed'
  BY <1>1 DEF Recovering, Stored, SummaryTable, FromTheStart, Listed, Summed, Reflects,
     Sequence, Applies
<1> QED
  BY <1>2, <1>3, <1>4, <1>5 DEF Recovering, Stored

-----------------------------------------------------------------------------
(* The transaction, and the deferred projection *)

(* What the transaction does to the tables: a hot one takes in the events of
   the command, and no other cursor is moved but to one of them. *)
LEMMA CommitStore ==
  ASSUME Settling, Recovering, NEW decision \in Decision, NEW aggregate \in Aggregate,
         Commit(decision, aggregate)
  PROVE  /\ cursor' \in Cursors' /\ rows' \in Tables'
         /\ cursor'[Summaries] = cursor[Summaries] /\ rows'[Summaries] = rows[Summaries]
         /\ \A p \in HotProjector : \A s \in Sequence' :
              Applies(p, s)' => s \in rows'[p] \/ (s \in Sequence /\ Applies(p, s))
         /\ \A p \in HotProjector : rows[p] \subseteq rows'[p]
<1>1. PICK n, m : n = Len(log) /\ m = Len(decision)
  OBVIOUS
<1>2. PICK events : events = [i \in 1..Len(decision) |->
                       [type |-> decision[i], aggregate |-> aggregate, command |-> current]]
  OBVIOUS
<1>3. /\ m \in Nat /\ m > 0 /\ n \in Nat /\ Len(log') = n + m
      /\ \A s \in 1..n : log'[s] = log[s]
      /\ \A i \in 1..m : log'[n + i].type = decision[i]
  BY <1>1, CommitLog
<1>4. Len(events) = m /\ \A i \in 1..m : events[i].type = decision[i]
  <2>1. Len(events) = m
    BY <1>1, <1>2, <1>3
  <2>2. \A i \in 1..m : events[i].type = decision[i]
    BY <1>1, <1>2
  <2> QED
    BY <2>1, <2>2
<1>5. CommitEvents(events)
  BY <1>2 DEF Commit
<1> DEFINE added == n + 1 .. n + m
           Latest(p) == {s \in added : p \in MovedBy(events[s - n].type)}
<1>6. /\ cursor' = [p \in Cursor |-> IF Latest(p) = {} THEN cursor[p]
                                    ELSE Upserted(cursor[p], Max(Latest(p)))]
      /\ rows' = [p \in Projector |->
                    IF p \in HotProjector
                      THEN rows[p] \cup {s \in added : events[s - n].type \in ShouldApply(p)}
                      ELSE rows[p]]
  BY <1>1, <1>4, <1>5 DEF CommitEvents
<1>7. /\ cursor \in Cursors /\ rows \in Tables /\ Summaries \in Projector
      /\ Summaries # "hot" /\ Summaries \notin HotProjector
  BY ProjectorsAssumption DEF Recovering, Within, HotProjector
<1>8. added \subseteq Sequence' /\ Sequence \subseteq Sequence'
  BY <1>1, <1>3 DEF Sequence
<1>9. ASSUME NEW p \in Cursor
      PROVE  cursor'[p] \in 0..n + m
  <2>1. cursor[p] \in 0..n
    BY <1>1, <1>7 DEF Cursors
  <2>2. CASE Latest(p) = {}
    BY <1>3, <1>6, <2>1, <2>2
  <2>3. CASE Latest(p) # {}
    <3>1. cursor'[p] = Upserted(cursor[p], Max(Latest(p)))
      BY <1>6, <2>3
    <3>2. Latest(p) \subseteq 0..n + m /\ n + m \in Nat
      BY <1>3
    <3> HIDE DEF Latest
    <3>3. Max(Latest(p)) \in 0..n + m
      BY <2>3, <3>2, MaxIn
    <3> QED
      BY <1>3, <2>1, <3>1, <3>3, UpsertedLater
  <2> QED
    BY <2>2, <2>3
<1>10. cursor' \in Cursors'
  <2> HIDE DEF Latest
  <2> QED
    BY <1>3, <1>6, <1>9 DEF Cursors
<1>11. rows' \in Tables'
  <2> HIDE DEF added
  <2>1. \A p \in Projector : rows'[p] \subseteq Sequence'
    BY <1>6, <1>7, <1>8 DEF Tables
  <2> QED
    BY <1>6, <2>1 DEF Tables
<1>12. cursor'[Summaries] = cursor[Summaries] /\ rows'[Summaries] = rows[Summaries]
  <2>1. \A type : Summaries \notin MovedBy(type)
    BY <1>7 DEF MovedBy, PROJECT_METADATA_SNAPSHOT_PROJECTORS, Summaries
  <2>2. Latest(Summaries) = {}
    BY <2>1
  <2> HIDE DEF Latest
  <2> QED
    BY <1>6, <1>7, <2>2 DEF Cursor
<1>13. ASSUME NEW p \in HotProjector, NEW s \in Sequence', Applies(p, s)'
       PROVE  s \in rows'[p] \/ (s \in Sequence /\ Applies(p, s))
  <2>1. s \in 1..n + m
    BY <1>3 DEF Sequence
  <2>2. CASE s <= n
    BY <1>1, <1>3, <1>13, <2>1, <2>2 DEF Sequence, Applies
  <2>3. CASE ~(s <= n)
    <3>1. s \in added /\ s - n \in 1..m /\ n + (s - n) = s
      BY <1>3, <2>1, <2>3
    <3>2. events[s - n].type \in ShouldApply(p)
      BY <1>3, <1>4, <1>13, <3>1 DEF Applies
    <3>3. p \in Projector
      BY DEF HotProjector
    <3> HIDE DEF added
    <3> QED
      BY <1>6, <3>1, <3>2, <3>3
  <2> QED
    BY <2>2, <2>3
<1>14. \A p \in HotProjector : rows[p] \subseteq rows'[p]
  <2> HIDE DEF added
  <2> QED
    BY <1>6 DEF HotProjector
<1> QED
  BY <1>10, <1>11, <1>12, <1>13, <1>14

(* The transaction leaves the model, the stream and the summaries behind the
   log by the events of the command, and nothing else. *)
LEMMA CommitRecovers ==
  ASSUME OneReplay, Settling, Recovering, NEW decision \in Decision,
         NEW aggregate \in Aggregate, Commit(decision, aggregate)
  PROVE  Recovering'
<1>1. PICK n, m : n = Len(log) /\ m = Len(decision)
  OBVIOUS
<1>2. /\ m \in Nat /\ m > 0 /\ n \in Nat /\ Len(log') = n + m
      /\ \A s \in 1..n : log'[s] = log[s]
      /\ \A i \in 1..m : log'[n + i].type = decision[i]
  BY <1>1, CommitLog
<1>3. /\ worker'.step = "committed" /\ worker'.first = n + 1 /\ worker'.next = n + 1
      /\ worker'.last = n + m /\ worker'.start = worker.start
  <2>1. PICK V : worker \in WorkerIn(V)
    BY DEF Settling, Shaped
  <2> QED
    BY <1>1, <1>2, <2>1 DEF Commit, WorkerIn
<1>4. /\ UNCHANGED <<commandReadModel, heard, dirty, repair, up, base, skipped, degraded>>
      /\ worker.step = "running" /\ n + m <= MaxEvents
  BY <1>1 DEF Commit, auxiliary
<1>5. up /\ ~repair.under
  BY <1>4 DEF Recovering, Exclusive, Holding
<1>6. /\ cursor' \in Cursors' /\ rows' \in Tables'
      /\ cursor'[Summaries] = cursor[Summaries] /\ rows'[Summaries] = rows[Summaries]
      /\ \A p \in HotProjector : \A s \in Sequence' :
           Applies(p, s)' => s \in rows'[p] \/ (s \in Sequence /\ Applies(p, s))
      /\ \A p \in HotProjector : rows[p] \subseteq rows'[p]
  BY CommitStore
<1>7. OneReplayReadsAll'
  BY <1>2, <1>4, ReadLimitAssumption DEF OneReplay, OneReplayReadsAll
<1>8. Within' /\ Placed' /\ Exclusive'
  <2>1. worker.start \in 0..n /\ commandReadModel.snapshotSequence \in 0..n /\ base \in 0..n
        /\ heard \subseteq 1..n
    BY <1>1 DEF Recovering, Within, Sequence
  <2>2. Within'
    BY <1>2, <1>3, <1>4, <1>5, <1>6, <1>7, <2>1 DEF Within, Sequence
  <2>3. Placed'
    BY <1>2, <1>3, <2>1 DEF Placed, InRun
  <2>4. Exclusive'
    BY <1>4, <1>5 DEF Exclusive
  <2> QED
    BY <2>2, <2>3, <2>4
<1>9. HeardSoFar' /\ ModelSoFar'
  <2>1. Published = n /\ Modelled = n /\ Published' = n /\ Modelled' = n
    BY <1>1, <1>2, <1>3, <1>4 DEF Published, Modelled
  <2> QED
    BY <1>4, <1>5, <2>1 DEF Recovering, HeardSoFar, ModelSoFar
<1>10. HotTables'
  <2> SUFFICES ASSUME "unrestored" \notin degraded, NEW p \in HotProjector
               PROVE  HotTable(p)'
    BY <1>4, <1>5 DEF HotTables
  <2>1. Reflects(rows[p], p, 0, n)
    BY <1>1, <1>5, WholeOutsideRepairs DEF Recovering, Stored, HotWhole
  <2>2. \A s \in Sequence : 0 < s /\ s <= n
    BY <1>1, <1>2 DEF Sequence
  <2>3. Reflects(rows[p], p, 0, Len(log))'
    BY <1>6, <2>1, <2>2 DEF Reflects
  <2> QED
    BY <2>3 DEF HotTable
<1>11. \A s \in Sequence' : s <= n => s \in Sequence /\ \A p : Applies(p, s)' <=> Applies(p, s)
  BY <1>1, <1>2 DEF Sequence, Applies
<1>12. SummaryTable'
  <2> SUFFICES ASSUME "unrestored" \notin degraded
               PROVE  Reflects(Summed, Summaries, 0, cursor[Summaries])'
    BY <1>4, <1>5 DEF SummaryTable
  <2>1. cursor[Summaries] \in 0..n
    BY <1>1, ProjectorsAssumption DEF Recovering, Within, Cursors, Cursor
  <2>2. Reflects(Summed, Summaries, 0, cursor[Summaries])
    BY DEF Recovering, Stored, SummaryTable
  <2>3. \A s \in Sequence' : s <= cursor[Summaries] => s <= n
    BY <1>2, <2>1 DEF Sequence
  <2> QED
    BY <1>4, <1>6, <1>11, <2>2, <2>3 DEF Reflects, Summed
<1>13. SummedSoFar'
  <2> SUFFICES ASSUME "unrestored" \notin degraded, ~dirty
               PROVE  Reflects(Summed, Summaries, 0, n)'
    BY <1>2, <1>3, <1>4, <1>5 DEF SummedSoFar, Projected
  <2>1. Reflects(Summed, Summaries, 0, n)
    BY <1>1, <1>4, <1>5 DEF Recovering, SummedSoFar, Projected
  <2> QED
    BY <1>4, <1>6, <1>11, <2>1 DEF Reflects, Summed
<1>14. FromTheStart'
  BY <1>4, <1>5 DEF FromTheStart
<1>15. Listed'
  <2> SUFFICES ASSUME NEW s \in Sequence', NEW p \in SnapshotTables, Applies(p, s)'
               PROVE  p \in Projector
    BY DEF Listed
  <2>1. CASE s <= n
    BY <1>11, <2>1 DEF Recovering, Stored, Listed
  <2>2. CASE ~(s <= n)
    <3>1. s - n \in 1..m /\ n + (s - n) = s
      BY <1>2, <2>2 DEF Sequence
    <3>2. decision[s - n] \in ShouldApply(p)
      BY <1>2, <3>1 DEF Applies
    <3> QED
      BY <1>1, <3>1, <3>2, ListedAssumption
  <2> QED
    BY <2>1, <2>2
<1> QED
  BY <1>8, <1>9, <1>10, <1>12, <1>13, <1>14, <1>15 DEF Recovering, Stored

(* What the deferred projection of an event does to the store. *)
LEMMA DeferredStore ==
  ASSUME Recovering, NEW n \in Sequence, ProjectDeferredEvent(n)
  PROVE  /\ cursor' \in Cursors /\ rows' \in Tables
         /\ cursor'["hot"] = cursor["hot"]
         /\ \A p \in HotProjector : cursor'[p] = cursor[p] /\ rows'[p] = rows[p]
         /\ cursor'[Summaries] \in {cursor[Summaries], n}
         /\ rows[Summaries] \subseteq rows'[Summaries]
         /\ Applies(Summaries, n) => n \in rows'[Summaries]
<1>1. /\ cursor \in Cursors /\ rows \in Tables /\ Summaries \in Projector
      /\ Summaries # "hot" /\ Summaries \in Cursor /\ "hot" \in Cursor
      /\ HotProjector \subseteq Projector /\ HotProjector \subseteq Cursor
      /\ Summaries \notin HotProjector
  BY ProjectorsAssumption DEF Recovering, Within, HotProjector, Cursor
<1>2. cursor[Summaries] \in 0..Len(log) /\ n \in 0..Len(log)
  BY <1>1 DEF Cursors, Sequence
<1> DEFINE u == Upserted(cursor[Summaries], n)
<1>3. u \in {cursor[Summaries], n} /\ u \in 0..Len(log)
  BY <1>2, UpsertedLater
<1>4. cursor' = [cursor EXCEPT ![Summaries] = u]
  BY DEF ProjectDeferredEvent
<1> HIDE DEF u
<1>5. /\ cursor' \in Cursors /\ cursor'["hot"] = cursor["hot"]
      /\ \A p \in HotProjector : cursor'[p] = cursor[p]
      /\ cursor'[Summaries] \in {cursor[Summaries], n}
  BY <1>1, <1>3, <1>4 DEF Cursors
<1>6. CASE Applies(Summaries, n)
  <2>1. rows' = [rows EXCEPT ![Summaries] = rows[Summaries] \cup RefreshedBy(n)]
    BY <1>6 DEF ProjectDeferredEvent
  <2>2. RefreshedBy(n) \subseteq Sequence /\ n \in RefreshedBy(n)
    BY <1>6, RefreshedEvents
  <2> QED
    BY <1>1, <1>5, <2>1, <2>2 DEF Tables
<1>7. CASE ~Applies(Summaries, n)
  BY <1>1, <1>5, <1>7 DEF ProjectDeferredEvent
<1> QED
  BY <1>6, <1>7

(* An event is summed up after all before it, or a catch-up is due. *)
LEMMA ProjectCommittedEventRecovers ==
  ASSUME Settling, Recovering, ProjectCommittedEvent PROVE Recovering'
<1>1. /\ worker.step = "deferring" /\ NextEvent("publishing")
      /\ UNCHANGED <<log, commandReadModel, heard, repair, up, base, skipped, degraded>>
  BY DEF ProjectCommittedEvent, ProjectDeferredEvent, pipeline, auxiliary
<1>2. /\ Placed' /\ worker.next \in Sequence /\ worker'.start \in 0..Len(log)
      /\ worker.next \in Nat /\ Len(log) \in Nat
      /\ worker.next < worker.last => worker'.next - 1 = worker.next
      /\ ~(worker.next < worker.last) => worker.next = Len(log)
  BY <1>1, OnItsWay
<1>3. /\ worker'.first = worker.first
      /\ worker.next < worker.last => worker'.step = "deferring"
      /\ ~(worker.next < worker.last) => worker'.step = "publishing" /\ worker'.next = worker.first
  BY <1>1, NextEventFields
<1>4. up /\ ~repair.under
  BY <1>1 DEF Recovering, Exclusive, Holding
<1>5. Exclusive'
  BY <1>1, <1>4 DEF Exclusive
<1>6. HeardSoFar' /\ ModelSoFar'
  <2>1. Published' = Published /\ Modelled' = Modelled
    BY <1>1, <1>3 DEF Published, Modelled
  <2> QED
    BY <1>1, <2>1 DEF Recovering, HeardSoFar, ModelSoFar
<1>7. Projected = worker.next - 1 /\ Projected' = worker.next
  BY <1>1, <1>2, <1>3 DEF Projected
<1>8. CASE dirty' = TRUE /\ UNCHANGED pipeline
  <2>1. Stored'
    BY <1>1, <1>8, StoredStays DEF Recovering
  <2>2. Within'
    BY <1>1, <1>2, <1>8 DEF Recovering, Within, OneReplayReadsAll, Cursors, Tables, Sequence,
       pipeline
  <2>3. SummedSoFar'
    BY <1>8 DEF SummedSoFar
  <2> QED
    BY <1>2, <1>5, <1>6, <2>1, <2>2, <2>3 DEF Recovering
<1>9. CASE ~dirty /\ ProjectDeferredEvent(worker.next) /\ dirty' = dirty
  <2>1. PICK n \in Sequence : n = worker.next
    BY <1>2
  <2>2. /\ cursor' \in Cursors /\ rows' \in Tables
        /\ cursor'["hot"] = cursor["hot"]
        /\ \A p \in HotProjector : cursor'[p] = cursor[p] /\ rows'[p] = rows[p]
        /\ cursor'[Summaries] \in {cursor[Summaries], n}
        /\ rows[Summaries] \subseteq rows'[Summaries]
        /\ Applies(Summaries, n) => n \in rows'[Summaries]
    BY <1>9, <2>1, DeferredStore
  <2>3. Within'
    BY <1>1, <1>2, <1>4, <2>2 DEF Recovering, Within, OneReplayReadsAll, Cursors, Tables,
       Sequence
  <2>4. HotTables'
    BY <1>1, <1>4, <2>2 DEF Recovering, Stored, HotTables, HotTable, Reflects, Sequence,
       Applies
  <2>5. ASSUME "unrestored" \notin degraded PROVE Reflects(Summed, Summaries, 0, n)'
    <3>1. Reflects(Summed, Summaries, 0, n - 1)
      BY <1>4, <1>7, <1>9, <2>1, <2>5 DEF Recovering, SummedSoFar
    <3>2. \A s \in Sequence : s <= n => s <= n - 1 \/ s = n
      BY <1>2, <2>1 DEF Sequence
    <3> QED
      BY <1>1, <2>2, <3>1, <3>2 DEF Summed, Reflects, Sequence, Applies
  <2>6. ASSUME "unrestored" \notin degraded
        PROVE  Reflects(Summed, Summaries, 0, cursor[Summaries])'
    <3>1. Reflects(Summed, Summaries, 0, cursor[Summaries])
      BY <2>6 DEF Recovering, Stored, SummaryTable
    <3> QED
      BY <1>1, <2>2, <2>5, <2>6, <3>1 DEF Summed, Reflects, Sequence, Applies
  <2>7. SummaryTable'
    BY <1>1, <1>4, <2>6 DEF SummaryTable
  <2>8. SummedSoFar'
    BY <1>1, <1>7, <2>1, <2>5 DEF SummedSoFar
  <2>9. FromTheStart' /\ Listed'
    BY <1>1, <1>4 DEF Recovering, Stored, FromTheStart, Listed, Sequence, Applies
  <2> QED
    BY <1>2, <1>5, <1>6, <2>3, <2>4, <2>7, <2>8, <2>9 DEF Recovering, Stored
<1> QED
  BY <1>8, <1>9 DEF ProjectCommittedEvent, MayProject

-----------------------------------------------------------------------------
(* The theorems *)

(* An empty log and empty tables. *)
LEMMA RecoveringInit == EngineInit => Recovering
<1> SUFFICES ASSUME EngineInit PROVE Recovering
  OBVIOUS
<1>1. /\ Len(log) = 0 /\ Sequence = {}
      /\ cursor = [p \in Cursor |-> 0] /\ rows = [p \in Projector |-> {}]
  BY DEF EngineInit, PipelineInit, Sequence
<1>2. /\ worker.step = "idle" /\ worker.start = 0 /\ up /\ base = 0 /\ heard = {}
      /\ ~repair.under /\ commandReadModel.snapshotSequence = 0
  BY DEF EngineInit, Idle, EmptyModel, NoRepair
<1>3. Within
  BY <1>1, <1>2, ReadLimitAssumption DEF Within, OneReplayReadsAll, Cursors, Tables
<1>4. Placed /\ Exclusive
  BY <1>2 DEF Placed, InRun, Exclusive
<1>5. HeardSoFar /\ ModelSoFar
  BY <1>1, <1>2 DEF HeardSoFar, ModelSoFar, Published, Modelled
<1>6. \A t, p, a, b : Reflects(t, p, a, b)
  BY <1>1 DEF Reflects
<1>7. Stored /\ SummedSoFar
  BY <1>1, <1>2, <1>6 DEF Stored, HotTables, HotTable, SummaryTable, FromTheStart, Listed,
     SummedSoFar
<1> QED
  BY <1>3, <1>4, <1>5, <1>7 DEF Recovering

(* Every step recovers, or leaves a recovery to the next. *)
LEMMA RecoveringStep ==
  OneReplay /\ Settling /\ Recovering /\ [EngineNext]_vars => Recovering'
<1> SUFFICES ASSUME OneReplay, Settling, Recovering, [EngineNext]_vars PROVE Recovering'
  OBVIOUS
<1>1. CASE \/ \E c \in Command : Dispatch(c)
           \/ \E e \in DOMAIN envelope : DispatchTimeout(e)
           \/ UNCHANGED vars
  <2>1. UNCHANGED <<pipeline, worker, commandReadModel, heard, dirty, repair, up, base,
                    skipped, degraded>>
    BY <1>1 DEF Dispatch, DispatchTimeout, vars, engine, auxiliary
  <2> QED
    BY <2>1, CallersRecover
<1>2. CASE Worker
  <2>1. CASE \/ TakeEnvelope \/ SkipAbandoned \/ Begin \/ ReplayReceipt \/ Succeed
             \/ ResolveStoredOutcome \/ ResolveFailure
    BY <2>1, QueueRecovers
  <2>2. CASE Reject \/ RunFails \/ RunTimeout
    BY <2>2, FailuresRecover
  <2>3. CASE \E decision \in Decision, aggregate \in Aggregate :
               Commit(decision, aggregate)
    BY <2>3, CommitRecovers
  <2>4. CASE SetCommandReadModel \/ ProjectCommittedEvent \/ Publish
    BY <2>4, SetCommandReadModelRecovers, ProjectCommittedEventRecovers, PublishRecovers
  <2>5. CASE Reconcile \/ ReconcileFails
    BY <2>5, ReconcileRecovers
  <2> QED
    BY <1>2, <2>1, <2>2, <2>3, <2>4, <2>5 DEF Worker
<1>3. CASE CatchUp \/ RefreshCommandReadModel
  BY <1>3, CatchUpRecovers, RefreshRecovers
<1>4. CASE BeginRepair \/ Repair
  BY <1>4, BeginRepairRecovers, RepairSucceedsRecovers, RepairFailsRecovers DEF Repair
<1>5. CASE Crash \/ Start \/ StartFails
  BY <1>5, CrashRecovers, StartRecovers, StartFailsRecovers
<1> QED
  BY <1>1, <1>2, <1>3, <1>4, <1>5 DEF EngineNext

(* The invariant: after every step, failure, crash and repair, the model, the
   stream and the tables have got as far as the step of the worker says. *)
THEOREM RecoveryInvariance == OneReplay => (EngineSpec => []Recovering)
<1> SUFFICES ASSUME OneReplay PROVE EngineSpec => []Recovering
  OBVIOUS
<1>1. Settling /\ Recovering /\ [EngineNext]_vars => Recovering'
  BY RecoveringStep
<1> QED
  BY <1>1, RecoveringInit, SettlingIsInvariant, PTL DEF EngineSpec

(* A command is decided on a model of every committed event, whatever became
   of the runs before: cut off between the commit and the update of the model,
   timed out, or followed by a refresh or a repair (commandProcessor.ts,
   the update after the commit and the reconciliation). *)
THEOREM DecidesOnWhatIsCommitted ==
  OneReplay => (EngineSpec => []DecidesOnCurrentModel)
BY ModelIsCurrent, RecoveryInvariance, PTL

(* A subscriber hears of an event only after all earlier ones of this process:
   a run that is cut off while it publishes is made good before the next
   (commandProcessor.ts, the publication after the commit and in the
   reconciliation). *)
THEOREM NoSubscriberHasAGap == OneReplay => (EngineSpec => []HeardInOrder)
BY NoGap, RecoveryInvariance, PTL

(* A cursor passes an event only when its tables reflect it, but for the
   summaries of a command that timed out after its commit: fast-forwards,
   catch-ups and bootstraps that stop half way lose nothing
   (pipelineRuntime.ts, bootstrapProjector and projectDeferredEvent). *)
THEOREM NoCursorRunsAhead == OneReplay => (EngineSpec => []SkippedOnlyByTimeout)
BY TablesFollowCursors, RecoveryInvariance, PTL

(* A repair that gets through has rebuilt the projects it deleted, because it
   replays them from the start and one replay reads the log
   (repairStateController.ts). *)
THEOREM RepairRebuildsProjects == OneReplay => (EngineSpec => ProjectsRebuilt)
<1> SUFFICES ASSUME OneReplay PROVE EngineSpec => ProjectsRebuilt
  OBVIOUS
<1>1. ASSUME Recovering, RepairSucceeds, NEW s \in Sequence, Applies("projects", s)
      PROVE  s \in rows'["projects"]
  <2>1. /\ Len(log) \in Nat /\ cursor \in Cursors /\ repair.under
        /\ cursor["projects"] = 0 /\ cursor["hot"] = 0
    BY <1>1 DEF Recovering, Within, RepairSucceeds, Stored, FromTheStart
  <2>2. "projects" \in Projector /\ FastForwarded(cursor)["projects"] = 0
    BY <2>1, FastForwards, ProjectorsAssumption
  <2>3. PICK e : Completes(e, FastForwarded(cursor)) /\ rows' = e.rows
    BY <1>1, BootstrapReplays DEF RepairSucceeds
  <2>4. Reflects(rows'["projects"], "projects", 0, Len(log))
    BY <2>2, <2>3 DEF Completes
  <2> QED
    BY <1>1, <2>1, <2>4 DEF Reflects, Sequence
<1>2. Recovering /\ [EngineNext]_vars =>
        [RepairSucceeds =>
           \A s \in Sequence : Applies("projects", s) => s \in rows'["projects"]]_vars
  BY <1>1
<1> QED
  BY <1>2, RecoveryInvariance, PTL DEF EngineSpec, ProjectsRebuilt
===============================================================================
