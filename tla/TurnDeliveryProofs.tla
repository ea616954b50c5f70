--------------------------- MODULE TurnDeliveryProofs ---------------------------
(***************************************************************************)
(* The promise of TurnDelivery keeps its word for any set of turns: a turn *)
(* is delivered at most once and its outcome is final.  What implements    *)
(* the promise (ProviderTurnQueue) inherits both.                          *)
(***************************************************************************)
EXTENDS TurnDelivery, TLAPS

(* A step moves turns from one phase to another, and only a delivery, of one
   waiting turn, counts. *)
LEMMA OnceStep == TypeOK /\ DeliveredOnce /\ [Next]_vars => TypeOK' /\ DeliveredOnce'
<1> SUFFICES ASSUME TypeOK, DeliveredOnce, [Next]_vars PROVE TypeOK' /\ DeliveredOnce'
  OBVIOUS
<1> USE DEF TypeOK, DeliveredOnce, Phases, Move
<1>1. ASSUME NEW t \in Turn, Accept(t) PROVE TypeOK' /\ DeliveredOnce'
  BY <1>1 DEF Accept
<1>2. ASSUME NEW t \in Turn, Deliver(t) PROVE TypeOK' /\ DeliveredOnce'
  BY <1>2 DEF Deliver
<1>3. ASSUME NEW t \in Turn, Refuse(t) PROVE TypeOK' /\ DeliveredOnce'
  BY <1>3 DEF Refuse
<1>4. ASSUME NEW S \in SUBSET Turn, Drop(S) PROVE TypeOK' /\ DeliveredOnce'
  BY <1>4 DEF Drop
<1>5. CASE UNCHANGED vars
  BY <1>5 DEF vars
<1> QED
  BY <1>1, <1>2, <1>3, <1>4, <1>5 DEF Next

(* A turn reaches the provider at most once, and counts as sent exactly when
   it did: the promise providerTurnAdmission and the queue are held to. *)
THEOREM DeliveredAtMostOnce == Spec => []DeliveredOnce
<1>1. Init => TypeOK /\ DeliveredOnce
  BY DEF Init, TypeOK, DeliveredOnce, Phases
<1>2. TypeOK /\ DeliveredOnce /\ [Next]_vars => TypeOK' /\ DeliveredOnce'
  BY OnceStep
<1> QED
  BY <1>1, <1>2, PTL DEF Spec

(* Sent, refused and dropped are final: a turn taken back by a stop never
   starts later, and a turn reported as failed is not sent after all. *)
THEOREM OutcomesStay == Spec => OutcomesAreFinal
<1>1. [Next]_vars =>
        [\A t \in Turn : phase[t] \in {"sent", "refused", "dropped"} => phase'[t] = phase[t]]_vars
  BY DEF Next, Accept, Deliver, Refuse, Drop, Move, vars
<1> QED
  BY <1>1, PTL DEF Spec, OutcomesAreFinal
=============================================================================
