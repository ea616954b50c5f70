------------------------------ MODULE TurnDelivery ------------------------------
(***************************************************************************)
(* What the provider command reactor owes to the users of a thread: a turn *)
(* that was accepted reaches the provider, once, or its failure can be     *)
(* seen, or a stop or a deletion of the thread took it back.  It is never  *)
(* forgotten, and what happened to it is final.                            *)
(***************************************************************************)
EXTENDS Naturals

CONSTANT Turn

VARIABLES
  phase,      \* what became of each turn
  delivered   \* how often the provider was given each turn

Phases == {"new", "waiting", "sent", "refused", "dropped"}

vars == <<phase, delivered>>

Init ==
  /\ phase = [t \in Turn |-> "new"]
  /\ delivered = [t \in Turn |-> 0]

(* The turns of S go from one phase to another. *)
Move(S, from, to) ==
  /\ \A t \in S : phase[t] = from
  /\ phase' = [t \in Turn |-> IF t \in S THEN to ELSE phase[t]]

Accept(t) == Move({t}, "new", "waiting") /\ UNCHANGED delivered

Deliver(t) == Move({t}, "waiting", "sent") /\ delivered' = [delivered EXCEPT ![t] = @ + 1]

Refuse(t) == Move({t}, "waiting", "refused") /\ UNCHANGED delivered

(* A stop or a deletion takes back all that waits at the time. *)
Drop(S) == Move(S, "waiting", "dropped") /\ UNCHANGED delivered

Next ==
  \/ \E t \in Turn : Accept(t) \/ Deliver(t) \/ Refuse(t)
  \/ \E S \in SUBSET Turn : Drop(S)

Spec == Init /\ [][Next]_vars

-----------------------------------------------------------------------------
TypeOK == phase \in [Turn -> Phases] /\ delivered \in [Turn -> Nat]

(* A turn is delivered at most once, and exactly those are that count as sent. *)
DeliveredOnce == \A t \in Turn : delivered[t] = IF phase[t] = "sent" THEN 1 ELSE 0

(* What became of a turn does not change any more. *)
OutcomesAreFinal ==
  [][\A t \in Turn : phase[t] \in {"sent", "refused", "dropped"} => phase'[t] = phase[t]]_vars
=============================================================================
