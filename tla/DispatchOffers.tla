--------------------------- MODULE DispatchOffers ---------------------------
(***************************************************************************)
(* What the dispatch service promises about a dispatch, said without its   *)
(* database: it is offered to one courier at a time, to no courier twice   *)
(* and to at most MaxOffers couriers; one that takes it delivers it; it    *)
(* can be withdrawn until the courier has arrived at the merchant.         *)
(***************************************************************************)
EXTENDS Naturals, FiniteSets

CONSTANTS
  Dispatch,   \* dispatch ids
  Driver,     \* courier ids
  NoDriver,   \* no courier
  MaxOffers   \* how many couriers are asked

VARIABLES
  phase,      \* "none", "searching", "offered", "taken", "underway", "done" or "failed"
  courier,    \* the courier asked or on the way, or NoDriver
  tried       \* the couriers asked so far

offerVars == <<phase, courier, tried>>

Init ==
  /\ phase = [d \in Dispatch |-> "none"]
  /\ courier = [d \in Dispatch |-> NoDriver]
  /\ tried = [d \in Dispatch |-> {}]

Becomes(d, p) == phase' = [phase EXCEPT ![d] = p]

Open(d) ==
  /\ phase[d] = "none"
  /\ Becomes(d, "searching")
  /\ UNCHANGED <<courier, tried>>

(* An untried courier is asked.                                            *)
Offer(d, x) ==
  /\ phase[d] = "searching"
  /\ x \notin tried[d]
  /\ Cardinality(tried[d]) < MaxOffers
  /\ Becomes(d, "offered")
  /\ courier' = [courier EXCEPT ![d] = x]
  /\ tried' = [tried EXCEPT ![d] = @ \cup {x}]

(* The search goes on until MaxOffers couriers have refused.               *)
Refuse(d) ==
  /\ phase[d] = "offered"
  /\ Becomes(d, IF Cardinality(tried[d]) < MaxOffers THEN "searching" ELSE "failed")
  /\ courier' = [courier EXCEPT ![d] = NoDriver]
  /\ UNCHANGED tried

Take(d) ==
  /\ phase[d] = "offered"
  /\ Becomes(d, "taken")
  /\ UNCHANGED <<courier, tried>>

Arrive(d) ==
  /\ phase[d] = "taken"
  /\ Becomes(d, "underway")
  /\ UNCHANGED <<courier, tried>>

Deliver(d) ==
  /\ phase[d] = "underway"
  /\ Becomes(d, "done")
  /\ UNCHANGED <<courier, tried>>

(* Cancelled, or timed out.                                                *)
Fail(d) ==
  /\ phase[d] \in {"searching", "offered", "taken"}
  /\ Becomes(d, "failed")
  /\ UNCHANGED <<courier, tried>>

(* An operator deletes the record.                                         *)
Remove(d) ==
  /\ Becomes(d, "none")
  /\ courier' = [courier EXCEPT ![d] = NoDriver]
  /\ tried' = [tried EXCEPT ![d] = {}]

Step(d) ==
  \/ Open(d) \/ Refuse(d) \/ Take(d) \/ Arrive(d) \/ Deliver(d) \/ Fail(d) \/ Remove(d)
  \/ \E x \in Driver : Offer(d, x)

(* What a step of the service that is none of these leaves alone.          *)
Same(d) == phase'[d] = phase[d] /\ courier'[d] = courier[d] /\ tried'[d] = tried[d]

Next == \E d \in Dispatch : Step(d)

Spec == Init /\ [][Next]_offerVars
=============================================================================
