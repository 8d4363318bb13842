------------------------------ MODULE Purchase ------------------------------
(***************************************************************************)
(* What the checkout promises a consumer: an order is confirmed only when  *)
(* it exists and its money is secured, held on the card or due in cash at  *)
(* the door, and a confirmation is not taken back.                         *)
(***************************************************************************)
CONSTANT Order

VARIABLES
  ordered,     \* the orders in the order service
  secured,     \* the orders whose money is held or due
  confirmed    \* the orders the consumer was told of

vars == <<ordered, secured, confirmed>>

Init == ordered = {} /\ secured = {} /\ confirmed = {}

(* An order to be paid in cash is secured as it is placed.                 *)
PlaceOrder(o) ==
  /\ o \notin ordered
  /\ ordered' = ordered \cup {o}
  /\ secured' = secured \/ secured' = secured \cup {o}
  /\ UNCHANGED confirmed

Secure(o) ==
  /\ o \in ordered
  /\ secured' = secured \cup {o}
  /\ UNCHANGED <<ordered, confirmed>>

Confirm(o) ==
  /\ o \in secured
  /\ confirmed' = confirmed \cup {o}
  /\ UNCHANGED <<ordered, secured>>

Next == \E o \in Order : PlaceOrder(o) \/ Secure(o) \/ Confirm(o)

Spec == Init /\ [][Next]_vars
=============================================================================
