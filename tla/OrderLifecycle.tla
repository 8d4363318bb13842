--------------------------- MODULE OrderLifecycle ---------------------------
(***************************************************************************)
(* What the order service promises about an order, said without its        *)
(* database: an order moves one stage at a time along the delivery         *)
(* pipeline, it can be cancelled until it is delivered and rejected only   *)
(* while it is pending, nothing changes once its status is final, and the  *)
(* stage OUT_FOR_DELIVERY is entered with a courier.  OrderStore, the      *)
(* service with its repository, is measured against this module.           *)
(***************************************************************************)
EXTENDS Naturals

CONSTANTS
  Order,      \* order ids
  Driver,     \* courier ids
  NoDriver    \* the null driver_id

VARIABLES
  status,     \* status of each order, "NONE" before it is placed
  driver      \* courier of each order, or NoDriver

lifecycleVars == <<status, driver>>

Pipeline == <<"PENDING", "CONFIRMED", "PREPARING", "READY_FOR_PICKUP",
              "OUT_FOR_DELIVERY", "DELIVERED">>

Final == {"DELIVERED", "CANCELLED", "REJECTED"}

Init ==
  /\ status = [o \in Order |-> "NONE"]
  /\ driver = [o \in Order |-> NoDriver]

Place(o) ==
  /\ status[o] = "NONE"
  /\ status' = [status EXCEPT ![o] = "PENDING"]
  /\ UNCHANGED driver

(* The order reaches the next stage; entering OUT_FOR_DELIVERY names the   *)
(* courier, every other stage keeps the one it has.                        *)
Advance(o) ==
  \E i \in 1 .. 5 :
    /\ status[o] = Pipeline[i]
    /\ status' = [status EXCEPT ![o] = Pipeline[i + 1]]
    /\ IF i = 4 THEN \E d \in Driver : driver' = [driver EXCEPT ![o] = d]
                ELSE UNCHANGED driver

Cancel(o) ==
  /\ \E i \in 1 .. 5 : status[o] = Pipeline[i]
  /\ status' = [status EXCEPT ![o] = "CANCELLED"]
  /\ UNCHANGED driver

Reject(o) ==
  /\ status[o] = "PENDING"
  /\ status' = [status EXCEPT ![o] = "REJECTED"]
  /\ UNCHANGED driver

(* The courier recorded on an order under way may be replaced, never       *)
(* removed.                                                                *)
Reassign(o) ==
  /\ status[o] \notin Final \cup {"NONE"}
  /\ \E d \in Driver : driver' = [driver EXCEPT ![o] = d]
  /\ UNCHANGED status

Step(o) == Place(o) \/ Advance(o) \/ Cancel(o) \/ Reject(o) \/ Reassign(o)

Next == \E o \in Order : Step(o)

Spec == Init /\ [][Next]_lifecycleVars
=============================================================================
