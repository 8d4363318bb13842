---------------------------- MODULE CourierDuty ----------------------------
(***************************************************************************)
(* What driver-service promises about a courier, seen by a reader of the   *)
(* drivers table: when a courier may be online, that an order is carried   *)
(* to its completion, and that fatigue ends by a rest and not otherwise.   *)
(***************************************************************************)
CONSTANTS Driver, Order, NoOrder

VARIABLES
  status,   \* "NONE" before the profile exists, "INACTIVE", "ACTIVE",
            \* "SUSPENDED"
  online,   \* whether the courier is online
  order,    \* the order the courier carries, or NoOrder
  fatigue   \* "NORMAL", "WARNING", "CRITICAL"

Hired(d) ==
  /\ status[d] = "NONE" /\ status'[d] = "INACTIVE"
  /\ ~online'[d] /\ order'[d] = NoOrder /\ fatigue'[d] = "NORMAL"

Dismissed(d) == status'[d] = "NONE"

(* Only an active courier who is not exhausted comes online.               *)
ComesOnline(d) ==
  /\ status[d] = "ACTIVE" /\ status'[d] = "ACTIVE"
  /\ ~online[d] /\ online'[d]
  /\ fatigue[d] # "CRITICAL" /\ fatigue'[d] = fatigue[d]
  /\ order'[d] = order[d]

(* Going offline, by whatever route, may come with a new status or the     *)
(* verdict that the courier is exhausted; the order is kept.               *)
GoesOffline(d) ==
  /\ status[d] # "NONE" /\ status'[d] \in {status[d], "INACTIVE", "SUSPENDED"}
  /\ ~online'[d]
  /\ order'[d] = order[d]
  /\ \/ fatigue'[d] = fatigue[d]
     \/ fatigue'[d] = "CRITICAL"
     \/ online[d] /\ fatigue[d] = "CRITICAL" /\ fatigue'[d] = "NORMAL"  \* a break

(* Driving tires, and never rests.                                         *)
Tires(d) ==
  /\ online[d] /\ online'[d] /\ status'[d] = status[d]
  /\ order'[d] = order[d]
  /\ \/ fatigue[d] = "NORMAL" /\ fatigue'[d] \in {"WARNING", "CRITICAL"}
     \/ fatigue[d] = "WARNING" /\ fatigue'[d] = "CRITICAL"

Takes(d) ==
  /\ online[d] /\ online'[d] /\ status'[d] = status[d] /\ fatigue'[d] = fatigue[d]
  /\ order[d] = NoOrder /\ order'[d] \in Order

Completes(d) ==
  /\ online'[d] = online[d] /\ status'[d] = status[d] /\ fatigue'[d] = fatigue[d]
  /\ order[d] \in Order /\ order'[d] = NoOrder

Activated(d) ==
  /\ status[d] # "NONE" /\ status'[d] = "ACTIVE"
  /\ ~online[d] /\ ~online'[d] /\ order'[d] = order[d] /\ fatigue'[d] = fatigue[d]

Step(d) ==
  \/ Hired(d) \/ Dismissed(d) \/ Activated(d)
  \/ ComesOnline(d) \/ GoesOffline(d) \/ Tires(d)
  \/ Takes(d) \/ Completes(d)

Same(d) ==
  /\ status'[d] = status[d] /\ online'[d] = online[d]
  /\ order'[d] = order[d] /\ fatigue'[d] = fatigue[d]
=============================================================================
