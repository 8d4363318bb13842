---------------------------- MODULE MCRestaurant ----------------------------
(***************************************************************************)
(* For TLC: the restaurant's two sides, its profile and menu at            *)
(* merchant-service and the order that goes from its kitchen to the door.  *)
(* They share no state, so a behaviour is one of them.                     *)
(***************************************************************************)
EXTENDS MerchantStore, Delivery

VARIABLES
  side,  \* profile or order
  tried  \* whether a courier has pressed the button to accept the order

InitRestaurant == side \in {"profile", "order"} /\ tried = FALSE /\ Init /\ DeliveryInit

(* Slots are interchangeable: the first idle one is taken.                 *)
RequestsInTurn ==
  ~\E r, s \in Request : r < s /\ pc[r] = "idle" /\ pc[s] = "idle" /\ pc'[s] # "idle"
Starts(s) == req[s].at = "idle" /\ req'[s].at # "idle"
CallsInTurn == ~\E r, s \in Slot : r < s /\ req[r].at = "idle" /\ Starts(s)

(* So are couriers: the first who presses the button is courier 1.         *)
Accepts(c) == \E s \in Slot : Starts(s) /\ req'[s].op = "accept" /\ req'[s].driver = c
CouriersInTurn ==
  /\ ~(~tried /\ \E c \in Driver : c > 1 /\ Accepts(c))
  /\ tried' = (tried \/ \E c \in Driver : Accepts(c))

AtTheProfile ==
  side = "profile" /\ Next /\ RequestsInTurn /\ UNCHANGED <<side, tried, deliveryVars>>
AtTheOrder ==
  side = "order" /\ DeliveryNext /\ CallsInTurn /\ CouriersInTurn /\ UNCHANGED <<side, vars>>

(* No call is under way while the other side moves, so that the fairness   *)
(* of Delivery asks nothing of it.                                         *)
SpecRestaurant ==
  /\ InitRestaurant
  /\ [][AtTheProfile \/ AtTheOrder]_<<side, tried, vars, deliveryVars>>
  /\ Fairness
=============================================================================
