------------------------------ MODULE Delivery ------------------------------
(***************************************************************************)
(* One order from the kitchen to the door: the merchant's dashboard, the   *)
(* dashboard and the delivery page of each courier, and the calls they     *)
(* make to order-service and payment-service.  Every view shows what it    *)
(* read last.  A call loads the order, checks the transition and saves,    *)
(* and several calls can be between the two at once.                       *)
(***************************************************************************)
EXTENDS Naturals, FiniteSets

CONSTANTS
  Driver,      \* ids of couriers
  NoDriver,    \* the null driver_id
  Slot,        \* slots for calls to order-service running at the same time
  MaxCalls     \* bound on the calls that ever start

ASSUME CourierAssumption == NoDriver \notin Driver
ASSUME CallsAssumption == MaxCalls \in Nat

VARIABLES
  order,       \* the row of the order
  payment,     \* the row of its payment
  kitchen,     \* the status the merchant's dashboard shows
  board,       \* what each courier's dashboard shows of the order
  page,        \* the delivery page of each courier
  req,         \* the calls under way
  calls,       \* calls started so far
  overwritten, \* history: a save wrote what another call had changed
  missed       \* history: a payment that was not there, or a call that failed,
               \* when a courier came to complete it

deliveryVars == <<order, payment, kitchen, board, page, req, calls, overwritten, missed>>

Pipeline == <<"PENDING", "CONFIRMED", "PREPARING", "READY_FOR_PICKUP",
              "OUT_FOR_DELIVERY", "DELIVERED">>
Status == {Pipeline[i] : i \in 1 .. 6}
Stage(status) == CHOOSE i \in 1 .. 6 : Pipeline[i] = status

OrderRow == [status : Status, driver : Driver \cup {NoDriver}]
Placed == [status |-> "PENDING", driver |-> NoDriver]

Payment == [method : {"NONE", "CASH", "CREDIT_CARD"},
            status : {"NONE", "PENDING", "HELD", "COMPLETED"}]

(* The courier's dashboard lists the order among those that wait, and      *)
(* among the courier's own with its status.                                *)
Board == [waiting : BOOLEAN, mine : Status \cup {"NONE"}]

(* The delivery page with the order it shows.                              *)
Page == [at : {"closed", "loading", "open", "calling", "listing", "completing", "success"},
         shown : OrderRow]
Closed == [at |-> "closed", shown |-> Placed]

Op == {"confirm", "preparing", "ready", "accept", "pickup", "drop", "deliver"}

(* A call with the order it found and the row TypeORM selected again.      *)
Call == [at : {"idle", "find", "select", "update", "done", "failed"}, op : Op,
         driver : Driver \cup {NoDriver}, ent : OrderRow, base : OrderRow]
Idle == [at |-> "idle", op |-> "confirm", driver |-> NoDriver,
         ent |-> Placed, base |-> Placed]

DeliveryTypeOK ==
  /\ order \in OrderRow
  /\ payment \in Payment
  /\ kitchen \in Status
  /\ board \in [Driver -> Board]
  /\ page \in [Driver -> Page]
  /\ req \in [Slot -> Call]
  /\ calls \in Nat
  /\ overwritten \in BOOLEAN
  /\ missed \in BOOLEAN

(* The order was placed and the dashboards have shown it since.            *)
DeliveryInit ==
  /\ order = Placed
  /\ payment = [method |-> "NONE", status |-> "NONE"]
  /\ kitchen = "PENDING"
  /\ board = [c \in Driver |-> [waiting |-> FALSE, mine |-> "NONE"]]
  /\ page = [c \in Driver |-> Closed]
  /\ req = [r \in Slot |-> Idle]
  /\ calls = 0
  /\ overwritten = FALSE
  /\ missed = FALSE

-----------------------------------------------------------------------------
(* The views are read again: the merchant reloads, a courier's dashboard   *)
(* polls, the delivery page loads the order it was opened for.             *)

KitchenLoads ==
  /\ kitchen' = order.status
  /\ UNCHANGED <<order, payment, board, page, req, calls, overwritten, missed>>

Poll(c) ==
  /\ board' = [board EXCEPT ![c] =
       [waiting |-> order.status = "READY_FOR_PICKUP",
        mine |-> IF order.driver = c THEN order.status ELSE "NONE"]]
  /\ UNCHANGED <<order, payment, kitchen, page, req, calls, overwritten, missed>>

PageLoads(c) ==
  /\ page[c].at = "loading"
  /\ page' = [page EXCEPT ![c] = [at |-> "open", shown |-> order]]
  /\ UNCHANGED <<order, payment, kitchen, board, req, calls, overwritten, missed>>

(* declineOrder takes the order off the courier's own list.                *)
Decline(c) ==
  /\ board[c].waiting
  /\ board' = [board EXCEPT ![c].waiting = FALSE]
  /\ UNCHANGED <<order, payment, kitchen, page, req, calls, overwritten, missed>>

(* The checkout page records the payment after the order, or never.        *)
RecordPayment ==
  /\ payment.status = "NONE"
  /\ \/ payment' = [method |-> "CASH", status |-> "PENDING"]
     \/ payment' = [method |-> "CREDIT_CARD", status |-> "HELD"]
  /\ UNCHANGED <<order, kitchen, board, page, req, calls, overwritten, missed>>

-----------------------------------------------------------------------------
(* The buttons.  Only those of the delivery page are disabled during a     *)
(* call.                                                                   *)

Begin(r, op, c) ==
  /\ req[r].at = "idle"
  /\ calls < MaxCalls
  /\ calls' = calls + 1
  /\ req' = [req EXCEPT ![r] = [Idle EXCEPT !.at = "find", !.op = op, !.driver = c]]
  /\ UNCHANGED <<order, payment, overwritten, missed>>

(* Mutant: the dashboard shows the next status before the call is made.    *)
Optimistic(status) == Pipeline[Stage(status) + 1]

(* What the dashboard shows while the call is made.                        *)
DuringCall(status) == status

KitchenButton(r) ==
  /\ kitchen \in {"PENDING", "CONFIRMED", "PREPARING"}
  /\ Begin(r, CASE kitchen = "PENDING" -> "confirm"
                [] kitchen = "CONFIRMED" -> "preparing"
                [] kitchen = "PREPARING" -> "ready", NoDriver)
  /\ kitchen' = DuringCall(kitchen)
  /\ UNCHANGED <<board, page>>

AcceptButton(r, c) ==
  /\ board[c].waiting
  /\ Begin(r, "accept", c)
  /\ UNCHANGED <<kitchen, board, page>>

(* The dashboard's own button for a delivery done.                         *)
DropButton(r, c) ==
  /\ board[c].mine # "NONE"
  /\ Begin(r, "drop", c)
  /\ UNCHANGED <<kitchen, board, page>>

(* handlePickup sends the courier the page was loaded with; without one    *)
(* the call is refused.                                                    *)
PickupButton(r, c) ==
  /\ page[c].at = "open"
  /\ page[c].shown.status \notin {"OUT_FOR_DELIVERY", "DELIVERED"}
  /\ page[c].shown.driver # NoDriver
  /\ Begin(r, "pickup", c)
  /\ page' = [page EXCEPT ![c].at = "calling"]
  /\ UNCHANGED <<kitchen, board>>

DeliverButton(r, c) ==
  /\ page[c].at = "open"
  /\ page[c].shown.status = "OUT_FOR_DELIVERY"
  /\ Begin(r, "deliver", c)
  /\ page' = [page EXCEPT ![c].at = "calling"]
  /\ UNCHANGED <<kitchen, board>>

-----------------------------------------------------------------------------
(* The calls in order-service.                                             *)

Goal(op) ==
  CASE op = "confirm" -> "CONFIRMED"
    [] op = "preparing" -> "PREPARING"
    [] op = "ready" -> "READY_FOR_PICKUP"
    [] op \in {"accept", "pickup"} -> "OUT_FOR_DELIVERY"
    [] op \in {"drop", "deliver"} -> "DELIVERED"

(* Mutant: an order on its way can be taken once more.                     *)
TakenAgain(from, to) == Stage(to) = Stage(from) + 1 \/ from = to

(* VALID_TRANSITIONS between the stages of a delivery.                     *)
ValidTransition(from, to) == Stage(to) = Stage(from) + 1

(* Mutants: the courier is not filled in; a transition that names none     *)
(* loses the courier.                                                      *)
NobodyNamed(q) == IF q.op \in {"accept", "pickup"} THEN NoDriver ELSE order.driver

CourierLost(q) == IF q.op \in {"accept", "pickup"} THEN q.driver ELSE NoDriver

(* The courier a call names.                                               *)
Named(q) ==
  CASE q.op = "accept" -> q.driver
    [] q.op = "pickup" -> page[q.driver].shown.driver
    [] OTHER -> order.driver

FindOrder(r) ==
  LET q == req[r] IN
  /\ q.at = "find"
  /\ req' = [req EXCEPT ![r] =
       IF ValidTransition(order.status, Goal(q.op))
       THEN [q EXCEPT !.at = "select", !.ent = [status |-> Goal(q.op), driver |-> Named(q)]]
       ELSE [q EXCEPT !.at = "failed"]]
  /\ UNCHANGED <<order, payment, kitchen, board, page, calls, overwritten, missed>>

SaveSelect(r) ==
  /\ req[r].at = "select"
  /\ req' = [req EXCEPT ![r].at = "update", ![r].base = order]
  /\ UNCHANGED <<order, payment, kitchen, board, page, calls, overwritten, missed>>

(* TypeORM writes the columns that differ from the row it selected.        *)
ChangedColumns(q) ==
  [col \in DOMAIN order |-> IF q.ent[col] # q.base[col] THEN q.ent[col] ELSE order[col]]

Saving == {r \in Slot : req[r].at \in {"select", "update"}}

SaveUpdate(r) ==
  /\ req[r].at = "update"
  /\ order' = ChangedColumns(req[r])
  /\ req' = [req EXCEPT ![r] = [@ EXCEPT !.at = "done", !.ent = Placed, !.base = Placed]]
  /\ overwritten' = (overwritten \/ Saving # {r})
  /\ UNCHANGED <<payment, kitchen, board, page, calls, missed>>

(* A call fails, or its answer is lost.                                    *)
CallFails(r) ==
  /\ req[r].at \in {"find", "select", "update", "done"}
  /\ req' = [req EXCEPT ![r] = [@ EXCEPT !.at = "failed", !.ent = Placed, !.base = Placed]]
  /\ UNCHANGED <<order, payment, kitchen, board, page, calls, overwritten, missed>>

(* Mutant: a failure leaves the page waiting.                              *)
StillCalling(p, q) ==
  CASE q.at = "failed" -> p
    [] q.at = "done" /\ q.op = "deliver" -> [p EXCEPT !.at = "listing"]
    [] OTHER -> [p EXCEPT !.at = "open", !.shown.status = "OUT_FOR_DELIVERY"]

(* Mutant: the payment is looked for even if the delivery was not booked.  *)
SettlesAnyway(p, q) ==
  CASE q.op = "deliver" -> [p EXCEPT !.at = "listing"]
    [] q.at = "failed" /\ q.op # "deliver" -> [p EXCEPT !.at = "open"]
    [] OTHER -> [p EXCEPT !.at = "open", !.shown.status = "OUT_FOR_DELIVERY"]

(* The delivery page after its call.                                       *)
AfterCall(p, q) ==
  CASE q.at = "failed" -> [p EXCEPT !.at = "open"]
    [] q.at = "done" /\ q.op = "deliver" -> [p EXCEPT !.at = "listing"]
    [] OTHER -> [p EXCEPT !.at = "open", !.shown.status = "OUT_FOR_DELIVERY"]

(* The view that made the call goes on; the dashboards pass over failures. *)
Answer(r) ==
  LET q == req[r]
      ok == q.at = "done" IN
  /\ q.at \in {"done", "failed"}
  /\ req' = [req EXCEPT ![r] = Idle]
  /\ kitchen' = IF ok /\ q.op \in {"confirm", "preparing", "ready"} THEN Goal(q.op)
                ELSE kitchen
  /\ board' = CASE ok /\ q.op = "accept" -> [board EXCEPT ![q.driver].waiting = FALSE]
                [] ok /\ q.op = "drop" -> [board EXCEPT ![q.driver].mine = "NONE"]
                [] OTHER -> board
  /\ page' = CASE ok /\ q.op = "accept" /\ page[q.driver].at = "closed" ->
                    [page EXCEPT ![q.driver].at = "loading"]
               [] q.op \in {"pickup", "deliver"} ->
                    [page EXCEPT ![q.driver] = AfterCall(@, q)]
               [] OTHER -> page
  /\ UNCHANGED <<order, payment, calls, overwritten, missed>>

-----------------------------------------------------------------------------
(* handleDelivered after its first call.  Whatever happens, the page ends  *)
(* in success.                                                             *)

(* Mutant: the page looks for a payment that is held.                      *)
Held(p) == p.status = "HELD"

Open(p) == p.status = "PENDING"

ListPayments(c) ==
  /\ page[c].at = "listing"
  /\ \/ /\ page' = [page EXCEPT ![c].at = IF Open(payment) THEN "completing" ELSE "success"]
        /\ missed' = (missed \/ payment.status = "NONE")
     \/ /\ page' = [page EXCEPT ![c].at = "success"]
        /\ missed' = TRUE
  /\ UNCHANGED <<order, payment, kitchen, board, req, calls, overwritten>>

(* Payment.complete: a payment that is not PENDING is refused.             *)
CompletePayment(c) ==
  /\ page[c].at = "completing"
  /\ page' = [page EXCEPT ![c].at = "success"]
  /\ \/ /\ payment.status = "PENDING"
        /\ payment' = [payment EXCEPT !.status = "COMPLETED"]
        /\ UNCHANGED missed
     \/ /\ UNCHANGED payment
        /\ missed' = (missed \/ payment.status = "PENDING")
  /\ UNCHANGED <<order, kitchen, board, req, calls, overwritten>>

Serve(r) == FindOrder(r) \/ SaveSelect(r) \/ SaveUpdate(r) \/ Answer(r)
Settle(c) == ListPayments(c) \/ CompletePayment(c)

DeliveryNext ==
  \/ KitchenLoads
  \/ RecordPayment
  \/ \E c \in Driver : \/ Poll(c)
                       \/ PageLoads(c)
                       \/ Decline(c)
                       \/ Settle(c)
  \/ \E r \in Slot : \/ KitchenButton(r)
                        \/ CallFails(r)
                        \/ Serve(r)
                        \/ \E c \in Driver : \/ AcceptButton(r, c)
                                             \/ DropButton(r, c)
                                             \/ PickupButton(r, c)
                                             \/ DeliverButton(r, c)

(* A call ends: a service answers, or the connection to it breaks.         *)
Fairness ==
  /\ \A r \in Slot : WF_deliveryVars(Serve(r))
  /\ \A c \in Driver : WF_deliveryVars(Settle(c))

DeliverySpec == DeliveryInit /\ [][DeliveryNext]_deliveryVars
FairDeliverySpec == DeliverySpec /\ Fairness

-----------------------------------------------------------------------------
(* Properties.                                                             *)

L == INSTANCE OrderLifecycle WITH
  Order <- {"order"},
  status <- [o \in {"order"} |-> order.status],
  driver <- [o \in {"order"} |-> order.driver]

(* As long as no call writes over another, the apps move the order one     *)
(* stage at a time along the promised life (orders have no version, so     *)
(* nothing else keeps two clicks apart).                                   *)
UndisturbedFollowsLifecycle ==
  [][overwritten' \/ L!Step("order") \/ order' = order]_deliveryVars

(* No view is ahead of the order: what a merchant or a courier reads is    *)
(* what the order is or was.                                               *)
ViewsAreNotAhead ==
  overwritten \/
    /\ Stage(kitchen) <= Stage(order.status)
    /\ \A c \in Driver :
         /\ board[c].mine # "NONE" => Stage(board[c].mine) <= Stage(order.status)
         /\ Stage(page[c].shown.status) <= Stage(order.status)

(* The courier who sees the success screen carried the order, and it is    *)
(* delivered.                                                              *)
DoneIsMine ==
  \A c \in Driver :
    page[c].at \in {"listing", "completing", "success"} =>
      overwritten \/ order = [status |-> "DELIVERED", driver |-> c]

(* Cash is booked when the order was delivered and not before, and a card  *)
(* that is held is not booked by a courier.                                *)
PaidAtTheDoor ==
  payment.status = "COMPLETED" =>
    payment.method = "CASH" /\ (overwritten \/ order.status = "DELIVERED")

(* Behind a success screen a cash payment is booked, unless it was not     *)
(* there yet or a call for it failed: the page says so in every case.      *)
SuccessIsSettled ==
  \A c \in Driver :
    page[c].at = "success" /\ ~missed /\ payment.method = "CASH" =>
      payment.status = "COMPLETED"

(* The delivery page always comes back from a call: its buttons are        *)
(* disabled meanwhile and a failure must enable them again.                *)
SpinnerEnds ==
  \A c \in Driver :
    page[c].at \in {"calling", "listing", "completing"}
      ~> page[c].at \in {"open", "success"}

(* Nobody is ahead of the order: not the views, not a success screen, not  *)
(* the cash behind it.                                                     *)
DeliveryInv ==
  DeliveryTypeOK /\ ViewsAreNotAhead /\ DoneIsMine /\ PaidAtTheDoor /\ SuccessIsSettled
=============================================================================
