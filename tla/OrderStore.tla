----------------------------- MODULE OrderStore -----------------------------
(***************************************************************************)
(* order-service: the order aggregate, OrderService and OrderRepository.   *)
(* Every handler loads an order (one query for the row, one for its        *)
(* items), runs one domain method in memory and saves: TypeORM selects the *)
(* row again, updates the columns that differ, then the items are deleted  *)
(* and inserted anew.  No transaction spans two of these queries and       *)
(* nothing serialises two handlers, so each query is an action here.       *)
(***************************************************************************)
EXTENDS Naturals, FiniteSets

CONSTANTS
  Order,        \* order ids
  Driver,       \* courier ids
  NoDriver,     \* the null driver_id
  NoOrder,      \* an idle slot works on no order
  Request,      \* slots for handlers running at the same time
  MaxRequests   \* bound on the handlers that ever start

ASSUME NullAssumption == NoDriver \notin Driver /\ NoOrder \notin Order
ASSUME MaxRequestsAssumption == MaxRequests \in Nat

VARIABLES
  row,       \* the orders table: status and driver_id of each order
  items,     \* how many copies of the placed cart order_items holds
  deleted,   \* orders whose deleted_at is set
  pc,        \* the query each handler issues next, "idle" when it runs none
  target,    \* the order each handler works on
  command,   \* the domain method it runs, with its driver argument
  ent,       \* the order it has in memory
  base,      \* the row TypeORM selected before its update
  cart,      \* the items it has in memory, in copies of the placed cart
  started,   \* handlers started so far
  served,    \* history: couriers told that their pick-up of an order succeeded
  disturbed  \* history: orders two handlers worked on at once, or whose
             \* handler failed halfway through a save

vars == <<row, items, deleted, pc, target, command, ent, base, cart, started,
          served, disturbed>>

tables == <<row, items, deleted>>
handler == <<target, command>>
memory == <<ent, base, cart>>

Status == {"PENDING", "CONFIRMED", "PREPARING", "READY_FOR_PICKUP",
           "OUT_FOR_DELIVERY", "DELIVERED", "CANCELLED", "REJECTED"}

DriverOrNull == Driver \cup {NoDriver}

Row == [status : Status \cup {"NONE"}, driver : DriverOrNull]

Absent == [status |-> "NONE", driver |-> NoDriver]

Transitioning == {"confirm", "startPreparing", "markReadyForPickup",
                  "markDelivered", "cancel", "reject"}

(* The requests a controller accepts: a pick-up needs a courier, the       *)
(* update of notes, delivery time or courier may name one.                 *)
Command ==
  [op : Transitioning \cup {"softDelete"}, driver : {NoDriver}]
    \cup [op : {"markOutForDelivery"}, driver : Driver]
    \cup [op : {"updateOrder"}, driver : DriverOrNull]

Step == {"idle", "findItems", "select", "update", "deleteItems", "insertItems",
         "softDelete"}

PlaceCommand == [op |-> "placeOrder", driver |-> NoDriver]

TypeOK ==
  /\ row \in [Order -> Row]
  /\ items \in [Order -> Nat]
  /\ deleted \in SUBSET Order
  /\ pc \in [Request -> Step]
  /\ target \in [Request -> Order \cup {NoOrder}]
  /\ \A r \in Request : pc[r] # "idle" => target[r] \in Order
  /\ command \in [Request -> Command \cup {PlaceCommand}]
  /\ ent \in [Request -> Row]
  /\ base \in [Request -> Row]
  /\ cart \in [Request -> Nat]
  /\ started \in Nat
  /\ served \in [Order -> SUBSET Driver]
  /\ disturbed \in SUBSET Order

Init ==
  /\ row = [o \in Order |-> Absent]
  /\ items = [o \in Order |-> 0]
  /\ deleted = {}
  /\ pc = [r \in Request |-> "idle"]
  /\ target = [r \in Request |-> NoOrder]
  /\ command = [r \in Request |-> PlaceCommand]
  /\ ent = [r \in Request |-> Absent]
  /\ base = [r \in Request |-> Absent]
  /\ cart = [r \in Request |-> 0]
  /\ started = 0
  /\ served = [o \in Order |-> {}]
  /\ disturbed = {}

-----------------------------------------------------------------------------
(* The aggregate.                                                          *)

(* VALID_TRANSITIONS, as a relation.                                       *)
TransitionTable ==
  {<<"PENDING", "CONFIRMED">>, <<"PENDING", "REJECTED">>, <<"PENDING", "CANCELLED">>,
   <<"CONFIRMED", "PREPARING">>, <<"CONFIRMED", "CANCELLED">>,
   <<"PREPARING", "READY_FOR_PICKUP">>, <<"PREPARING", "CANCELLED">>,
   <<"READY_FOR_PICKUP", "OUT_FOR_DELIVERY">>, <<"READY_FOR_PICKUP", "CANCELLED">>,
   <<"OUT_FOR_DELIVERY", "DELIVERED">>, <<"OUT_FOR_DELIVERY", "CANCELLED">>}

(* Mutant: a second courier may take the order.                            *)
PickUpTwice == TransitionTable \cup {<<"OUT_FOR_DELIVERY", "OUT_FOR_DELIVERY">>}

ValidTransitions == TransitionTable

(* The status a domain method asks transitionTo for.                       *)
NewStatus(op) ==
  CASE op = "confirm"            -> "CONFIRMED"
    [] op = "startPreparing"     -> "PREPARING"
    [] op = "markReadyForPickup" -> "READY_FOR_PICKUP"
    [] op = "markOutForDelivery" -> "OUT_FOR_DELIVERY"
    [] op = "markDelivered"      -> "DELIVERED"
    [] op = "cancel"             -> "CANCELLED"
    [] op = "reject"             -> "REJECTED"

(* Mutant: the domain methods assign the status themselves.               *)
Unchecked(c, e) == c.op # "placeOrder"

(* transitionTo throws unless the table allows it; updateOrder checks      *)
(* nothing.                                                                *)
Allowed(c, e) ==
  c.op = "updateOrder" \/ <<e.status, NewStatus(c.op)>> \in ValidTransitions

(* Mutant: cancel writes a status no reader knows.                         *)
Misspelled(c, e) ==
  [status |-> IF c.op = "updateOrder" THEN e.status
              ELSE IF c.op = "cancel" THEN "CANCELED" ELSE NewStatus(c.op),
   driver |-> e.driver]

(* The order after the method: a courier argument always replaces the      *)
(* courier.                                                                *)
AfterCommand(c, e) ==
  [status |-> IF c.op = "updateOrder" THEN e.status ELSE NewStatus(c.op),
   driver |-> IF c.driver = NoDriver THEN e.driver ELSE c.driver]

-----------------------------------------------------------------------------
(* The handlers, one action per query.                                     *)

GoTo(r, step) ==
  /\ pc' = [pc EXCEPT ![r] = step]
  /\ UNCHANGED <<target, command, started>>

(* The handler returns or throws and its memory is gone.                   *)
Finish(r) ==
  /\ pc' = [pc EXCEPT ![r] = "idle"]
  /\ target' = [target EXCEPT ![r] = NoOrder]
  /\ command' = [command EXCEPT ![r] = PlaceCommand]
  /\ ent' = [ent EXCEPT ![r] = Absent]
  /\ base' = [base EXCEPT ![r] = Absent]
  /\ cart' = [cart EXCEPT ![r] = 0]
  /\ UNCHANGED started

Busy(o) == \E s \in Request : target[s] = o

(* A handler starts on order o; two at once disturb it.                    *)
Start(r, o, c, step) ==
  /\ pc[r] = "idle"
  /\ started < MaxRequests
  /\ started' = started + 1
  /\ pc' = [pc EXCEPT ![r] = step]
  /\ target' = [target EXCEPT ![r] = o]
  /\ command' = [command EXCEPT ![r] = c]
  /\ disturbed' = IF Busy(o) THEN disturbed \cup {o} ELSE disturbed

(* POST /orders with a valid cart: save inserts the new row.               *)
PlaceOrder(r, o) ==
  /\ row[o] = Absent
  /\ Start(r, o, PlaceCommand, "deleteItems")
  /\ row' = [row EXCEPT ![o] = [status |-> "PENDING", driver |-> NoDriver]]
  /\ ent' = [ent EXCEPT ![r] = [status |-> "PENDING", driver |-> NoDriver]]
  /\ cart' = [cart EXCEPT ![r] = 1]
  /\ UNCHANGED <<items, deleted, base, served>>

(* The row query of findByIdOrFail; soft-deleted orders are not found.     *)
FindOrder(r, o, c) ==
  /\ row[o] # Absent
  /\ o \notin deleted
  /\ Start(r, o, c, "findItems")
  /\ ent' = [ent EXCEPT ![r] = row[o]]
  /\ UNCHANGED <<tables, base, cart, served>>

(* loadRelatedAndMap's query, after which the handler runs its method in   *)
(* memory: it goes on to save, to delete, or throws.                       *)
RunCommand(r) ==
  /\ pc[r] = "findItems"
  /\ IF command[r].op = "softDelete"
     THEN /\ GoTo(r, "softDelete")
          /\ UNCHANGED memory
     ELSE IF Allowed(command[r], ent[r])
     THEN /\ ent' = [ent EXCEPT ![r] = AfterCommand(command[r], ent[r])]
          /\ cart' = [cart EXCEPT ![r] = items[target[r]]]
          /\ GoTo(r, "select")
          /\ UNCHANGED base
     ELSE Finish(r)
  /\ UNCHANGED <<tables, served, disturbed>>

(* TypeORM's save first selects the row it is about to update.             *)
SaveSelect(r) ==
  /\ pc[r] = "select"
  /\ base' = [base EXCEPT ![r] = row[target[r]]]
  /\ GoTo(r, "update")
  /\ UNCHANGED <<tables, ent, cart, served, disturbed>>

(* ... then writes the columns in which the order in memory differs from   *)
(* the selected row, and no other column.                                  *)
ChangedColumns(e, b, current) ==
  [status |-> IF e.status # b.status THEN e.status ELSE current.status,
   driver |-> IF e.driver # b.driver THEN e.driver ELSE current.driver]

SaveUpdate(r) ==
  /\ pc[r] = "update"
  /\ row' = [row EXCEPT ![target[r]] =
                ChangedColumns(ent[r], base[r], row[target[r]])]
  /\ GoTo(r, "deleteItems")
  /\ UNCHANGED <<items, deleted, memory, served, disturbed>>

(* Mutant: save inserts the items without deleting the old ones.           *)
KeepOldItems(r) ==
  /\ pc[r] = "deleteItems"
  /\ GoTo(r, "insertItems")
  /\ UNCHANGED <<tables, memory, served, disturbed>>

DeleteItems(r) ==
  /\ pc[r] = "deleteItems"
  /\ items' = [items EXCEPT ![target[r]] = 0]
  /\ GoTo(r, "insertItems")
  /\ UNCHANGED <<row, deleted, memory, served, disturbed>>

(* The items in memory go in under fresh ids and the caller is answered.   *)
InsertItems(r) ==
  /\ pc[r] = "insertItems"
  /\ items' = [items EXCEPT ![target[r]] = @ + cart[r]]
  /\ served' = IF command[r].op = "markOutForDelivery"
               THEN [served EXCEPT ![target[r]] = @ \cup {command[r].driver}]
               ELSE served
  /\ Finish(r)
  /\ UNCHANGED <<row, deleted, disturbed>>

SoftDelete(r) ==
  /\ pc[r] = "softDelete"
  /\ deleted' = deleted \cup {target[r]}
  /\ Finish(r)
  /\ UNCHANGED <<row, items, served, disturbed>>

(* The process dies, or the connection fails, before the next query: the   *)
(* queries already issued stay done.                                       *)
Abort(r) ==
  /\ pc[r] # "idle"
  /\ Finish(r)
  /\ disturbed' = IF pc[r] \in {"deleteItems", "insertItems"}
                  THEN disturbed \cup {target[r]} ELSE disturbed
  /\ UNCHANGED <<tables, served>>

Next ==
  \E r \in Request :
    \/ \E o \in Order : PlaceOrder(r, o)
    \/ \E o \in Order, c \in Command : FindOrder(r, o, c)
    \/ RunCommand(r)
    \/ SaveSelect(r)
    \/ SaveUpdate(r)
    \/ DeleteItems(r)
    \/ InsertItems(r)
    \/ SoftDelete(r)
    \/ Abort(r)

Spec == Init /\ [][Next]_vars

-----------------------------------------------------------------------------
(* Properties.                                                             *)

Lifecycle == INSTANCE OrderLifecycle WITH
  status <- [o \in Order |-> row[o].status],
  driver <- [o \in Order |-> row[o].driver]

NoneDisturbed == disturbed = {}

(* The one step of an order outside its promised life: updateOrder calls   *)
(* assignDriver, which looks at no status, so a final order gets another   *)
(* courier.                                                                *)
LateAssignment(o) ==
  /\ row[o].status \in Lifecycle!Final
  /\ \E d \in Driver : row' = [row EXCEPT ![o].driver = d]

(* As long as no two handlers meet on an order, none dies halfway through  *)
(* a save and no courier is assigned late, the whole life of all orders is *)
(* the promised one.                                                       *)
ImplementsLifecycle ==
  []NoneDisturbed /\ [][\A o \in Order : ~LateAssignment(o)]_vars => Lifecycle!Spec

(* With handlers overlapping, an order leaves the promised life only if    *)
(* two of them worked on that order at once, or by a late assignment:      *)
(* OrderService's read-modify-write is correct exactly as long as it is    *)
(* alone.                                                                  *)
UndisturbedFollowsLifecycle ==
  [][\A o \in Order :
       \/ o \in disturbed'
       \/ Lifecycle!Step(o)
       \/ LateAssignment(o)
       \/ row'[o] = row[o]]_vars

(* What the repository's own SQL check expects of order-service's table    *)
(* and updateOrder breaks, one handler at a time: an order in a final      *)
(* status is not modified any more.                                        *)
FinalOrdersStay ==
  [][\A o \in Order \ disturbed' :
       row[o].status \in Lifecycle!Final => row'[o] = row[o]]_vars

(* An order nobody disturbed shows its cart once, neither lost nor         *)
(* duplicated by the delete-and-insert of save, whenever no handler is     *)
(* between those two queries.                                              *)
CartKept ==
  \A o \in Order :
    \/ o \in disturbed
    \/ Busy(o)
    \/ items[o] = IF row[o] = Absent THEN 0 ELSE 1

(* Only one courier is ever told that it took an undisturbed order.        *)
OneCourierServed ==
  \A o \in Order : o \in disturbed \/ Cardinality(served[o]) <= 1

-----------------------------------------------------------------------------
(* The inductive invariant behind the properties above.                    *)

(* What the handler working on an undisturbed order knows, query by query. *)
HandlerCoherent(r, o) ==
  /\ row[o].status # "NONE"
  /\ pc[r] = "findItems" => ent[r] = row[o]
  /\ pc[r] \in {"findItems", "select", "update", "softDelete"} => items[o] = 1
  /\ pc[r] \in {"findItems", "select", "update"} => command[r].op # "placeOrder"
  /\ pc[r] \in {"select", "update"} =>
       /\ command[r].op # "softDelete"
       /\ Allowed(command[r], row[o])
       /\ ent[r] = AfterCommand(command[r], row[o])
  /\ pc[r] = "update" => base[r] = row[o]
  /\ pc[r] \in {"select", "update", "deleteItems", "insertItems"} => cart[r] = 1
  /\ pc[r] = "insertItems" => items[o] = 0
  /\ /\ pc[r] \in {"deleteItems", "insertItems"}
     /\ command[r].op = "markOutForDelivery"
     => row[o].status = "OUT_FOR_DELIVERY" /\ served[o] = {}

OrderCoherent(o) ==
  /\ row[o].status = "NONE" => row[o] = Absent
  /\ ~Busy(o) => items[o] = IF row[o] = Absent THEN 0 ELSE 1
  /\ \A r \in Request : target[r] = o => HandlerCoherent(r, o)
  /\ \A r, s \in Request : target[r] = o /\ target[s] = o => r = s
  /\ served[o] # {} => row[o].status \in {"OUT_FOR_DELIVERY", "DELIVERED", "CANCELLED"}
  /\ \A d, e \in served[o] : d = e

(* The memory of the one handler that works on an undisturbed order agrees *)
(* with the tables, so that its save writes what the order was meant to    *)
(* become; an order nobody works on is complete.                           *)
Coherent ==
  /\ \A r \in Request : pc[r] = "idle" => target[r] = NoOrder
  /\ \A o \in Order \ disturbed : OrderCoherent(o)
=============================================================================
