---------------------------- MODULE MerchantStore ----------------------------
(***************************************************************************)
(* merchant-service: restaurants, their menus and opening hours.  A        *)
(* handler loads the restaurant and its whole menu in separate queries,    *)
(* changes them in memory and saves restaurant, menu and hours one after   *)
(* the other, each by a select and a write of what differs.  Each query is *)
(* an action, and nothing serialises two handlers.                         *)
(***************************************************************************)
EXTENDS Naturals, FiniteSets

CONSTANTS
  Merchant,        \* ids of restaurants
  NoMerchant,      \* the owner of an item that does not exist
  Item,            \* ids of menu items
  NoItem,          \* a command about no item
  Price,           \* prices the requests carry
  NoPrice,         \* the null originalPrice
  Capacity,        \* values of maxConcurrentOrders the requests carry
  Minute,          \* minutes of a day the requests carry
  Request,         \* slots for handlers running at the same time
  MaxRequests      \* bound on the handlers that ever start

ASSUME NullAssumption ==
  NoMerchant \notin Merchant /\ NoItem \notin Item /\ NoPrice \notin Nat
ASSUME NumbersAssumption ==
  /\ Price \subseteq Nat /\ Capacity \subseteq Nat \ {0} /\ Minute \subseteq 0 .. 1439
  /\ MaxRequests \in Nat

VARIABLES
  row,       \* the merchants table
  item,      \* the menu_items table
  hours,     \* the operating_hours table
  pc,        \* the query each handler issues next
  target,    \* the restaurant each handler works on
  command,   \* what each handler was asked for
  ent,       \* the restaurant in memory
  menu,      \* the menu in memory
  base,      \* the restaurant TypeORM selected before its update
  itemBase,  \* the menu items it selected before their update
  started,   \* handlers started so far
  agreed,    \* history: price and availability of an item as last saved on
             \* request
  overlapped \* history: restaurants two handlers worked on at once

vars == <<row, item, hours, pc, target, command, ent, menu, base, itemBase,
          started, agreed, overlapped>>

memory == <<pc, target, command, ent, menu, base, itemBase>>

(* Nothing suspends a restaurant: suspend and reactivate have no caller.   *)
MerchantStatus == {"PENDING", "APPROVED", "REJECTED"}
CapacityStatus == {"NORMAL", "BUSY", "OVERLOADED", "CRITICAL"}

Row == [status : MerchantStatus \cup {"NONE"}, capacity : Capacity \cup {10},
        capacityStatus : CapacityStatus, orders : Nat, deleted : BOOLEAN]
Absent == [status |-> "NONE", capacity |-> 10, capacityStatus |-> "NORMAL",
           orders |-> 0, deleted |-> FALSE]

(* Merchant.register.                                                      *)
NewMerchant == [Absent EXCEPT !.status = "PENDING"]

ItemRow == [merchant : Merchant \cup {NoMerchant}, price : Nat,
            original : Nat \cup {NoPrice}, available : BOOLEAN]
NotListed == [merchant |-> NoMerchant, price |-> 0, original |-> NoPrice,
              available |-> FALSE]
EmptyMenu == [i \in Item |-> NotListed]

(* MenuItem.create.                                                        *)
NewItem(m, p) ==
  [merchant |-> m, price |-> p, original |-> NoPrice, available |-> TRUE]

(* The hours of one day, the same every day.                               *)
HoursRow == [merchant : Merchant, open : Minute, close : Minute, closed : BOOLEAN]

(* The routes to an existing restaurant.                                   *)
Command ==
  [op : {"profile", "approve", "reject", "hours"}, item : {NoItem}, value : {0}]
    \cup [op : {"capacity"}, item : {NoItem}, value : Capacity]
    \cup [op : {"addItem", "updateItem"}, item : Item, value : Price]
    \cup [op : {"toggleItem", "removeItem"}, item : Item, value : {0}]
NoCommand == [op |-> "profile", item |-> NoItem, value |-> 0]

Agreement == [price : Nat, available : BOOLEAN]

TypeOK ==
  /\ row \in [Merchant -> Row]
  /\ item \in [Item -> ItemRow]
  /\ hours \in SUBSET HoursRow
  /\ pc \in [Request -> {"idle", "menu", "select", "update", "selectItems",
                         "updateItems", "saveHours"}]
  /\ target \in [Request -> Merchant \cup {NoMerchant}]
  /\ \A r \in Request : pc[r] # "idle" => target[r] \in Merchant
  /\ command \in [Request -> Command]
  /\ ent \in [Request -> Row]
  /\ menu \in [Request -> [Item -> ItemRow]]
  /\ base \in [Request -> Row]
  /\ itemBase \in [Request -> [Item -> ItemRow]]
  /\ started \in Nat
  /\ agreed \in [Item -> Agreement]
  /\ overlapped \in SUBSET Merchant

Init ==
  /\ row = [m \in Merchant |-> Absent]
  /\ item = EmptyMenu
  /\ hours = {}
  /\ pc = [r \in Request |-> "idle"]
  /\ target = [r \in Request |-> NoMerchant]
  /\ command = [r \in Request |-> NoCommand]
  /\ ent = [r \in Request |-> Absent]
  /\ menu = [r \in Request |-> EmptyMenu]
  /\ base = [r \in Request |-> Absent]
  /\ itemBase = [r \in Request |-> EmptyMenu]
  /\ started = 0
  /\ agreed = [i \in Item |-> [price |-> 0, available |-> FALSE]]
  /\ overlapped = {}

-----------------------------------------------------------------------------
(* The aggregate.                                                          *)

(* recalculateCapacity, in hundredths.                                     *)
Recalculated(e) ==
  LET load == (100 * e.orders) \div e.capacity IN
  [e EXCEPT !.capacityStatus =
     IF load >= 100 THEN "CRITICAL"
     ELSE IF load >= 80 THEN "OVERLOADED"
     ELSE IF load >= 60 THEN "BUSY" ELSE "NORMAL"]

(* Mutant: an approval may be taken back.                                  *)
RejectAnything(c, e, items) ==
  \/ c.op = "approve" /\ e.status = "APPROVED"
  \/ c.op \in {"updateItem", "toggleItem", "removeItem"} /\ items[c.item] = NotListed

(* The commands that throw.                                                *)
Refused(c, e, items) ==
  \/ c.op \in {"approve", "reject"} /\ e.status = "APPROVED"
  \/ c.op \in {"updateItem", "toggleItem", "removeItem"} /\ items[c.item] = NotListed

(* Mutant: an approved restaurant gets the status the couriers have.       *)
CalledActive(c, e) ==
  CASE c.op = "approve" -> [e EXCEPT !.status = "ACTIVE"]
    [] c.op = "reject" -> [e EXCEPT !.status = "REJECTED"]
    [] c.op = "capacity" -> Recalculated([e EXCEPT !.capacity = c.value])
    [] OTHER -> e

(* The restaurant after the domain method.                                 *)
AfterCommand(c, e) ==
  CASE c.op = "approve" -> [e EXCEPT !.status = "APPROVED"]
    [] c.op = "reject" -> [e EXCEPT !.status = "REJECTED"]
    [] c.op = "capacity" -> Recalculated([e EXCEPT !.capacity = c.value])
    [] OTHER -> e

(* Mutant: the old price is noted at every update.                         *)
AlwaysStruck(x, p) == [x EXCEPT !.original = x.price, !.price = p]

(* MenuItem.update: the price that was is kept beside the new one.         *)
Repriced(x, p) ==
  IF x.price = p THEN x ELSE [x EXCEPT !.original = x.price, !.price = p]

(* The menu after the domain method.                                       *)
MenuAfter(c, m, items) ==
  CASE c.op = "addItem" -> [items EXCEPT ![c.item] = NewItem(m, c.value)]
    [] c.op = "updateItem" -> [items EXCEPT ![c.item] = Repriced(@, c.value)]
    [] c.op = "toggleItem" -> [items EXCEPT ![c.item].available = ~@]
    [] c.op = "removeItem" -> [items EXCEPT ![c.item] = NotListed]
    [] OTHER -> items

-----------------------------------------------------------------------------
(* Handlers.                                                               *)

GoTo(r, next) == pc' = [pc EXCEPT ![r] = next]

Finish(r) ==
  /\ GoTo(r, "idle")
  /\ target' = [target EXCEPT ![r] = NoMerchant]
  /\ command' = [command EXCEPT ![r] = NoCommand]
  /\ ent' = [ent EXCEPT ![r] = Absent]
  /\ menu' = [menu EXCEPT ![r] = EmptyMenu]
  /\ base' = [base EXCEPT ![r] = Absent]
  /\ itemBase' = [itemBase EXCEPT ![r] = EmptyMenu]

Busy(m) == \E s \in Request : target[s] = m

Disturb(m) == IF Busy(m) THEN overlapped \cup {m} ELSE overlapped

Start(r, m, c, e, next) ==
  /\ pc[r] = "idle"
  /\ started < MaxRequests
  /\ started' = started + 1
  /\ GoTo(r, next)
  /\ target' = [target EXCEPT ![r] = m]
  /\ command' = [command EXCEPT ![r] = c]
  /\ ent' = [ent EXCEPT ![r] = e]
  /\ overlapped' = Disturb(m)
  /\ UNCHANGED <<row, item, hours, menu, base, itemBase, agreed>>

(* POST /merchants, with a new uuid and no look at the user's other        *)
(* restaurants.                                                            *)
Register(r, m) ==
  /\ row[m] = Absent /\ ~Busy(m) /\ m \notin overlapped
  /\ Start(r, m, NoCommand, NewMerchant, "select")

(* A new item has a new uuid.                                              *)
Unused(c) ==
  c.op = "addItem" =>
    item[c.item] = NotListed /\ \A s \in Request : command[s].item # c.item

(* findById; a closed account is not found.                                *)
FindMerchant(r, m, c) ==
  /\ row[m] # Absent /\ ~row[m].deleted
  /\ Unused(c)
  /\ Start(r, m, c, row[m], "menu")

MenuOf(m) == [i \in Item |-> IF item[i].merchant = m THEN item[i] ELSE NotListed]

(* loadRelatedAndMap and the domain method.                                *)
LoadMenu(r) ==
  LET m == target[r]  c == command[r] IN
  /\ pc[r] = "menu"
  /\ ~Refused(c, ent[r], MenuOf(m))
  /\ GoTo(r, "select")
  /\ ent' = [ent EXCEPT ![r] = AfterCommand(c, @)]
  /\ menu' = [menu EXCEPT ![r] = MenuAfter(c, m, MenuOf(m))]
  /\ UNCHANGED <<row, item, hours, target, command, base, itemBase, started,
                 agreed, overlapped>>

Refuse(r) ==
  /\ pc[r] = "menu"
  /\ Refused(command[r], ent[r], MenuOf(target[r]))
  /\ Finish(r)
  /\ UNCHANGED <<row, item, hours, started, agreed, overlapped>>

(* DELETE /merchants/:id marks the row the handler has found.              *)
DeleteMerchant(m) ==
  /\ row[m] # Absent /\ ~row[m].deleted
  /\ started < MaxRequests
  /\ started' = started + 1
  /\ row' = [row EXCEPT ![m].deleted = TRUE]
  /\ overlapped' = Disturb(m)
  /\ UNCHANGED <<item, hours, memory, agreed>>

SelectRow(r) ==
  /\ pc[r] = "select"
  /\ GoTo(r, "update")
  /\ base' = [base EXCEPT ![r] = row[target[r]]]
  /\ UNCHANGED <<row, item, hours, target, command, ent, menu, itemBase, started,
                 agreed, overlapped>>

(* Mutant: the save writes every column it knows, the deletion too.        *)
Everything(e, b, current) == e

(* The columns that differ from the selected row are written; the entity   *)
(* of a save has no deleted_at.                                            *)
Merged(e, b, current) ==
  LET Column(mine, read, theirs) == IF mine # read THEN mine ELSE theirs IN
  [status |-> Column(e.status, b.status, current.status),
   capacity |-> Column(e.capacity, b.capacity, current.capacity),
   capacityStatus |-> Column(e.capacityStatus, b.capacityStatus, current.capacityStatus),
   orders |-> Column(e.orders, b.orders, current.orders),
   deleted |-> current.deleted]

UpdateRow(r) ==
  LET m == target[r] IN
  /\ pc[r] = "update"
  /\ GoTo(r, "selectItems")
  /\ row' = [row EXCEPT ![m] = IF base[r] = Absent THEN ent[r]
                               ELSE Merged(ent[r], base[r], @)]
  /\ UNCHANGED <<item, hours, target, command, ent, menu, base, itemBase, started,
                 agreed, overlapped>>

(* The items in memory are looked up by their ids.                         *)
SelectItems(r) ==
  /\ pc[r] = "selectItems"
  /\ GoTo(r, "updateItems")
  /\ itemBase' = [itemBase EXCEPT
       ![r] = [i \in Item |-> IF menu[r][i] = NotListed THEN NotListed ELSE item[i]]]
  /\ UNCHANGED <<row, item, hours, target, command, ent, menu, base, started,
                 agreed, overlapped>>

(* A decimal column reads as a string and always differs from the number   *)
(* in memory, so a price is always written back.                           *)
MergedItem(x, b, current) ==
  [merchant |-> x.merchant,
   price |-> x.price,
   original |-> IF x.original # NoPrice \/ b.original # NoPrice
                THEN x.original ELSE current.original,
   available |-> IF x.available # b.available THEN x.available ELSE current.available]

(* Mutant: the save forgets the items that were there before.              *)
OnlyInserts(r) ==
  [i \in Item |->
     IF menu[r][i] # NotListed /\ itemBase[r][i] = NotListed THEN menu[r][i] ELSE item[i]]

(* Mutant: the save also deletes what the menu in memory does not have.    *)
Mirrored(r) ==
  [i \in Item |->
     IF menu[r][i] # NotListed THEN menu[r][i]
     ELSE IF item[i].merchant = target[r] THEN NotListed ELSE item[i]]

(* The menu in memory is inserted or updated; an item that is not in it is *)
(* left as it is.                                                          *)
SavedMenu(r) ==
  [i \in Item |->
     IF menu[r][i] = NotListed THEN item[i]
     ELSE IF itemBase[r][i] = NotListed THEN menu[r][i]
     ELSE MergedItem(menu[r][i], itemBase[r][i], item[i])]

(* History: what the answer to the request will say of its item.           *)
AgreedAfter(r) ==
  LET i == command[r].item IN
  IF i # NoItem /\ menu[r][i] # NotListed
  THEN [agreed EXCEPT ![i] = [price |-> menu[r][i].price,
                              available |-> menu[r][i].available]]
  ELSE agreed

(* One transaction writes all items.                                       *)
UpdateItems(r) ==
  /\ pc[r] = "updateItems"
  /\ GoTo(r, "saveHours")
  /\ item' = SavedMenu(r)
  /\ agreed' = AgreedAfter(r)
  /\ UNCHANGED <<row, hours, target, command, ent, menu, base, itemBase, started,
                 overlapped>>

(* Every row carries the id "", which is no uuid: the database refuses.    *)
Storable(rows) == {}

(* The hours of the request are the last thing saved.                      *)
SaveHours(r) ==
  /\ pc[r] = "saveHours"
  /\ \E h \in HoursRow :
       /\ h.merchant = target[r]
       /\ hours' = IF command[r].op = "hours" THEN hours \cup Storable({h}) ELSE hours
  /\ Finish(r)
  /\ UNCHANGED <<row, item, started, agreed, overlapped>>

(* The process dies, or the database fails, before the next query.         *)
Abort(r) ==
  /\ pc[r] # "idle"
  /\ Finish(r)
  /\ UNCHANGED <<row, item, hours, started, agreed, overlapped>>

Next ==
  \/ \E m \in Merchant : DeleteMerchant(m)
  \/ \E r \in Request :
       \/ \E m \in Merchant :
            \/ Register(r, m)
            \/ \E c \in Command : FindMerchant(r, m, c)
       \/ LoadMenu(r) \/ Refuse(r)
       \/ SelectRow(r) \/ UpdateRow(r)
       \/ SelectItems(r) \/ UpdateItems(r)
       \/ SaveHours(r) \/ Abort(r)

Spec == Init /\ [][Next]_vars

-----------------------------------------------------------------------------
(* Properties.                                                             *)

Life == INSTANCE MerchantLife WITH
  status <- [m \in Merchant |-> row[m].status],
  deleted <- [m \in Merchant |-> row[m].deleted]

(* Merchant.approve looks for an approval and a suspension only: it takes  *)
(* a rejection back, which no valid transition of MerchantLife does.       *)
Reconsidered(m) ==
  /\ row[m].status = "REJECTED" /\ row'[m].status = "APPROVED"
  /\ ~row[m].deleted /\ ~row'[m].deleted

(* A restaurant no two handlers worked on at once keeps the promise of     *)
(* MerchantLife at every step of its row, crashes included, but for a      *)
(* rejection that is taken back.                                           *)
UndisturbedFollowsLife ==
  [][\A m \in Merchant :
       m \in overlapped' \/ Life!Same(m) \/ Life!Step(m) \/ Reconsidered(m)]_vars

(* A closed account is never opened again, not by a save that was under    *)
(* way when it was closed either.                                          *)
ClosedForGood ==
  [][\A m \in Merchant : row[m].deleted => row'[m].deleted]_vars

(* A menu item never changes hands, and one is lost only to a handler that *)
(* was asked to remove it, not to a save of a menu it was missing from.    *)
OnlyRemovedOnRequest ==
  [][\A i \in Item :
       item[i] # NotListed =>
         \/ item'[i].merchant = item[i].merchant
         \/ \E r \in Request : command[r].op = "removeItem" /\ command[r].item = i]_vars

(* Unless handlers overlapped on the restaurant, price and availability of *)
(* its items are what the last request about each item was told: a save    *)
(* of the whole menu changes nothing else.                                 *)
MenuAsAgreed ==
  \A i \in Item :
    item[i] # NotListed /\ item[i].merchant \notin overlapped =>
      /\ item[i].price = agreed[i].price
      /\ item[i].available = agreed[i].available

(* The price struck through is never the price itself, unless handlers     *)
(* overlapped.                                                             *)
StrikesAnotherPrice ==
  \A i \in Item :
    item[i] # NotListed /\ item[i].merchant \notin overlapped =>
      item[i].original # item[i].price

(* The inductive invariant.                                                *)
(* What is listed belongs to a restaurant that exists; of an undisturbed   *)
(* restaurant, a handler's memory is the tables with its own command       *)
(* applied.                                                                *)
HandlerCoherent(r) ==
  LET m == target[r]  c == command[r] IN
  /\ \A s \in Request \ {r} : target[s] # m
  /\ pc[r] = "menu" => row[m] = ent[r] /\ row[m] # Absent
  /\ pc[r] \in {"select", "update"} =>
       \/ row[m] = Absent /\ ent[r] = NewMerchant /\ menu[r] = EmptyMenu
       \/ /\ row[m] # Absent
          /\ ~Refused(c, row[m], MenuOf(m)) /\ ent[r] = AfterCommand(c, row[m])
  /\ pc[r] = "update" => base[r] = row[m]
  /\ pc[r] \in {"select", "update", "selectItems", "updateItems"} =>
       \/ menu[r] = EmptyMenu /\ c = NoCommand
       \/ ~Refused(c, Absent, MenuOf(m)) /\ menu[r] = MenuAfter(c, m, MenuOf(m))
  /\ pc[r] \in {"selectItems", "updateItems", "saveHours"} => row[m] # Absent
  /\ pc[r] = "updateItems" =>
       \A i \in Item : menu[r][i] # NotListed => itemBase[r][i] = item[i]

Coherent ==
  /\ \A m \in Merchant : row[m].orders = 0 /\ row[m].capacityStatus = "NORMAL"
  /\ \A r \in Request :
       IF pc[r] = "idle" THEN target[r] = NoMerchant
       ELSE target[r] \in overlapped \/ HandlerCoherent(r)

(* A handler alone on a restaurant knows its tables from the query that    *)
(* read them to the save, and the price struck through is another price.   *)
Inv == TypeOK /\ Coherent /\ StrikesAnotherPrice

(* What no step does: an undisturbed restaurant leaves MerchantLife, a     *)
(* closed account opens again, a menu item is lost to somebody else's save.*)
PromisesKept == UndisturbedFollowsLife /\ ClosedForGood /\ OnlyRemovedOnRequest
=============================================================================
