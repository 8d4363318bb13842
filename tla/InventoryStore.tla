--------------------------- MODULE InventoryStore ---------------------------
(***************************************************************************)
(* inventory-service: the inventory aggregate, InventoryService with its   *)
(* cron job, and InventoryRepository.  An inventory is one row (total,     *)
(* available, reserved) and a list of reservation rows; a save updates the *)
(* row, deletes every reservation row and inserts the list in memory.      *)
(* Each query is an action; handlers and the cron job interleave freely.   *)
(***************************************************************************)
EXTENDS Integers, Sequences, FiniteSets, SequencesExt

CONSTANTS
  Item,         \* inventory ids
  Order,        \* order ids
  Request,      \* slots for handlers running at the same time
  Job,          \* slots for runs of handleReservationTimeout
  NoItem,       \* an idle process works on no inventory
  MaxStock,     \* bound on the totals requests carry
  MaxQuantity,  \* bound on the quantities they reserve
  MaxTimeout,   \* bound on the timeouts requests carry
  MaxEvents,    \* bound on the handlers that start and the processes that fail
  Horizon       \* bound on the clock

ASSUME ProcessAssumption == Job \cap Request = {} /\ NoItem \notin Item
ASSUME ItemAssumption == IsFiniteSet(Item)
ASSUME BoundAssumption ==
  {MaxStock, MaxQuantity, MaxTimeout, MaxEvents, Horizon} \subseteq Nat

VARIABLES
  row,        \* the inventories table
  resv,       \* the inventory_reservations rows of each inventory
  now,        \* the clock
  pc,         \* the query each process issues next
  item,       \* the inventory it works on
  command,    \* the domain method a handler runs
  mem,        \* the inventory it has in memory
  base,       \* the row TypeORM selected before its update
  agenda,     \* what a run of the cron job still has to do
  events,     \* handlers started and processes failed so far
  disturbed,  \* history: inventories two processes worked on at once, or
              \* whose process failed halfway through a save
  repeated,   \* history: inventories where an order reserved again while it
              \* held a reservation, or while a cron run had it listed
  clamped     \* history: inventories whose total was cut below what is held

tables == <<row, resv>>
process == <<pc, item, command, mem, base, agenda>>
history == <<disturbed, repeated, clamped>>
vars == <<tables, now, process, events, history>>

Process == Request \cup Job

Reservation == [order : Order, quantity : Nat, expiresAt : Nat]
Row == [total : Int, available : Int, reserved : Int, exists : BOOLEAN]
Absent == [total |-> 0, available |-> 0, reserved |-> 0, exists |-> FALSE]

(* An inventory in memory: a row and the reservations found for it.        *)
Inventory == [row : Row, resv : Seq(Reservation)]
NoInventory == [row |-> Absent, resv |-> <<>>]

(* The requests the DTOs let through.                                      *)
Command ==
  [op : {"reserve"}, order : Order, quantity : 1 .. MaxQuantity, timeout : 0 .. MaxTimeout]
    \cup [op : {"release", "consume"}, order : Order]
    \cup [op : {"updateTotal"}, quantity : 0 .. MaxStock]

NoCommand == [op |-> "none"]

(* A run of the cron job: the groups it found and must load, the groups it *)
(* loaded and must save, and the orders of the group at hand.              *)
Agenda == [todo : Seq([item : Item, orders : Seq(Order)]),
           loaded : Seq([item : Item, mem : Inventory, orders : Seq(Order)]),
           orders : Seq(Order)]
NoAgenda == [todo |-> <<>>, loaded |-> <<>>, orders |-> <<>>]

Saving == {"select", "update", "deleteReservations", "insertReservations"}
Step == {"idle", "findReservations", "cronRow", "cronReservations", "release"} \cup Saving

TypeOK ==
  /\ row \in [Item -> Row]
  /\ resv \in [Item -> Seq(Reservation)]
  /\ now \in Nat
  /\ pc \in [Process -> Step]
  /\ item \in [Process -> Item \cup {NoItem}]
  /\ command \in [Process -> Command \cup {NoCommand}]
  /\ mem \in [Process -> Inventory]
  /\ base \in [Process -> Row]
  /\ agenda \in [Process -> Agenda]
  /\ events \in Nat
  /\ {disturbed, repeated, clamped} \subseteq SUBSET Item

(* The row of a new inventory: all of it is available.                     *)
Fresh(q) == [total |-> q, available |-> q, reserved |-> 0, exists |-> TRUE]

Init ==
  /\ row = [i \in Item |-> Absent]
  /\ resv = [i \in Item |-> <<>>]
  /\ now = 0
  /\ pc = [p \in Process |-> "idle"]
  /\ item = [p \in Process |-> NoItem]
  /\ command = [p \in Process |-> NoCommand]
  /\ mem = [p \in Process |-> NoInventory]
  /\ base = [p \in Process |-> Absent]
  /\ agenda = [p \in Process |-> NoAgenda]
  /\ events = 0
  /\ disturbed = {} /\ repeated = {} /\ clamped = {}

-----------------------------------------------------------------------------
(* The aggregate.  A method is the set of its possible results: empty when *)
(* it throws, several when the reservation it finds first is not           *)
(* determined (the rows are loaded in no particular order).                *)

(* The inventory after reserve, with the new reservation last.             *)
Grant(inv, c) ==
  [row |-> [inv.row EXCEPT !.reserved = @ + c.quantity, !.available = @ - c.quantity],
   resv |-> Append(inv.resv, [order |-> c.order, quantity |-> c.quantity,
                              expiresAt |-> now + c.timeout])]

(* Mutant: a reservation larger than the stock is granted.                 *)
ReserveUnchecked(inv, c) == {Grant(inv, c)}

Reserve(inv, c) ==
  {g \in {Grant(inv, c)} : c.quantity <= inv.row.available}

Found(inv, o) == {k \in DOMAIN inv.resv : inv.resv[k].order = o}

(* The elements of a list at some of its places; a list of reservations    *)
(* has no particular order.                                                *)
At(s, places) == LET f == SetToSeq(places) IN [k \in DOMAIN f |-> s[f[k]]]

(* Mutants: no reservation is dropped, or all of them are.                 *)
KeepOrder(s, o) == s
DropAll(s, o) == <<>>

WithoutOrder(s, o) == At(s, {k \in DOMAIN s : s[k].order # o})

(* find gives one reservation of the order, filter drops all of them.      *)
Release(inv, o) ==
  {[row |-> [inv.row EXCEPT !.reserved = @ - inv.resv[k].quantity,
                            !.available = @ + inv.resv[k].quantity],
    resv |-> WithoutOrder(inv.resv, o)] : k \in Found(inv, o)}

Consume(inv, o) ==
  {[row |-> [inv.row EXCEPT !.reserved = @ - inv.resv[k].quantity,
                            !.total = @ - inv.resv[k].quantity],
    resv |-> WithoutOrder(inv.resv, o)] : k \in Found(inv, o)}

(* The total is set; the available part follows it, but not below zero.    *)
Shifted(inv, n) == inv.row.available + (n - inv.row.total)

UpdateTotal(inv, n) ==
  {[inv EXCEPT !.row.total = n,
               !.row.available = IF Shifted(inv, n) < 0 THEN 0 ELSE Shifted(inv, n)]}

Outcomes(c, inv) ==
  CASE c.op = "reserve"     -> Reserve(inv, c)
    [] c.op = "release"     -> Release(inv, c.order)
    [] c.op = "consume"     -> Consume(inv, c.order)
    [] c.op = "updateTotal" -> UpdateTotal(inv, c.quantity)

-----------------------------------------------------------------------------
(* Handlers.                                                               *)

(* The inventories a process has in memory: the one it works on, and those *)
(* a cron run loaded and will overwrite later.                             *)
Holds(p, i) ==
  item[p] = i \/ \E k \in DOMAIN agenda[p].loaded : agenda[p].loaded[k].item = i

Disturb(i) ==
  disturbed' = IF \E p \in Process : Holds(p, i) THEN disturbed \cup {i} ELSE disturbed

GoTo(p, step) ==
  /\ pc' = [pc EXCEPT ![p] = step]
  /\ UNCHANGED <<item, command, agenda, events>>

Forget(p) ==
  /\ pc' = [pc EXCEPT ![p] = "idle"]
  /\ item' = [item EXCEPT ![p] = NoItem]
  /\ command' = [command EXCEPT ![p] = NoCommand]
  /\ mem' = [mem EXCEPT ![p] = NoInventory]
  /\ base' = [base EXCEPT ![p] = Absent]
  /\ agenda' = [agenda EXCEPT ![p] = NoAgenda]

(* The process returns or throws, and its memory is gone.                  *)
Finish(p) == Forget(p) /\ UNCHANGED events

Start(r, i, step) ==
  /\ pc[r] = "idle"
  /\ events < MaxEvents
  /\ events' = events + 1
  /\ pc' = [pc EXCEPT ![r] = step]
  /\ item' = [item EXCEPT ![r] = i]
  /\ Disturb(i)
  /\ UNCHANGED <<base, agenda, repeated, clamped, now>>

(* POST /inventory: save inserts the row.                                  *)
Create(r, i, q) ==
  /\ ~row[i].exists
  /\ Start(r, i, "deleteReservations")
  /\ row' = [row EXCEPT ![i] = Fresh(q)]
  /\ mem' = [mem EXCEPT ![r] = [row |-> Fresh(q), resv |-> <<>>]]
  /\ UNCHANGED <<resv, command>>

(* The row query of findByIdOrFail.                                        *)
FindInventory(r, i, c) ==
  /\ row[i].exists
  /\ Start(r, i, "findReservations")
  /\ command' = [command EXCEPT ![r] = c]
  /\ mem' = [mem EXCEPT ![r] = [row |-> row[i], resv |-> <<>>]]
  /\ UNCHANGED tables

(* A cron run read that the order's reservation is due, and not yet more.   *)
Listed(i, o) ==
  \E j \in Job : \E k \in DOMAIN agenda[j].todo :
    agenda[j].todo[k].item = i /\ o \in ToSet(agenda[j].todo[k].orders)

(* loadRelatedAndMap's query, then the domain method, all in one turn of   *)
(* the event loop.                                                         *)
RunCommand(r) ==
  LET i == item[r]
      c == command[r]
      inv == [mem[r] EXCEPT !.resv = resv[i]]
  IN
  /\ pc[r] = "findReservations"
  /\ IF Outcomes(c, inv) = {}
     THEN /\ Finish(r)
          /\ UNCHANGED <<repeated, clamped>>
     ELSE /\ \E new \in Outcomes(c, inv) : mem' = [mem EXCEPT ![r] = new]
          /\ GoTo(r, "select")
          /\ repeated' = IF /\ c.op = "reserve"
                            /\ Found(inv, c.order) # {} \/ Listed(i, c.order)
                         THEN repeated \cup {i} ELSE repeated
          /\ clamped' = IF c.op = "updateTotal" /\ Shifted(inv, c.quantity) < 0
                        THEN clamped \cup {i} ELSE clamped
          /\ UNCHANGED base
  /\ UNCHANGED <<tables, now, disturbed>>

-----------------------------------------------------------------------------
(* save, run by handlers and by the cron job.                              *)

SaveSelect(p) ==
  /\ pc[p] = "select"
  /\ base' = [base EXCEPT ![p] = row[item[p]]]
  /\ GoTo(p, "update")
  /\ UNCHANGED <<tables, now, mem, history>>

(* TypeORM writes the columns that differ from the row it selected.        *)
ChangedColumns(new, old, current) ==
  [c \in DOMAIN current |-> IF new[c] # old[c] THEN new[c] ELSE current[c]]

SaveUpdate(p) ==
  /\ pc[p] = "update"
  /\ row' = [row EXCEPT ![item[p]] = ChangedColumns(mem[p].row, base[p], @)]
  /\ GoTo(p, "deleteReservations")
  /\ UNCHANGED <<resv, now, mem, base, history>>

DeleteReservations(p) ==
  /\ pc[p] = "deleteReservations"
  /\ resv' = [resv EXCEPT ![item[p]] = <<>>]
  /\ GoTo(p, "insertReservations")
  /\ UNCHANGED <<row, now, mem, base, history>>

(* A run of the cron job goes on with the next group it loaded.            *)
NextGroup(j, loaded) ==
  IF loaded = <<>> THEN Finish(j)
  ELSE /\ pc' = [pc EXCEPT ![j] = "release"]
       /\ item' = [item EXCEPT ![j] = Head(loaded).item]
       /\ mem' = [mem EXCEPT ![j] = Head(loaded).mem]
       /\ agenda' = [agenda EXCEPT ![j] = [todo |-> <<>>, loaded |-> Tail(loaded),
                                           orders |-> Head(loaded).orders]]
       /\ UNCHANGED <<base, command, events>>

InsertReservations(p) ==
  /\ pc[p] = "insertReservations"
  /\ resv' = [resv EXCEPT ![item[p]] = @ \o mem[p].resv]
  /\ NextGroup(p, agenda[p].loaded)
  /\ UNCHANGED <<row, now, history>>

-----------------------------------------------------------------------------
(* handleReservationTimeout.                                               *)

(* Mutant: the comparison is strict.                                       *)
ExpiredBefore(s) == At(s, {k \in DOMAIN s : s[k].expiresAt < now})

Expired(s) == At(s, {k \in DOMAIN s : s[k].expiresAt <= now})

Orders(s) == [k \in DOMAIN s |-> s[k].order]

(* The reservations that are due, grouped by inventory in any order.       *)
CronQuery(j) ==
  /\ pc[j] = "idle"
  /\ \E groups \in SetToSeqs({i \in Item : Expired(resv[i]) # <<>>}) :
       /\ groups # <<>>
       /\ agenda' = [agenda EXCEPT ![j].todo =
                       [k \in DOMAIN groups |->
                          [item |-> groups[k], orders |-> Orders(Expired(resv[groups[k]]))]]]
  /\ pc' = [pc EXCEPT ![j] = "cronRow"]
  /\ UNCHANGED <<tables, now, item, command, mem, base, events, history>>

(* The inventories are loaded one after the other, all of them before the  *)
(* first is released.                                                      *)
CronRow(j) ==
  LET i == Head(agenda[j].todo).item IN
  /\ pc[j] = "cronRow"
  /\ item' = [item EXCEPT ![j] = i]
  /\ mem' = [mem EXCEPT ![j] = [row |-> row[i], resv |-> <<>>]]
  /\ pc' = [pc EXCEPT ![j] = "cronReservations"]
  /\ Disturb(i)
  /\ UNCHANGED <<tables, now, command, base, agenda, events, repeated, clamped>>

CronReservations(j) ==
  LET group == Head(agenda[j].todo)
      todo == Tail(agenda[j].todo)
      loaded == Append(agenda[j].loaded,
                       [item |-> group.item, orders |-> group.orders,
                        mem |-> [mem[j] EXCEPT !.resv = resv[group.item]]])
  IN
  /\ pc[j] = "cronReservations"
  /\ IF todo = <<>> THEN NextGroup(j, loaded)
     ELSE /\ pc' = [pc EXCEPT ![j] = "cronRow"]
          /\ item' = [item EXCEPT ![j] = NoItem]
          /\ agenda' = [agenda EXCEPT ![j].todo = todo, ![j].loaded = loaded]
          /\ UNCHANGED <<command, mem, base, events>>
  /\ UNCHANGED <<tables, now, history>>

(* One turn of the inner loop.  A release that throws ends the whole run:  *)
(* the groups behind it are not saved.                                     *)
CronRelease(j) ==
  LET orders == agenda[j].orders IN
  /\ pc[j] = "release"
  /\ IF orders = <<>>
     THEN /\ GoTo(j, "select")
          /\ UNCHANGED <<mem, base>>
     ELSE IF Release(mem[j], Head(orders)) = {} THEN Finish(j)
     ELSE /\ \E new \in Release(mem[j], Head(orders)) : mem' = [mem EXCEPT ![j] = new]
          /\ agenda' = [agenda EXCEPT ![j].orders = Tail(orders)]
          /\ UNCHANGED <<pc, item, command, base, events>>
  /\ UNCHANGED <<tables, now, history>>

-----------------------------------------------------------------------------
(* The process dies, or the connection fails, before the next query.       *)
Abort(p) ==
  /\ pc[p] # "idle"
  /\ events < MaxEvents
  /\ events' = events + 1
  /\ Forget(p)
  /\ disturbed' = IF pc[p] \in {"deleteReservations", "insertReservations"}
                  THEN disturbed \cup {item[p]} ELSE disturbed
  /\ UNCHANGED <<tables, now, repeated, clamped>>

Tick ==
  /\ now < Horizon
  /\ now' = now + 1
  /\ UNCHANGED <<tables, process, events, history>>

Save(p) == SaveSelect(p) \/ SaveUpdate(p) \/ DeleteReservations(p) \/ InsertReservations(p)
CronStep(j) == CronRow(j) \/ CronReservations(j) \/ CronRelease(j) \/ Save(j)
Proceed(r) == RunCommand(r) \/ Save(r)

Next ==
  \/ \E r \in Request, i \in Item :
       \/ \E q \in 0 .. MaxStock : Create(r, i, q)
       \/ \E c \in Command : FindInventory(r, i, c)
  \/ \E r \in Request : Proceed(r)
  \/ \E j \in Job : CronQuery(j) \/ CronStep(j)
  \/ \E p \in Process : Abort(p)
  \/ Tick

Spec == Init /\ [][Next]_vars

(* Queries are answered, the event loop runs and the timer fires; how long *)
(* anything takes, and whether a process fails, is left open.              *)
Fairness ==
  /\ \A r \in Request : WF_vars(Proceed(r))
  /\ \A j \in Job : WF_vars(CronQuery(j) \/ CronStep(j))
  /\ WF_vars(Tick)

FairSpec == Spec /\ Fairness

-----------------------------------------------------------------------------
(* Properties.                                                             *)

Committing(p, i) ==
  item[p] = i /\ pc[p] \in {"deleteReservations", "insertReservations"}

(* The reservations of an inventory: its rows, or the list a save has in   *)
(* memory once it wrote the inventory's row.                               *)
Held(i) ==
  IF \E p \in Process : Committing(p, i)
  THEN mem[CHOOSE p \in Process : Committing(p, i)].resv
  ELSE resv[i]

(* The units a list of reservations holds.                                 *)
Total(s) == SumFunction([k \in DOMAIN s |-> s[k].quantity])

(* Stock nobody disturbed is accounted for: what is available and what is  *)
(* reserved make up the total as long as no total was cut below what is    *)
(* held, and no unit is sold that is not there.  Every quantity is a       *)
(* quantity.                                                               *)
StockKept ==
  TypeOK /\ \A i \in Item \ disturbed :
    /\ row[i].available >= 0
    /\ i \notin clamped => row[i].available + row[i].reserved = row[i].total

(* What the repository's own SQL check expects of the table and            *)
(* updateTotal breaks, one handler at a time: what is available and what   *)
(* is reserved do not exceed the total, and no quantity is negative.       *)
StockWithinTotal ==
  \A i \in Item \ disturbed :
    /\ row[i].total >= 0 /\ row[i].available >= 0
    /\ row[i].available + row[i].reserved <= row[i].total

(* The reserved column of an undisturbed inventory is the sum of its       *)
(* reservations, and at least that when an order reserved twice.           *)
ReservedMatches ==
  \A i \in Item \ disturbed :
    /\ row[i].reserved >= Total(Held(i))
    /\ i \notin repeated => row[i].reserved = Total(Held(i))

(* A reservation of an undisturbed inventory lasts until it expires, unless *)
(* its own order is released or consumed: no other order's handler, no save *)
(* and no cron run drops it.                                               *)
PromiseKept ==
  [][\A i \in Item : \A k \in DOMAIN Held(i) :
       LET v == Held(i)[k] IN
       \/ i \in disturbed' \cup repeated
       \/ v.expiresAt <= now
       \/ v \in ToSet(Held(i)')
       \/ \E r \in Request :
            /\ item[r] = i
            /\ command[r].op \in {"release", "consume"}
            /\ command[r].order = v.order]_vars

Overdue(i) == \E k \in DOMAIN Held(i) : Held(i)[k].expiresAt <= now

(* The cron job gives expired stock back, as long as no inventory holds two *)
(* reservations of one order and no save was disturbed: once the requests  *)
(* stop (MaxEvents bounds them) every inventory is rid of what expired;    *)
(* handlers of other orders, failed runs and the groups of other           *)
(* inventories in the same run only delay it.                              *)
ExpiredStockReturns ==
  \A i \in Item : Overdue(i) ~> (~Overdue(i) \/ repeated # {} \/ disturbed # {})
=============================================================================
