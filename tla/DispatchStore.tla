--------------------------- MODULE DispatchStore ---------------------------
(***************************************************************************)
(* dispatch-service: the dispatch aggregate, DispatchService and           *)
(* DispatchRepository.  A handler loads a dispatch with one query, runs    *)
(* one domain method in memory and saves: TypeORM selects the row again    *)
(* and updates the columns that differ, or inserts the row if it is gone.  *)
(* Nothing serialises two handlers.                                        *)
(***************************************************************************)
EXTENDS Naturals, FiniteSets

CONSTANTS
  Dispatch,     \* dispatch ids; create() draws a fresh one each time
  Order,        \* order ids
  Driver,       \* courier ids
  NoDriver,     \* the null driverId
  NoOrder,      \* the order of a row that does not exist
  NoDispatch,   \* an idle slot works on no dispatch
  Request,      \* slots for handlers running at the same time
  MaxOverlaps   \* bound on how often handlers overlap

ASSUME NullAssumption ==
  /\ NoDriver \notin Driver
  /\ NoOrder \notin Order
  /\ NoDispatch \notin Dispatch
ASSUME MaxOverlapsAssumption == MaxOverlaps \in Nat

VARIABLES
  row,        \* the dispatches table
  spent,      \* ids that have been drawn
  pc,         \* the query each handler issues next, "idle" when it runs none
  target,     \* the dispatch each handler works on
  command,    \* the domain method it runs, with its courier argument
  ent,        \* the dispatch it has in memory
  base,       \* the row TypeORM selected before its update
  overlaps,   \* how often a handler started while another had not finished
  asked,      \* history: couriers whose assignment was answered with success
  again,      \* history: dispatches that asked some courier twice
  disturbed,  \* history: dispatches two handlers worked on at once
  raced       \* history: orders two handlers created a dispatch for at once

vars == <<row, spent, pc, target, command, ent, base, overlaps, asked, again,
          disturbed, raced>>

tables == <<row, spent>>
handler == <<target, command, ent, base>>
history == <<asked, again>>

Status == {"MATCHING", "DRIVER_ASSIGNED", "DRIVER_ACCEPTED", "DRIVER_ARRIVED",
           "PICKED_UP", "DELIVERING", "DELIVERED", "EXPIRED", "CANCELLED"}

DriverOrNull == Driver \cup {NoDriver}

(* matchedDriverIds holds no courier twice, and its order is never read.   *)
Row == [order : Order \cup {NoOrder}, status : Status \cup {"NONE"},
        driver : DriverOrNull, matched : SUBSET Driver, retry : Nat]

Absent == [order |-> NoOrder, status |-> "NONE", driver |-> NoDriver,
           matched |-> {}, retry |-> 0]

(* What Dispatch.create builds.                                            *)
Created(o) == [order |-> o, status |-> "MATCHING", driver |-> NoDriver,
               matched |-> {}, retry |-> 0]

(* The requests about an existing dispatch.  Only an assignment names a    *)
(* courier that is used: driver-accept takes none, and the driverId of     *)
(* driver-decline is not read.                                             *)
Command ==
  [op : {"driverAccept", "driverDecline", "driverArrived", "markPickedUp",
         "startDelivering", "markDelivered", "expire", "cancel", "updateNotes"},
   driver : {NoDriver}]
    \cup [op : {"assignDriver"}, driver : Driver]

CreateCommand == [op |-> "createDispatch", driver |-> NoDriver]

Exists(d) == row[d] # Absent

TypeOK ==
  /\ row \in [Dispatch -> Row]
  /\ spent \in SUBSET Dispatch
  /\ pc \in [Request -> {"idle", "insert", "select", "update"}]
  /\ target \in [Request -> Dispatch \cup {NoDispatch}]
  /\ \A r \in Request : pc[r] \in {"select", "update"} => target[r] \in Dispatch
  /\ command \in [Request -> Command \cup {CreateCommand}]
  /\ ent \in [Request -> Row]
  /\ base \in [Request -> Row]
  /\ overlaps \in Nat
  /\ asked \in [Dispatch -> SUBSET Driver]
  /\ again \in SUBSET Dispatch
  /\ disturbed \in SUBSET Dispatch
  /\ raced \in SUBSET Order

Init ==
  /\ row = [d \in Dispatch |-> Absent]
  /\ spent = {}
  /\ pc = [r \in Request |-> "idle"]
  /\ target = [r \in Request |-> NoDispatch]
  /\ command = [r \in Request |-> CreateCommand]
  /\ ent = [r \in Request |-> Absent]
  /\ base = [r \in Request |-> Absent]
  /\ overlaps = 0
  /\ asked = [d \in Dispatch |-> {}]
  /\ again = {}
  /\ disturbed = {}
  /\ raced = {}

-----------------------------------------------------------------------------
(* The aggregate.                                                          *)

MaxMatchingAttempts == 3

(* The statuses in which a method does not throw.                          *)
AllowedIn(op) ==
  CASE op = "assignDriver"    -> {"MATCHING"}
    [] op = "driverAccept"    -> {"DRIVER_ASSIGNED"}
    [] op = "driverDecline"   -> {"DRIVER_ASSIGNED"}
    [] op = "driverArrived"   -> {"DRIVER_ACCEPTED"}
    [] op = "markPickedUp"    -> {"DRIVER_ARRIVED"}
    [] op = "startDelivering" -> {"PICKED_UP"}
    [] op = "markDelivered"   -> {"DELIVERING"}
    [] op = "expire"          -> {"MATCHING", "DRIVER_ASSIGNED"}
    [] op = "cancel"          -> {"MATCHING", "DRIVER_ASSIGNED", "DRIVER_ACCEPTED"}
    [] op = "updateNotes"     -> Status

(* Mutants: assignDriver does not look up matchedDriverIds, or the other   *)
(* methods do not look at the status.                                      *)
AskAnyone(c, e) == e.status \in AllowedIn(c.op)
Unchecked(c, e) == c.op = "assignDriver" => e.status = "MATCHING" /\ c.driver \notin e.matched

Allowed(c, e) ==
  /\ e.status \in AllowedIn(c.op)
  /\ c.op = "assignDriver" =>
       c.driver \notin e.matched /\ e.retry < MaxMatchingAttempts

AfterAssign(x, e) ==
  [e EXCEPT !.status = "DRIVER_ASSIGNED", !.driver = x, !.matched = @ \cup {x}]

(* DRIVER_DECLINED is left again before the method returns.                *)
AfterDecline(e) ==
  [e EXCEPT !.driver = NoDriver, !.retry = @ + 1,
            !.status = IF e.retry + 1 < MaxMatchingAttempts THEN "MATCHING" ELSE "EXPIRED"]

(* The status the remaining methods assign.                                *)
NewStatus(op) ==
  CASE op = "driverAccept"    -> "DRIVER_ACCEPTED"
    [] op = "driverArrived"   -> "DRIVER_ARRIVED"
    [] op = "markPickedUp"    -> "PICKED_UP"
    [] op = "startDelivering" -> "DELIVERING"
    [] op = "markDelivered"   -> "DELIVERED"
    [] op = "expire"          -> "EXPIRED"
    [] op = "cancel"          -> "CANCELLED"

AfterCommand(c, e) ==
  CASE c.op = "assignDriver"  -> AfterAssign(c.driver, e)
    [] c.op = "driverDecline" -> AfterDecline(e)
    [] c.op = "updateNotes"   -> e
    [] OTHER                  -> [e EXCEPT !.status = NewStatus(c.op)]

-----------------------------------------------------------------------------
(* The handlers, one action per query.                                     *)

Busy(d) == \E s \in Request : target[s] = d

Creating(o) == \E s \in Request : pc[s] = "insert" /\ ent[s].order = o

GoTo(r, step) == pc' = [pc EXCEPT ![r] = step]

(* A handler starts; MaxOverlaps bounds how often one meets another on the *)
(* same dispatch or order.                                                 *)
Start(meets) ==
  /\ meets => overlaps < MaxOverlaps
  /\ overlaps' = IF meets THEN overlaps + 1 ELSE overlaps

Finish(r) ==
  /\ pc' = [pc EXCEPT ![r] = "idle"]
  /\ target' = [target EXCEPT ![r] = NoDispatch]
  /\ command' = [command EXCEPT ![r] = CreateCommand]
  /\ ent' = [ent EXCEPT ![r] = Absent]
  /\ base' = [base EXCEPT ![r] = Absent]

(* Mutant: createDispatch does not look for another dispatch.              *)
CreateUnchecked(r, o) ==
  /\ pc[r] = "idle"
  /\ Start(Creating(o))
  /\ GoTo(r, "insert")
  /\ ent' = [ent EXCEPT ![r] = Created(o)]
  /\ raced' = IF Creating(o) THEN raced \cup {o} ELSE raced
  /\ UNCHANGED <<tables, target, command, base, history, disturbed>>

(* createDispatch: findByOrderId, which must find none.                    *)
CreateCheck(r, o) ==
  /\ pc[r] = "idle"
  /\ \A d \in Dispatch : row[d].order # o
  /\ Start(Creating(o))
  /\ GoTo(r, "insert")
  /\ ent' = [ent EXCEPT ![r] = Created(o)]
  /\ raced' = IF Creating(o) THEN raced \cup {o} ELSE raced
  /\ UNCHANGED <<tables, target, command, base, history, disturbed>>

(* ... then save inserts it; nobody else knows the fresh id.               *)
Insert(r, d) ==
  /\ pc[r] = "insert"
  /\ d \notin spent
  /\ spent' = spent \cup {d}
  /\ row' = [row EXCEPT ![d] = ent[r]]
  /\ Finish(r)
  /\ UNCHANGED <<overlaps, history, disturbed, raced>>

(* findByIdOrFail and the domain method; a method that throws ends the     *)
(* handler having changed nothing.                                         *)
Load(r, d, c) ==
  /\ pc[r] = "idle"
  /\ Exists(d)
  /\ Allowed(c, row[d])
  /\ Start(Busy(d))
  /\ GoTo(r, "select")
  /\ target' = [target EXCEPT ![r] = d]
  /\ command' = [command EXCEPT ![r] = c]
  /\ ent' = [ent EXCEPT ![r] = AfterCommand(c, row[d])]
  /\ disturbed' = IF Busy(d) THEN disturbed \cup {d} ELSE disturbed
  /\ UNCHANGED <<tables, base, history, raced>>

SaveSelect(r) ==
  /\ pc[r] = "select"
  /\ base' = [base EXCEPT ![r] = row[target[r]]]
  /\ GoTo(r, "update")
  /\ UNCHANGED <<tables, target, command, ent, overlaps, history, disturbed, raced>>

(* The row after an UPDATE of the columns in which e differs from b.       *)
ChangedColumns(e, b, current) ==
  [order   |-> current.order,
   status  |-> IF e.status # b.status THEN e.status ELSE current.status,
   driver  |-> IF e.driver # b.driver THEN e.driver ELSE current.driver,
   matched |-> IF e.matched # b.matched THEN e.matched ELSE current.matched,
   retry   |-> IF e.retry # b.retry THEN e.retry ELSE current.retry]

(* A row that was gone is inserted, unless it came back meanwhile (a       *)
(* duplicate key, which fails the handler); an UPDATE of a row that is     *)
(* gone since changes nothing.                                             *)
Saved(e, b, current) ==
  IF b = Absent THEN (IF current = Absent THEN e ELSE current)
  ELSE IF current = Absent THEN Absent
  ELSE ChangedColumns(e, b, current)

(* The caller of assignDriver is answered, and the courier asked, unless   *)
(* the insert failed.                                                      *)
Asks(r) ==
  /\ command[r].op = "assignDriver"
  /\ base[r] = Absent => row[target[r]] = Absent

SaveUpdate(r) ==
  /\ pc[r] = "update"
  /\ row' = [row EXCEPT ![target[r]] = Saved(ent[r], base[r], @)]
  /\ asked' = IF Asks(r)
              THEN [asked EXCEPT ![target[r]] = @ \cup {command[r].driver}]
              ELSE asked
  /\ again' = IF Asks(r) /\ command[r].driver \in asked[target[r]]
              THEN again \cup {target[r]} ELSE again
  /\ Finish(r)
  /\ UNCHANGED <<spent, overlaps, disturbed, raced>>

(* DELETE /dispatches/:id, a handler of a single statement.                *)
Delete(r, d) ==
  /\ pc[r] = "idle"
  /\ Exists(d)
  /\ Start(Busy(d))
  /\ row' = [row EXCEPT ![d] = Absent]
  /\ disturbed' = IF Busy(d) THEN disturbed \cup {d} ELSE disturbed
  /\ UNCHANGED <<spent, pc, handler, history, raced>>

(* The process dies, or the connection fails, before the next query.       *)
Abort(r) ==
  /\ pc[r] # "idle"
  /\ Finish(r)
  /\ UNCHANGED <<tables, overlaps, history, disturbed, raced>>

Next ==
  \E r \in Request :
    \/ \E o \in Order : CreateCheck(r, o)
    \/ \E d \in Dispatch : Insert(r, d)
    \/ \E d \in Dispatch, c \in Command : Load(r, d, c)
    \/ SaveSelect(r)
    \/ SaveUpdate(r)
    \/ \E d \in Dispatch : Delete(r, d)
    \/ Abort(r)

Spec == Init /\ [][Next]_vars

-----------------------------------------------------------------------------
(* Properties.                                                             *)

Phase(status) ==
  CASE status = "NONE"                      -> "none"
    [] status = "MATCHING"                  -> "searching"
    [] status = "DRIVER_ASSIGNED"           -> "offered"
    [] status = "DRIVER_ACCEPTED"           -> "taken"
    [] status \in {"DRIVER_ARRIVED", "PICKED_UP", "DELIVERING"} -> "underway"
    [] status = "DELIVERED"                 -> "done"
    [] status \in {"EXPIRED", "CANCELLED"}  -> "failed"

Offers == INSTANCE DispatchOffers WITH
  phase <- [d \in Dispatch |-> Phase(row[d].status)],
  courier <- [d \in Dispatch |-> row[d].driver],
  tried <- [d \in Dispatch |-> row[d].matched],
  MaxOffers <- MaxMatchingAttempts

(* The life of dispatches is the promised one: one courier asked at a      *)
(* time, none twice, three at most; of a service with one handler slot.    *)
ImplementsOffers == Offers!Spec

(* With handlers overlapping, a dispatch leaves the promised life only if  *)
(* two of them worked on it at once.                                       *)
UndisturbedFollowsOffers ==
  [][\A d \in Dispatch :
       d \in disturbed' \/ Offers!Step(d) \/ Offers!Same(d)]_vars

(* The couriers really asked, which no column of the row records by        *)
(* itself, respect the limits too as long as the dispatch is undisturbed:  *)
(* nobody was asked twice and at most three were.                          *)
AskedOnce ==
  \A d \in Dispatch \ disturbed :
    d \notin again /\ Cardinality(asked[d]) <= MaxMatchingAttempts

(* An order has a second dispatch only after two createDispatch overlapped *)
(* on it, or after a save brought a deleted one back.                      *)
SingleDispatch ==
  \A d, e \in Dispatch \ disturbed :
    Exists(d) /\ Exists(e) /\ row[d].order = row[e].order =>
      d = e \/ row[d].order \in raced

-----------------------------------------------------------------------------
(* The inductive invariant behind the properties above.                    *)

(* The columns of a row agree with each other: retry counts the couriers   *)
(* who declined, and the one who did not is the courier.                   *)
RowCoherent(w) ==
  /\ w.order \in Order
  /\ w.status # "NONE"
  /\ w.retry <= MaxMatchingAttempts
  /\ w.status = "MATCHING" => w.driver = NoDriver /\ w.retry < MaxMatchingAttempts
  /\ w.status \in {"DRIVER_ASSIGNED", "DRIVER_ACCEPTED", "DRIVER_ARRIVED",
                   "PICKED_UP", "DELIVERING", "DELIVERED"} => w.driver # NoDriver
  /\ w.driver # NoDriver => w.driver \in w.matched /\ w.retry < MaxMatchingAttempts
  /\ IsFiniteSet(w.matched)
  /\ Cardinality(w.matched) = w.retry + (IF w.driver = NoDriver THEN 0 ELSE 1)

(* What the handler alone on a dispatch has in memory.                     *)
HandlerCoherent(r, d) ==
  /\ Exists(d)
  /\ command[r] \in Command
  /\ Allowed(command[r], row[d])
  /\ ent[r] = AfterCommand(command[r], row[d])
  /\ pc[r] = "update" => base[r] = row[d]

DispatchCoherent(d) ==
  /\ Exists(d) => RowCoherent(row[d]) /\ asked[d] = row[d].matched
  /\ d \notin spent => asked[d] = {}
  /\ d \notin again
  /\ Cardinality(asked[d]) <= MaxMatchingAttempts
  /\ \A r \in Request : target[r] = d => HandlerCoherent(r, d)
  /\ \A r, s \in Request : target[r] = d /\ target[s] = d => r = s

(* What the handler alone creating a dispatch for an order knows.          *)
CreationCoherent(r, o) ==
  pc[r] = "insert" /\ ent[r].order = o =>
    /\ \A d \in Dispatch \ disturbed : row[d].order # o
    /\ \A s \in Request : pc[s] = "insert" /\ ent[s].order = o => r = s

(* The handler alone on a dispatch, or alone creating one for an order,    *)
(* has in memory what the table holds or what its save is about to write.  *)
Coherent ==
  /\ \A r \in Request :
       /\ pc[r] \in {"idle", "insert"} <=> target[r] = NoDispatch
       /\ pc[r] = "insert" => \E o \in Order : ent[r] = Created(o)
  /\ \A d \in Dispatch \ disturbed : DispatchCoherent(d)
  /\ \A d \in Dispatch : d \notin spent => row[d] = Absent /\ d \notin disturbed
  /\ SingleDispatch
  /\ \A o \in Order \ raced, r \in Request : CreationCoherent(r, o)
=============================================================================
