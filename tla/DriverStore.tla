----------------------------- MODULE DriverStore -----------------------------
(***************************************************************************)
(* driver-service: profile, shifts, current order and fatigue of couriers. *)
(* Every handler loads the row, changes it in memory and saves it; TypeORM *)
(* selects the row again and writes the columns that differ from it.  Each *)
(* query is an action, and nothing serialises two handlers.                *)
(***************************************************************************)
EXTENDS Naturals, FiniteSets

CONSTANTS
  Driver,          \* ids of driver profiles
  User,            \* users who drive
  NoUser,          \* the owner of a profile that does not exist
  Order,           \* orders couriers are assigned to
  NoOrder,         \* the null currentOrderId
  NoSession,       \* the null currentSessionStartAt
  NoDriver,        \* an idle slot works on no profile
  Request,         \* slots for handlers running at the same time
  Reported,        \* minutes a fatigue report may tell of
  WarningMinutes, CriticalMinutes,  \* 300 and 360 in the code
  MaxRequests,     \* bound on the handlers that ever start
  MaxClock         \* bound on the half minutes that pass

ASSUME NullAssumption ==
  /\ NoUser \notin User /\ NoOrder \notin Order /\ NoDriver \notin Driver
  /\ NoSession \notin Nat
ASSUME ReportedAssumption == Reported \subseteq Nat
ASSUME MinutesAssumption ==
  WarningMinutes \in Nat /\ CriticalMinutes \in Nat /\ WarningMinutes <= CriticalMinutes
ASSUME BoundsAssumption == MaxRequests \in Nat /\ MaxClock \in Nat

VARIABLES
  row,       \* the drivers table
  now,       \* the clock, which ticks twice a minute
  pc,        \* the query each handler issues next
  target,    \* the profile each handler works on
  ent,       \* the profile it has in memory
  base,      \* the row TypeORM selected before its update
  worth,     \* what the command adds to the log when it is saved
  started,   \* handlers started so far
  log,       \* history: what was accepted and saved for each courier, and
             \* the ticks the courier was online
  overlapped \* history: couriers two handlers worked on at once

vars == <<row, now, pc, target, ent, base, worth, started, log, overlapped>>

memory == <<pc, target, ent, base, worth>>

Status == {"INACTIVE", "ACTIVE", "SUSPENDED"}
FatigueLevel == {"NORMAL", "WARNING", "CRITICAL"}

Row == [user : User \cup {NoUser}, status : Status \cup {"NONE"}, online : BOOLEAN,
        session : Nat \cup {NoSession}, total : Nat, consecutive : Nat,
        fatigue : FatigueLevel, goHome : Nat, order : Order \cup {NoOrder},
        orders : Nat, trained : BOOLEAN, located : BOOLEAN]

Absent == [user |-> NoUser, status |-> "NONE", online |-> FALSE,
           session |-> NoSession, total |-> 0, consecutive |-> 0,
           fatigue |-> "NORMAL", goHome |-> 0, order |-> NoOrder,
           orders |-> 0, trained |-> FALSE, located |-> FALSE]

(* Driver.create.                                                          *)
NewDriver(u) == [Absent EXCEPT !.user = u, !.status = "INACTIVE"]

(* The routes to an existing profile; start-shift and end-shift are        *)
(* go-online and go-offline under another name.                            *)
Command ==
  [op : {"profile", "train", "activate", "deactivate", "suspend", "goOnline",
         "goOffline", "goHome", "location", "completeOrder", "takeBreak",
         "forceBreak", "startShift", "endShift"},
   order : {NoOrder}, minutes : {0}]
    \cup [op : {"assignOrder"}, order : Order, minutes : {0}]
    \cup [op : {"fatigue"}, order : {NoOrder}, minutes : Reported]

(* given: assignments, closed: sessions ended, reported: minutes of        *)
(* fatigue reports taken while online, duty: ticks spent online, all since *)
(* the day's total was last 0, which dailyReset makes it and nothing calls.*)
Worth == [given : Nat, closed : Nat, reported : Nat]
Nothing == [given |-> 0, closed |-> 0, reported |-> 0]

Log == [given : Nat, closed : Nat, reported : Nat, duty : Nat]
Blank == [given |-> 0, closed |-> 0, reported |-> 0, duty |-> 0]

TypeOK ==
  /\ row \in [Driver -> Row]
  /\ now \in Nat
  /\ pc \in [Request -> {"idle", "select", "update"}]
  /\ target \in [Request -> Driver \cup {NoDriver}]
  /\ \A r \in Request : pc[r] # "idle" => target[r] \in Driver
  /\ ent \in [Request -> Row]
  /\ base \in [Request -> Row]
  /\ worth \in [Request -> Worth]
  /\ started \in Nat
  /\ log \in [Driver -> Log]
  /\ overlapped \in SUBSET Driver

Init ==
  /\ row = [d \in Driver |-> Absent]
  /\ now = 0
  /\ pc = [r \in Request |-> "idle"]
  /\ target = [r \in Request |-> NoDriver]
  /\ ent = [r \in Request |-> Absent]
  /\ base = [r \in Request |-> Absent]
  /\ worth = [r \in Request |-> Nothing]
  /\ started = 0
  /\ log = [d \in Driver |-> Blank]
  /\ overlapped = {}

-----------------------------------------------------------------------------
(* The aggregate.                                                          *)

MaxGoHomePerDay == 2

TicksPerMinute == 2

(* Math.floor of a time in minutes: the seconds of a session are lost.     *)
Minutes(ticks) == ticks \div TicksPerMinute

(* The ticks of the session that is open.                                  *)
Open(e) == IF e.session = NoSession THEN 0 ELSE now - e.session

(* Mutants: the minutes of a session are rounded up, or not added to the   *)
(* day's total.                                                            *)
RoundedUp(e) ==
  LET minutes == Minutes(Open(e) + 1) IN
  [e EXCEPT !.total = @ + minutes, !.consecutive = @ + minutes, !.session = NoSession]
Uncounted(e) == [e EXCEPT !.consecutive = @ + Minutes(Open(e)), !.session = NoSession]

(* A session that ends adds its whole minutes to both counters.            *)
ReleaseSession(e) ==
  LET minutes == Minutes(Open(e)) IN
  [e EXCEPT !.total = @ + minutes, !.consecutive = @ + minutes, !.session = NoSession]

(* Mutant: the session is left open.                                       *)
StayInSession(e) == [e EXCEPT !.online = FALSE]

GoOffline(e) == [ReleaseSession(e) EXCEPT !.online = FALSE]

Level(e) ==
  IF e.consecutive >= CriticalMinutes THEN "CRITICAL"
  ELSE IF e.consecutive >= WarningMinutes THEN "WARNING" ELSE e.fatigue

(* updateFatigueStatus returns without a word unless a session is open.    *)
Drive(e, minutes) ==
  LET driven == [e EXCEPT !.consecutive = @ + minutes, !.total = @ + minutes] IN
  IF e.online /\ e.session # NoSession
  THEN [driven EXCEPT !.fatigue = Level(driven)]
  ELSE e

(* Mutants: an exhausted courier starts a shift; a courier takes a second  *)
(* order.                                                                  *)
RefusedBut(c, e, drop) ==
  \/ c.op = "activate" /\ ~e.trained
  \/ c.op \in {"goOnline", "startShift"} /\
       (e.status # "ACTIVE" \/ e.online \/ (drop # "fatigue" /\ e.fatigue = "CRITICAL"))
  \/ c.op \in {"goOffline", "endShift"} /\ ~e.online
  \/ c.op = "goHome" /\ e.goHome >= MaxGoHomePerDay
  \/ c.op = "location" /\ ~e.online
  \/ c.op = "assignOrder" /\ (~e.online \/ (drop # "order" /\ e.order # NoOrder))
  \/ c.op = "completeOrder" /\ e.order = NoOrder
  \/ c.op = "takeBreak" /\ (e.fatigue # "CRITICAL" \/ ~e.online)
TiredMayDrive(c, e) == RefusedBut(c, e, "fatigue")
SecondOrder(c, e) == RefusedBut(c, e, "order")

(* The commands that throw.                                                *)
Refused(c, e) ==
  \/ c.op = "activate" /\ ~e.trained
  \/ c.op \in {"goOnline", "startShift"} /\
       (e.status # "ACTIVE" \/ e.online \/ e.fatigue = "CRITICAL")
  \/ c.op \in {"goOffline", "endShift"} /\ ~e.online
  \/ c.op = "goHome" /\ e.goHome >= MaxGoHomePerDay
  \/ c.op = "location" /\ ~e.online
  \/ c.op = "assignOrder" /\ (~e.online \/ e.order # NoOrder)
  \/ c.op = "completeOrder" /\ e.order = NoOrder
  \/ c.op = "takeBreak" /\ (e.fatigue # "CRITICAL" \/ ~e.online)

(* The profile after the domain method.                                    *)
AfterCommand(c, e) ==
  CASE c.op = "profile" -> e
    [] c.op = "train" -> [e EXCEPT !.trained = TRUE]
    [] c.op = "activate" -> [e EXCEPT !.status = "ACTIVE"]
    [] c.op = "deactivate" -> [GoOffline(e) EXCEPT !.status = "INACTIVE"]
    [] c.op = "suspend" -> [GoOffline(e) EXCEPT !.status = "SUSPENDED"]
    [] c.op \in {"goOnline", "startShift"} -> [e EXCEPT !.online = TRUE, !.session = now]
    [] c.op \in {"goOffline", "endShift"} -> GoOffline(e)
    [] c.op = "goHome" -> [GoOffline(e) EXCEPT !.goHome = @ + 1]
    [] c.op = "location" -> [e EXCEPT !.located = TRUE]
    [] c.op = "assignOrder" -> [e EXCEPT !.order = c.order]
    [] c.op = "completeOrder" -> [e EXCEPT !.order = NoOrder, !.orders = @ + 1]
    [] c.op = "fatigue" -> Drive(e, c.minutes)
    [] c.op = "takeBreak" -> [GoOffline(e) EXCEPT !.consecutive = 0, !.fatigue = "NORMAL"]
    [] c.op = "forceBreak" -> [GoOffline(e) EXCEPT !.fatigue = "CRITICAL"]

(* The commands that end the session, if one is open.                      *)
Releasing == {"deactivate", "suspend", "goOffline", "endShift", "goHome", "takeBreak",
              "forceBreak"}

(* History: what the log will say once the command is saved.               *)
WorthOf(c, e) ==
  [given |-> IF c.op = "assignOrder" THEN 1 ELSE 0,
   closed |-> IF c.op \in Releasing /\ e.session # NoSession THEN 1 ELSE 0,
   reported |-> IF c.op = "fatigue" /\ e.online THEN c.minutes ELSE 0]

-----------------------------------------------------------------------------
(* Handlers.                                                               *)

Finish(r) ==
  /\ pc' = [pc EXCEPT ![r] = "idle"]
  /\ target' = [target EXCEPT ![r] = NoDriver]
  /\ ent' = [ent EXCEPT ![r] = Absent]
  /\ base' = [base EXCEPT ![r] = Absent]
  /\ worth' = [worth EXCEPT ![r] = Nothing]

Busy(d) == \E s \in Request : target[s] = d

Disturb(d) == IF Busy(d) THEN overlapped \cup {d} ELSE overlapped

(* The handler goes on with what it made of the profile in memory.         *)
Start(r, d, e, w) ==
  /\ pc[r] = "idle"
  /\ started < MaxRequests
  /\ started' = started + 1
  /\ pc' = [pc EXCEPT ![r] = "select"]
  /\ target' = [target EXCEPT ![r] = d]
  /\ ent' = [ent EXCEPT ![r] = e]
  /\ worth' = [worth EXCEPT ![r] = w]
  /\ overlapped' = Disturb(d)
  /\ UNCHANGED <<row, now, base, log>>

(* A uuid nothing refers to.                                               *)
Fresh(d) == row[d] = Absent /\ ~Busy(d) /\ d \notin overlapped

(* POST /drivers: nobody has a profile for this user.                      *)
CreateDriver(r, d, u) ==
  /\ Fresh(d)
  /\ \A x \in Driver : row[x].user # u
  /\ Start(r, d, NewDriver(u), Nothing)

(* findByIdOrFail and the domain method.                                   *)
FindDriver(r, d, c) ==
  /\ row[d] # Absent
  /\ ~Refused(c, row[d])
  /\ Start(r, d, AfterCommand(c, row[d]), WorthOf(c, row[d]))

(* DELETE /drivers/:id looks at nothing.                                   *)
DeleteDriver(d) ==
  /\ row[d] # Absent
  /\ started < MaxRequests
  /\ started' = started + 1
  /\ row' = [row EXCEPT ![d] = Absent]
  /\ log' = [log EXCEPT ![d] = Blank]
  /\ overlapped' = Disturb(d)
  /\ UNCHANGED <<now, memory>>

SaveSelect(r) ==
  /\ pc[r] = "select"
  /\ pc' = [pc EXCEPT ![r] = "update"]
  /\ base' = [base EXCEPT ![r] = row[target[r]]]
  /\ UNCHANGED <<row, now, target, ent, worth, started, log, overlapped>>

(* The columns that differ from the selected row are written.              *)
Merged(e, b, current) ==
  LET Column(mine, read, theirs) == IF mine # read THEN mine ELSE theirs IN
  [user |-> current.user,
   status |-> Column(e.status, b.status, current.status),
   online |-> Column(e.online, b.online, current.online),
   session |-> Column(e.session, b.session, current.session),
   total |-> Column(e.total, b.total, current.total),
   consecutive |-> Column(e.consecutive, b.consecutive, current.consecutive),
   fatigue |-> Column(e.fatigue, b.fatigue, current.fatigue),
   goHome |-> Column(e.goHome, b.goHome, current.goHome),
   order |-> Column(e.order, b.order, current.order),
   orders |-> Column(e.orders, b.orders, current.orders),
   trained |-> Column(e.trained, b.trained, current.trained),
   located |-> Column(e.located, b.located, current.located)]

(* A row that was not there is inserted, unless the unique index on the    *)
(* user finds another; one that is gone since is not updated.              *)
(* Mutant: there is no such index.                                         *)
NoIndex(d, u) == TRUE
InsertAllowed(d, u) == \A x \in Driver \ {d} : row[x].user # u

SaveUpdate(r) ==
  LET d == target[r] IN
  /\ pc[r] = "update"
  /\ row' = IF base[r] = Absent
            THEN IF InsertAllowed(d, ent[r].user) /\ row[d] = Absent
                 THEN [row EXCEPT ![d] = ent[r]] ELSE row
            ELSE IF row[d] = Absent THEN row
            ELSE [row EXCEPT ![d] = Merged(ent[r], base[r], row[d])]
  /\ log' = [log EXCEPT ![d].given = @ + worth[r].given,
                        ![d].closed = @ + worth[r].closed,
                        ![d].reported = @ + worth[r].reported]
  /\ Finish(r)
  /\ UNCHANGED <<now, started, overlapped>>

(* The process dies, or the database fails, before the next query.         *)
Abort(r) ==
  /\ pc[r] # "idle"
  /\ Finish(r)
  /\ UNCHANGED <<row, now, started, log, overlapped>>

(* Half a minute passes; handlers take no time that counts.                *)
Tick ==
  /\ now < MaxClock
  /\ \A r \in Request : pc[r] = "idle"
  /\ now' = now + 1
  /\ log' = [d \in Driver |->
               [log[d] EXCEPT !.duty = IF row[d].online THEN @ + 1 ELSE @]]
  /\ UNCHANGED <<row, memory, started, overlapped>>

Next ==
  \/ Tick
  \/ \E d \in Driver : DeleteDriver(d)
  \/ \E r \in Request :
       \/ \E d \in Driver :
            \/ \E u \in User : CreateDriver(r, d, u)
            \/ \E c \in Command : FindDriver(r, d, c)
       \/ SaveSelect(r)
       \/ SaveUpdate(r)
       \/ Abort(r)

Spec == Init /\ [][Next]_vars

-----------------------------------------------------------------------------
(* Properties.                                                             *)

Duty == INSTANCE CourierDuty WITH
  status <- [d \in Driver |-> row[d].status],
  online <- [d \in Driver |-> row[d].online],
  order <- [d \in Driver |-> row[d].order],
  fatigue <- [d \in Driver |-> row[d].fatigue]

(* A courier no two handlers worked on at once keeps the promise of        *)
(* CourierDuty at every step of the row, crashes included.                 *)
UndisturbedFollowsDuty ==
  [][\A d \in Driver : d \in overlapped' \/ Duty!Same(d) \/ Duty!Step(d)]_vars

(* Online, active and in a session go together.                            *)
OnDutyTogether ==
  \A d \in Driver \ overlapped :
    /\ row[d].online <=> row[d].session # NoSession
    /\ row[d].online => row[d].status = "ACTIVE" /\ row[d].trained

(* Every assignment that was answered with success is the current order or *)
(* was completed: none is overwritten by another handler's stale copy.     *)
AssignmentsAccounted ==
  \A d \in Driver \ overlapped :
    log[d].given = row[d].orders + (IF row[d].order = NoOrder THEN 0 ELSE 1)

(* Whatever fatigue reports add, the day's total never exceeds the whole   *)
(* minutes online and reported; and it falls short of the time online by   *)
(* less than a minute for each session that ended.                         *)
Timed(e, l) ==
  LET total == TicksPerMinute * e.total + Open(e) IN
  /\ total <= l.duty + TicksPerMinute * l.reported
  /\ l.duty <= total + (TicksPerMinute - 1) * l.closed

(* The day's total tells how long the courier was online.                  *)
EveryMinuteCounted == \A d \in Driver \ overlapped : Timed(row[d], log[d])

(* However handlers interleave, a user has one profile.                    *)
OneProfilePerUser ==
  \A d, x \in Driver : row[d].user = row[x].user /\ row[d] # Absent => d = x

(* What driver.aggregate.ts and its tests say of an exhausted driver: a    *)
(* break, or the reset of the day "(cron job)", ends the exhaustion.  Every*)
(* method that something calls is a command here; dailyReset would be one. *)
ExhaustedMayRest ==
  \A d \in Driver \ overlapped :
    row[d].status = "ACTIVE" /\ row[d].fatigue = "CRITICAL" =>
      \E c \in Command :
        ~Refused(c, row[d]) /\ AfterCommand(c, row[d]).fatigue # "CRITICAL"

-----------------------------------------------------------------------------
(* The inductive invariant behind the properties above.                    *)

(* What is true of a row whose courier has this log.                       *)
Accounted(e, l) ==
  /\ e.online <=> e.session # NoSession
  /\ e.online => e.status = "ACTIVE" /\ e.trained
  /\ e.status = "ACTIVE" => e.trained
  /\ l.given = e.orders + (IF e.order = NoOrder THEN 0 ELSE 1)
  /\ e.session # NoSession => e.session <= now
  /\ Timed(e, l)
  /\ e.goHome <= MaxGoHomePerDay

(* The handler alone on a courier saves what a command makes of the row.   *)
HandlerCoherent(r, d) ==
  /\ \/ /\ row[d] = Absent /\ worth[r] = Nothing
        /\ \E u \in User : ent[r] = NewDriver(u)
     \/ /\ row[d] # Absent
        /\ \E c \in Command : /\ ~Refused(c, row[d])
                              /\ ent[r] = AfterCommand(c, row[d])
                              /\ worth[r] = WorthOf(c, row[d])
  /\ pc[r] = "update" => base[r] = row[d]
  /\ \A s \in Request : target[s] = d => s = r

DriverCoherent(d) ==
  /\ Accounted(row[d], log[d])
  /\ \A r \in Request : target[r] = d => HandlerCoherent(r, d)

Coherent ==
  /\ \A r \in Request : pc[r] = "idle" => target[r] = NoDriver
  /\ \A d \in Driver \ overlapped : DriverCoherent(d)

(* A handler alone on a courier knows the row; no assignment is lost, the  *)
(* day's total tells the time online, nobody is on duty half, and a user   *)
(* has one profile.                                                        *)
Inv == /\ TypeOK /\ Coherent /\ OneProfilePerUser
       /\ AssignmentsAccounted /\ EveryMinuteCounted /\ OnDutyTogether
=============================================================================
