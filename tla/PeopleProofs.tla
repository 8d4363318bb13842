---------------------------- MODULE PeopleProofs ----------------------------
(***************************************************************************)
(* Proofs about the two services that know a courier and about the browser *)
(* that keeps a login.  First DriverStore, for any couriers, handlers,     *)
(* commands and thresholds: types, what a row that is there looks like,    *)
(* and that a handler alone on a courier keeps the courier's account.      *)
(* Then Identity: what an account that was opened keeps, that handlers and *)
(* pages take nobody for someone else, and that a handler alone on an      *)
(* account saves what it was asked for.  Then Browser: where sessions come *)
(* from and what a tab reads with.  At the end MCPeople, which is the      *)
(* three side by side.                                                     *)
(***************************************************************************)
EXTENDS MCPeople, TLAPS
-----------------------------------------------------------------------------
(* The aggregate.                                                          *)

(* A session in a row did not start in the future.                         *)
Past(e) == e.session # NoSession => e.session <= now

(* The fields of a command.                                                *)
LEMMA CommandFields ==
  ASSUME NEW c \in Command
  PROVE  /\ c.op \in {"profile", "train", "activate", "deactivate", "suspend", "goOnline",
                      "goOffline", "goHome", "location", "completeOrder", "takeBreak",
                      "forceBreak", "startShift", "endShift", "assignOrder", "fatigue"}
         /\ c.op = "assignOrder" => c.order \in Order
         /\ c.op = "fatigue" => c.minutes \in Nat
<1>1. CASE c \in [op : {"assignOrder"}, order : Order, minutes : {0}] BY <1>1
<1>2. CASE c \in [op : {"fatigue"}, order : {NoOrder}, minutes : Reported]
  BY <1>2, ReportedAssumption
<1>3. CASE c \in [op : {"profile", "train", "activate", "deactivate", "suspend", "goOnline",
                        "goOffline", "goHome", "location", "completeOrder", "takeBreak",
                        "forceBreak", "startShift", "endShift"},
                  order : {NoOrder}, minutes : {0}]
  BY <1>3
<1> QED BY <1>1, <1>2, <1>3 DEF Command

(* The rows the code starts from have their types.                         *)
LEMMA RowsTyped ==
  /\ Absent \in Row /\ Past(Absent) /\ Absent.user = NoUser /\ Absent.status = "NONE"
  /\ \A u \in User : /\ NewDriver(u) \in Row /\ Past(NewDriver(u))
                     /\ NewDriver(u).user = u /\ NewDriver(u).status = "INACTIVE"
                     /\ NewDriver(u).online = FALSE /\ NewDriver(u).session = NoSession
                     /\ NewDriver(u).total = 0 /\ NewDriver(u).goHome = 0
                     /\ NewDriver(u).fatigue = "NORMAL" /\ NewDriver(u).order = NoOrder
                     /\ NewDriver(u).orders = 0
<1>1. Absent \in Row /\ Past(Absent) /\ Absent.user = NoUser /\ Absent.status = "NONE"
  BY DEF Absent, Row, FatigueLevel, Past
<1>2. /\ Absent.online = FALSE /\ Absent.session = NoSession /\ Absent.total = 0
      /\ Absent.goHome = 0 /\ Absent.fatigue = "NORMAL" /\ Absent.order = NoOrder
      /\ Absent.orders = 0
  BY DEF Absent
<1> QED BY <1>1, <1>2 DEF NewDriver, Row, Status, Past

(* Whole minutes are half the ticks, or half a minute short of that.       *)
LEMMA MinutesAre ==
  ASSUME NEW t \in Nat
  PROVE  /\ Minutes(t) \in Nat
         /\ TicksPerMinute * Minutes(t) <= t
         /\ t <= TicksPerMinute * Minutes(t) + (TicksPerMinute - 1)
BY DEF Minutes, TicksPerMinute

(* Going offline closes the session and counts its whole minutes.          *)
LEMMA GoOfflineIs ==
  ASSUME now \in Nat, NEW e \in Row, Past(e)
  PROVE  LET f == GoOffline(e)
             minutes == Minutes(Open(e)) IN
         /\ f \in Row /\ f.online = FALSE /\ f.session = NoSession
         /\ f.total = e.total + minutes /\ minutes \in Nat
         /\ f.user = e.user /\ f.status = e.status /\ f.fatigue = e.fatigue
         /\ f.goHome = e.goHome /\ f.order = e.order /\ f.orders = e.orders
         /\ f.trained = e.trained
<1> DEFINE minutes == Minutes(Open(e))
<1>1. minutes \in Nat
  <2>1. Open(e) \in Nat BY DEF Past, Row, Open
  <2> QED BY <2>1, MinutesAre
<1>0. PICK t \in Nat, k \in Nat : t = e.total + minutes /\ k = e.consecutive + minutes
  BY <1>1 DEF Row
<1> DEFINE g == [e EXCEPT !.total = t, !.consecutive = k, !.session = NoSession]
<1>2. ReleaseSession(e) = g BY <1>0 DEF ReleaseSession
<1>3. GoOffline(e) = [g EXCEPT !.online = FALSE] BY <1>2 DEF GoOffline
<1> HIDE DEF minutes
<1>4. /\ g \in Row /\ g.session = NoSession /\ g.total = t
      /\ g.user = e.user /\ g.status = e.status /\ g.fatigue = e.fatigue
      /\ g.goHome = e.goHome /\ g.order = e.order /\ g.orders = e.orders
      /\ g.trained = e.trained
  BY DEF Row
<1> HIDE DEF g
<1>5. LET f == [g EXCEPT !.online = FALSE] IN
      /\ f \in Row /\ f.online = FALSE /\ f.session = NoSession
      /\ f.total = t
      /\ f.user = e.user /\ f.status = e.status /\ f.fatigue = e.fatigue
      /\ f.goHome = e.goHome /\ f.order = e.order /\ f.orders = e.orders
      /\ f.trained = e.trained
  BY <1>4 DEF Row
<1> QED BY <1>1, <1>0, <1>3, <1>5 DEF minutes

(* A session that ends leaves the day's total as good as it was.           *)
LEMMA ReleasedTimed ==
  ASSUME now \in Nat, NEW e \in Row, Past(e), NEW f \in Row, NEW l \in Log, NEW m \in Log,
         Timed(e, l), f.session = NoSession, f.total = e.total + Minutes(Open(e)),
         m.duty = l.duty, m.reported = l.reported,
         m.closed = l.closed + (IF e.session = NoSession THEN 0 ELSE 1)
  PROVE  Timed(f, m)
<1>1. Open(e) \in Nat /\ (e.session = NoSession => Open(e) = 0) /\ Open(f) = 0
  BY DEF Past, Row, Open
<1>2. PICK k \in Nat : k = Minutes(Open(e)) /\ 2 * k <= Open(e) /\ Open(e) <= 2 * k + 1
  BY <1>1, MinutesAre DEF TicksPerMinute
<1>3. /\ e.total \in Nat /\ f.total = e.total + k
      /\ l.duty \in Nat /\ l.reported \in Nat /\ l.closed \in Nat
  BY <1>2 DEF Row, Log
<1>4. /\ 2 * e.total + Open(e) <= l.duty + 2 * l.reported
      /\ l.duty <= 2 * e.total + Open(e) + l.closed
  BY <1>1, <1>3 DEF Timed, TicksPerMinute
<1>5. /\ 2 * f.total <= l.duty + 2 * l.reported
      /\ l.duty <= 2 * f.total + m.closed
  <2>1. CASE e.session = NoSession BY <1>1, <1>2, <1>3, <1>4, <2>1
  <2>2. CASE e.session # NoSession BY <1>1, <1>2, <1>3, <1>4, <2>2
  <2> QED BY <2>1, <2>2
<1>6. f.total \in Nat /\ m.closed \in Nat BY DEF Row, Log
<1> QED BY <1>1, <1>3, <1>5, <1>6 DEF Timed, TicksPerMinute

(* Driving counts minutes and may raise the fatigue, nothing else.         *)
LEMMA DriveIs ==
  ASSUME NEW e \in Row, NEW minutes \in Nat
  PROVE  LET f == Drive(e, minutes) IN
         /\ f \in Row
         /\ f.user = e.user /\ f.status = e.status /\ f.online = e.online
         /\ f.session = e.session /\ f.goHome = e.goHome /\ f.order = e.order
         /\ f.orders = e.orders /\ f.trained = e.trained
         /\ f.total = e.total + (IF e.online /\ e.session # NoSession THEN minutes ELSE 0)
         /\ f.fatigue \in {e.fatigue, "WARNING", "CRITICAL"}
         /\ ~e.online => f.fatigue = e.fatigue
         /\ f.fatigue = "CRITICAL" => e.fatigue = "CRITICAL" \/ f.consecutive >= CriticalMinutes
         /\ f.consecutive >= e.consecutive /\ f.consecutive \in Nat /\ e.consecutive \in Nat
         /\ e.consecutive >= CriticalMinutes /\ e.fatigue = "CRITICAL" => f.fatigue = "CRITICAL"
<1>0. PICK t \in Nat, k \in Nat : t = e.total + minutes /\ k = e.consecutive + minutes
  BY DEF Row
<1> DEFINE driven == [e EXCEPT !.consecutive = k, !.total = t]
<1>1. /\ driven \in Row
      /\ driven.user = e.user /\ driven.status = e.status /\ driven.online = e.online
      /\ driven.session = e.session /\ driven.goHome = e.goHome
      /\ driven.order = e.order /\ driven.orders = e.orders
      /\ driven.trained = e.trained /\ driven.fatigue = e.fatigue
      /\ driven.total = t /\ driven.consecutive = k
  BY DEF Row
<1>2. Drive(e, minutes) = IF e.online /\ e.session # NoSession
                          THEN [driven EXCEPT !.fatigue = Level(driven)] ELSE e
  BY <1>0 DEF Drive
<1> HIDE DEF driven
<1>3. /\ Level(driven) \in {e.fatigue, "WARNING", "CRITICAL"}
      /\ k \in Nat /\ e.consecutive \in Nat /\ k >= e.consecutive
      /\ Level(driven) = "CRITICAL" => e.fatigue = "CRITICAL" \/ k >= CriticalMinutes
      /\ e.consecutive >= CriticalMinutes => Level(driven) = "CRITICAL"
  BY <1>0, <1>1, MinutesAssumption DEF Level, Row
<1>4. CASE e.online /\ e.session # NoSession
  <2>1. LET f == [driven EXCEPT !.fatigue = Level(driven)] IN
        /\ f \in Row
        /\ f.user = e.user /\ f.status = e.status /\ f.online = e.online
        /\ f.session = e.session /\ f.goHome = e.goHome /\ f.order = e.order
        /\ f.orders = e.orders /\ f.trained = e.trained
        /\ f.total = t /\ f.fatigue = Level(driven) /\ f.consecutive = k
    BY <1>1, <1>3 DEF Row, FatigueLevel
  <2> QED BY <1>0, <1>2, <1>3, <1>4, <2>1
<1>5. CASE ~(e.online /\ e.session # NoSession)
  BY <1>2, <1>5 DEF Row
<1> QED BY <1>4, <1>5

(* A step of CourierDuty, of one row.                                      *)
DutyAllows(e, f) ==
  \/ /\ f.status = e.status /\ f.online = e.online /\ f.order = e.order
     /\ f.fatigue = e.fatigue
  \/ /\ e.status = "ACTIVE" /\ f.status = "ACTIVE" /\ ~e.online /\ f.online
     /\ e.fatigue # "CRITICAL" /\ f.fatigue = e.fatigue /\ f.order = e.order
  \/ /\ e.status # "NONE" /\ f.status \in {e.status, "INACTIVE", "SUSPENDED"}
     /\ ~f.online /\ f.order = e.order
     /\ \/ f.fatigue \in {e.fatigue, "CRITICAL"}
        \/ e.online /\ e.fatigue = "CRITICAL" /\ f.fatigue = "NORMAL"
  \/ /\ e.online /\ f.online /\ f.status = e.status /\ f.order = e.order
     /\ \/ e.fatigue = "NORMAL" /\ f.fatigue \in {"WARNING", "CRITICAL"}
        \/ e.fatigue = "WARNING" /\ f.fatigue = "CRITICAL"
  \/ /\ e.online /\ f.online /\ f.status = e.status /\ f.fatigue = e.fatigue
     /\ e.order = NoOrder /\ f.order \in Order
  \/ /\ f.online = e.online /\ f.status = e.status /\ f.fatigue = e.fatigue
     /\ e.order \in Order /\ f.order = NoOrder
  \/ /\ e.status # "NONE" /\ f.status = "ACTIVE"
     /\ ~e.online /\ ~f.online /\ f.order = e.order /\ f.fatigue = e.fatigue

(* What a row and its log have in common, before and after a command.      *)
Fits(e, f, c, l, m) ==
  /\ m.given = l.given + WorthOf(c, e).given
  /\ m.closed = l.closed + WorthOf(c, e).closed
  /\ m.reported = l.reported + WorthOf(c, e).reported
  /\ m.duty = l.duty

(* Who is exhausted on duty is so by the minutes driven.                   *)
Tired(e) == e.online /\ e.fatigue = "CRITICAL" => e.consecutive >= CriticalMinutes

Goes(e, f, c) ==
  /\ f \in Row /\ Past(f) /\ f.user = e.user /\ f.status # "NONE"
  /\ \A l, m \in Log : Accounted(e, l) /\ Tired(e) /\ Fits(e, f, c, l, m) =>
       DutyAllows(e, f) /\ Accounted(f, m) /\ Tired(f)

(* Every command that is not refused keeps the courier's account, and does *)
(* what CourierDuty allows.                                                *)
LEMMA AfterCommandGoes ==
  ASSUME now \in Nat, NEW e \in Row, Past(e), e.status # "NONE",
         NEW c \in Command, ~Refused(c, e)
  PROVE  Goes(e, AfterCommand(c, e), c)
<1> DEFINE f == AfterCommand(c, e)
           w == WorthOf(c, e)
<1>1. w = [given |-> IF c.op = "assignOrder" THEN 1 ELSE 0,
           closed |-> IF c.op \in Releasing /\ e.session # NoSession THEN 1 ELSE 0,
           reported |-> IF c.op = "fatigue" /\ e.online THEN c.minutes ELSE 0]
  BY DEF WorthOf
<1>2. /\ c.op = "assignOrder" => w.given = 1
      /\ c.op # "assignOrder" => w.given = 0
      /\ c.op \in Releasing /\ e.session # NoSession => w.closed = 1
      /\ ~(c.op \in Releasing /\ e.session # NoSession) => w.closed = 0
      /\ ~(c.op = "fatigue" /\ e.online) => w.reported = 0
      /\ c.op = "fatigue" /\ e.online => w.reported = c.minutes
  BY <1>1
<1>3. NoOrder \notin Order /\ NoSession \notin Nat /\ MaxGoHomePerDay = 2
  BY NullAssumption DEF MaxGoHomePerDay
<1>4. /\ e.goHome \in Nat /\ e.total \in Nat /\ e.orders \in Nat
      /\ e.order \in Order \cup {NoOrder} /\ e.session \in Nat \cup {NoSession}
      /\ e.status \in {"INACTIVE", "ACTIVE", "SUSPENDED"}
      /\ e.fatigue \in {"NORMAL", "WARNING", "CRITICAL"}
  BY DEF Row, Status, FatigueLevel
<1> HIDE DEF w
<1>5. CASE c.op = "profile"
  <2>1. f = e BY <1>5 DEF AfterCommand
  <2> QED BY <1>2, <1>5, <2>1 DEF Goes, Fits, DutyAllows, Accounted, Timed, Releasing, Tired, Log, w
<1>6. CASE c.op = "train"
  <2>1. f = [e EXCEPT !.trained = TRUE] BY <1>6 DEF AfterCommand
  <2> HIDE DEF f
  <2>2. /\ f \in Row /\ f.trained /\ f.user = e.user /\ f.status = e.status
        /\ f.online = e.online /\ f.session = e.session /\ f.total = e.total
        /\ f.fatigue = e.fatigue /\ f.goHome = e.goHome /\ f.order = e.order
        /\ f.orders = e.orders /\ f.consecutive = e.consecutive
    BY <2>1 DEF Row
  <2> QED BY <1>2, <1>6, <2>2 DEF Goes, Fits, DutyAllows, Accounted, Timed, Open, Releasing, Tired, Log, Past,
     w, f
<1>7. CASE c.op = "activate"
  <2>1. f = [e EXCEPT !.status = "ACTIVE"] BY <1>7 DEF AfterCommand
  <2> HIDE DEF f
  <2>2. /\ f \in Row /\ f.user = e.user
        /\ f.status = "ACTIVE" /\ f.online = e.online /\ f.order = e.order
        /\ f.session = e.session /\ f.total = e.total /\ f.orders = e.orders
        /\ f.fatigue = e.fatigue
        /\ f.goHome = e.goHome /\ f.trained = e.trained
        /\ f.consecutive = e.consecutive
    BY <1>3, <1>7, <2>1, CommandFields DEF Row, Status
  <2> QED BY <1>2, <1>3, <1>4, <1>7, <2>2
        DEF Goes, Fits, DutyAllows, Accounted, Timed, Open, Releasing, Tired, Log, Past, Refused,
            w, f
<1>8. CASE c.op \in {"goOnline", "startShift"}
  <2>1. f = [e EXCEPT !.online = TRUE, !.session = now] BY <1>8 DEF AfterCommand
  <2> HIDE DEF f
  <2>2. /\ f \in Row /\ f.user = e.user
        /\ f.status = e.status /\ f.online /\ f.order = e.order
        /\ f.session = now /\ f.total = e.total /\ f.orders = e.orders
        /\ f.fatigue = e.fatigue
        /\ f.goHome = e.goHome /\ f.trained = e.trained
        /\ f.consecutive = e.consecutive
    BY <1>3, <1>8, <2>1, CommandFields DEF Row, Status
  <2>3. ASSUME NEW l \in Log, NEW m \in Log, Accounted(e, l), Tired(e),
               Fits(e, f, c, l, m)
        PROVE  DutyAllows(e, f) /\ Accounted(f, m) /\ Tired(f)
    <3>1. /\ e.status = "ACTIVE" /\ ~e.online /\ e.fatigue # "CRITICAL"
          /\ e.session = NoSession /\ e.trained
      BY <1>8, <2>3 DEF Refused, Accounted
    <3>2. DutyAllows(e, f) BY <2>2, <3>1 DEF DutyAllows
    <3>3. Timed(f, m)
      <4>1. Open(e) = 0 /\ Open(f) = 0 BY <2>2, <3>1, <1>3 DEF Open
      <4>2. m.duty = l.duty /\ m.reported = l.reported /\ m.closed = l.closed
        BY <1>2, <1>8, <2>3 DEF Fits, Releasing, Log, w
      <4> QED BY <2>2, <2>3, <4>1, <4>2 DEF Accounted, Timed
    <3>4. Accounted(f, m)
      BY <1>2, <1>3, <1>4, <1>8, <2>2, <2>3, <3>1, <3>3 DEF Fits, Accounted, Log, w
    <3> QED BY <2>2, <3>1, <3>2, <3>4 DEF Tired
  <2>4. Past(f) BY <2>2 DEF Past
  <2> QED BY <1>4, <2>2, <2>3, <2>4 DEF Goes, f
<1>9. CASE c.op = "location"
  <2>1. f = [e EXCEPT !.located = TRUE] BY <1>9 DEF AfterCommand
  <2> HIDE DEF f
  <2>2. /\ f \in Row /\ f.user = e.user
        /\ f.status = e.status /\ f.online = e.online /\ f.order = e.order
        /\ f.session = e.session /\ f.total = e.total /\ f.orders = e.orders
        /\ f.fatigue = e.fatigue
        /\ f.goHome = e.goHome /\ f.trained = e.trained
        /\ f.consecutive = e.consecutive
    BY <1>3, <1>9, <2>1, CommandFields DEF Row, Status
  <2> QED BY <1>2, <1>3, <1>4, <1>9, <2>2
        DEF Goes, Fits, DutyAllows, Accounted, Timed, Open, Releasing, Tired, Log, Past, Refused,
            w, f
<1>10. CASE c.op = "assignOrder"
  <2>1. f = [e EXCEPT !.order = c.order] BY <1>10 DEF AfterCommand
  <2> HIDE DEF f
  <2>2. /\ f \in Row /\ f.user = e.user
        /\ f.status = e.status /\ f.online = e.online /\ f.order = c.order
        /\ f.session = e.session /\ f.total = e.total /\ f.orders = e.orders
        /\ f.fatigue = e.fatigue
        /\ f.goHome = e.goHome /\ f.trained = e.trained
        /\ f.consecutive = e.consecutive
    BY <1>3, <1>10, <2>1, CommandFields DEF Row, Status
  <2> QED BY <1>2, <1>3, <1>4, <1>10, <2>2, CommandFields
        DEF Goes, Fits, DutyAllows, Accounted, Timed, Open, Releasing, Tired, Log, Past, Refused,
            w, f
<1>11. CASE c.op = "completeOrder"
  <2>0. PICK k \in Nat : k = e.orders + 1 BY <1>4
  <2>1. f = [e EXCEPT !.order = NoOrder, !.orders = k] BY <2>0, <1>11 DEF AfterCommand
  <2> HIDE DEF f
  <2>2. /\ f \in Row /\ f.user = e.user
        /\ f.status = e.status /\ f.online = e.online /\ f.order = NoOrder
        /\ f.session = e.session /\ f.total = e.total /\ f.orders = k
        /\ f.fatigue = e.fatigue
        /\ f.goHome = e.goHome /\ f.trained = e.trained
        /\ f.consecutive = e.consecutive
    BY <1>3, <1>11, <2>1, CommandFields DEF Row, Status
  <2> QED BY <2>0, <1>2, <1>3, <1>4, <1>11, <2>2
        DEF Goes, Fits, DutyAllows, Accounted, Timed, Open, Releasing, Tired, Log, Past, Refused,
            w, f
<1> DEFINE g == GoOffline(e)
           minutes == Minutes(Open(e))
<1>12. /\ g \in Row /\ g.online = FALSE /\ g.session = NoSession
       /\ g.total = e.total + minutes /\ minutes \in Nat
       /\ g.user = e.user /\ g.status = e.status /\ g.fatigue = e.fatigue
       /\ g.goHome = e.goHome /\ g.order = e.order /\ g.orders = e.orders
       /\ g.trained = e.trained
  BY GoOfflineIs
<1> HIDE DEF g, minutes
<1>20. ASSUME c.op \in Releasing, NEW h \in Row, h.session = NoSession,
              h.total = e.total + minutes, NEW l \in Log, NEW m \in Log, Timed(e, l),
              Fits(e, f, c, l, m)
       PROVE  Timed(h, m)
  <2>1. m.duty = l.duty /\ m.reported = l.reported + w.reported /\ m.closed = l.closed + w.closed
    BY <1>20 DEF Fits, w
  <2>2. w.reported = 0 /\ w.closed = IF e.session = NoSession THEN 0 ELSE 1
    BY <1>2, <1>20 DEF Releasing
  <2>3. m.reported = l.reported /\ m.closed = l.closed + (IF e.session = NoSession THEN 0 ELSE 1)
    <3>1. l.reported \in Nat BY DEF Log
    <3> QED BY <2>1, <2>2, <3>1
  <2> QED BY <1>20, <2>1, <2>3, ReleasedTimed DEF minutes
<1>13. CASE c.op = "deactivate"
  <2>1. f = [g EXCEPT !.status = "INACTIVE"] BY <1>13 DEF AfterCommand, g
  <2> HIDE DEF f
  <2>2. /\ f \in Row /\ f.user = e.user
        /\ f.status = "INACTIVE" /\ f.online = FALSE /\ f.order = e.order
        /\ f.session = NoSession /\ f.total = e.total + minutes /\ f.orders = e.orders
        /\ f.fatigue = e.fatigue /\ f.goHome = e.goHome /\ f.trained = e.trained
    BY <1>12, <1>13, <2>1 DEF Row, Status, FatigueLevel
  <2>3. ASSUME NEW l \in Log, NEW m \in Log, Accounted(e, l), Tired(e),
               Fits(e, f, c, l, m)
        PROVE  DutyAllows(e, f) /\ Accounted(f, m) /\ Tired(f)
    <3>1. DutyAllows(e, f) BY <1>4, <1>13, <2>2, <2>3 DEF DutyAllows, Accounted, Refused
    <3>2. Timed(f, m) BY <1>13, <1>20, <2>2, <2>3 DEF Accounted, Releasing
    <3>3. Accounted(f, m)
      BY <1>2, <1>3, <1>4, <1>13, <2>2, <2>3, <3>2 DEF Fits, Accounted, Log, Refused, w
    <3> QED BY <2>2, <3>1, <3>3 DEF Tired
  <2> QED BY <1>4, <2>2, <2>3 DEF Goes, Past, f
<1>14. CASE c.op = "suspend"
  <2>1. f = [g EXCEPT !.status = "SUSPENDED"] BY <1>14 DEF AfterCommand, g
  <2> HIDE DEF f
  <2>2. /\ f \in Row /\ f.user = e.user
        /\ f.status = "SUSPENDED" /\ f.online = FALSE /\ f.order = e.order
        /\ f.session = NoSession /\ f.total = e.total + minutes /\ f.orders = e.orders
        /\ f.fatigue = e.fatigue /\ f.goHome = e.goHome /\ f.trained = e.trained
    BY <1>12, <1>14, <2>1 DEF Row, Status, FatigueLevel
  <2>3. ASSUME NEW l \in Log, NEW m \in Log, Accounted(e, l), Tired(e),
               Fits(e, f, c, l, m)
        PROVE  DutyAllows(e, f) /\ Accounted(f, m) /\ Tired(f)
    <3>1. DutyAllows(e, f) BY <1>4, <1>14, <2>2, <2>3 DEF DutyAllows, Accounted, Refused
    <3>2. Timed(f, m) BY <1>14, <1>20, <2>2, <2>3 DEF Accounted, Releasing
    <3>3. Accounted(f, m)
      BY <1>2, <1>3, <1>4, <1>14, <2>2, <2>3, <3>2 DEF Fits, Accounted, Log, Refused, w
    <3> QED BY <2>2, <3>1, <3>3 DEF Tired
  <2> QED BY <1>4, <2>2, <2>3 DEF Goes, Past, f
<1>15. CASE c.op \in {"goOffline", "endShift"}
  <2>1. f = g BY <1>15 DEF AfterCommand, g
  <2> HIDE DEF f
  <2>2. /\ f \in Row /\ f.user = e.user
        /\ f.status = e.status /\ f.online = FALSE /\ f.order = e.order
        /\ f.session = NoSession /\ f.total = e.total + minutes /\ f.orders = e.orders
        /\ f.fatigue = e.fatigue /\ f.goHome = e.goHome /\ f.trained = e.trained
    BY <1>12, <1>15, <2>1 DEF Row, Status, FatigueLevel
  <2>3. ASSUME NEW l \in Log, NEW m \in Log, Accounted(e, l), Tired(e),
               Fits(e, f, c, l, m)
        PROVE  DutyAllows(e, f) /\ Accounted(f, m) /\ Tired(f)
    <3>1. DutyAllows(e, f) BY <1>4, <1>15, <2>2, <2>3 DEF DutyAllows, Accounted, Refused
    <3>2. Timed(f, m) BY <1>15, <1>20, <2>2, <2>3 DEF Accounted, Releasing
    <3>3. Accounted(f, m)
      BY <1>2, <1>3, <1>4, <1>15, <2>2, <2>3, <3>2 DEF Fits, Accounted, Log, Refused, w
    <3> QED BY <2>2, <3>1, <3>3 DEF Tired
  <2> QED BY <1>4, <2>2, <2>3 DEF Goes, Past, f
<1>16. CASE c.op = "goHome"
  <2>1. f = [g EXCEPT !.goHome = @ + 1] BY <1>16 DEF AfterCommand, g
  <2> HIDE DEF f
  <2>2. /\ f \in Row /\ f.user = e.user
        /\ f.status = e.status /\ f.online = FALSE /\ f.order = e.order
        /\ f.session = NoSession /\ f.total = e.total + minutes /\ f.orders = e.orders
        /\ f.fatigue = e.fatigue /\ f.goHome = e.goHome + 1 /\ f.trained = e.trained
    BY <1>12, <1>16, <2>1 DEF Row, Status, FatigueLevel
  <2>3. ASSUME NEW l \in Log, NEW m \in Log, Accounted(e, l), Tired(e),
               Fits(e, f, c, l, m)
        PROVE  DutyAllows(e, f) /\ Accounted(f, m) /\ Tired(f)
    <3>1. DutyAllows(e, f) BY <1>4, <1>16, <2>2, <2>3 DEF DutyAllows, Accounted, Refused
    <3>2. Timed(f, m) BY <1>16, <1>20, <2>2, <2>3 DEF Accounted, Releasing
    <3>3. Accounted(f, m)
      BY <1>2, <1>3, <1>4, <1>16, <2>2, <2>3, <3>2 DEF Fits, Accounted, Log, Refused, w
    <3> QED BY <2>2, <3>1, <3>3 DEF Tired
  <2> QED BY <1>4, <2>2, <2>3 DEF Goes, Past, f
<1>17. CASE c.op = "takeBreak"
  <2>1. f = [g EXCEPT !.consecutive = 0, !.fatigue = "NORMAL"]
    BY <1>17 DEF AfterCommand, g
  <2> HIDE DEF f
  <2>2. /\ f \in Row /\ f.user = e.user
        /\ f.status = e.status /\ f.online = FALSE /\ f.order = e.order
        /\ f.session = NoSession /\ f.total = e.total + minutes /\ f.orders = e.orders
        /\ f.fatigue = "NORMAL" /\ f.goHome = e.goHome /\ f.trained = e.trained
    BY <1>12, <1>17, <2>1 DEF Row, Status, FatigueLevel
  <2>3. ASSUME NEW l \in Log, NEW m \in Log, Accounted(e, l), Tired(e),
               Fits(e, f, c, l, m)
        PROVE  DutyAllows(e, f) /\ Accounted(f, m) /\ Tired(f)
    <3>1. DutyAllows(e, f) BY <1>4, <1>17, <2>2, <2>3 DEF DutyAllows, Accounted, Refused
    <3>2. Timed(f, m) BY <1>17, <1>20, <2>2, <2>3 DEF Accounted, Releasing
    <3>3. Accounted(f, m)
      BY <1>2, <1>3, <1>4, <1>17, <2>2, <2>3, <3>2 DEF Fits, Accounted, Log, Refused, w
    <3> QED BY <2>2, <3>1, <3>3 DEF Tired
  <2> QED BY <1>4, <2>2, <2>3 DEF Goes, Past, f
<1>18. CASE c.op = "forceBreak"
  <2>1. f = [g EXCEPT !.fatigue = "CRITICAL"] BY <1>18 DEF AfterCommand, g
  <2> HIDE DEF f
  <2>2. /\ f \in Row /\ f.user = e.user
        /\ f.status = e.status /\ f.online = FALSE /\ f.order = e.order
        /\ f.session = NoSession /\ f.total = e.total + minutes /\ f.orders = e.orders
        /\ f.fatigue = "CRITICAL" /\ f.goHome = e.goHome /\ f.trained = e.trained
    BY <1>12, <1>18, <2>1 DEF Row, Status, FatigueLevel
  <2>3. ASSUME NEW l \in Log, NEW m \in Log, Accounted(e, l), Tired(e),
               Fits(e, f, c, l, m)
        PROVE  DutyAllows(e, f) /\ Accounted(f, m) /\ Tired(f)
    <3>1. DutyAllows(e, f) BY <1>4, <1>18, <2>2, <2>3 DEF DutyAllows, Accounted, Refused
    <3>2. Timed(f, m) BY <1>18, <1>20, <2>2, <2>3 DEF Accounted, Releasing
    <3>3. Accounted(f, m)
      BY <1>2, <1>3, <1>4, <1>18, <2>2, <2>3, <3>2 DEF Fits, Accounted, Log, Refused, w
    <3> QED BY <2>2, <3>1, <3>3 DEF Tired
  <2> QED BY <1>4, <2>2, <2>3 DEF Goes, Past, f
<1>19. CASE c.op = "fatigue"
  <2>1. f = Drive(e, c.minutes) BY <1>19 DEF AfterCommand
  <2>2. c.minutes \in Nat BY <1>19, CommandFields
  <2> HIDE DEF f
  <2>3. /\ f \in Row
        /\ f.user = e.user /\ f.status = e.status /\ f.online = e.online
        /\ f.session = e.session /\ f.goHome = e.goHome /\ f.order = e.order
        /\ f.orders = e.orders /\ f.trained = e.trained
        /\ f.total = e.total + (IF e.online /\ e.session # NoSession THEN c.minutes ELSE 0)
        /\ f.fatigue \in {e.fatigue, "WARNING", "CRITICAL"}
        /\ ~e.online => f.fatigue = e.fatigue
        /\ f.fatigue = "CRITICAL" => e.fatigue = "CRITICAL" \/ f.consecutive >= CriticalMinutes
        /\ f.consecutive >= e.consecutive /\ f.consecutive \in Nat /\ e.consecutive \in Nat
        /\ e.consecutive >= CriticalMinutes /\ e.fatigue = "CRITICAL" => f.fatigue = "CRITICAL"
    BY <2>1, <2>2, DriveIs
  <2>4. ASSUME NEW l \in Log, NEW m \in Log, Accounted(e, l), Tired(e),
               Fits(e, f, c, l, m)
        PROVE  DutyAllows(e, f) /\ Accounted(f, m) /\ Tired(f)
    <3>1. DutyAllows(e, f) BY <1>4, <2>3, <2>4 DEF DutyAllows, Accounted, Tired
    <3>2. Timed(f, m)
      <4>1. /\ m.duty = l.duty /\ m.closed = l.closed
            /\ m.reported = l.reported + (IF e.online THEN c.minutes ELSE 0)
        BY <1>2, <1>19, <2>4 DEF Fits, Releasing, Log, w
      <4>2. Open(f) = Open(e) /\ Open(e) \in Nat BY <2>3 DEF Open, Past, Row
      <4>3. e.online => e.session # NoSession BY <2>4 DEF Accounted
      <4>4. l.duty \in Nat /\ l.reported \in Nat /\ l.closed \in Nat BY DEF Log
      <4> QED BY <1>4, <2>2, <2>3, <2>4, <4>1, <4>2, <4>3, <4>4
              DEF Accounted, Timed, TicksPerMinute
    <3>4. Accounted(f, m)
      BY <1>2, <1>3, <1>4, <1>19, <2>2, <2>3, <2>4, <3>2 DEF Fits, Accounted, Log, w
    <3>3. Tired(f) BY <2>3, <2>4, MinutesAssumption DEF Tired
    <3> QED BY <3>1, <3>3, <3>4
  <2> QED BY <1>4, <2>3, <2>4 DEF Goes, Past, f
<1> QED
  BY CommandFields, <1>5, <1>6, <1>7, <1>8, <1>9, <1>10, <1>11, <1>13, <1>14, <1>15,
     <1>16, <1>17, <1>18, <1>19
  DEF f

-----------------------------------------------------------------------------
(* Types, and what a row that is there looks like.                         *)

Proper(e) == e.user \in User /\ e.status # "NONE"

Rows ==
  /\ \A d \in Driver : /\ Past(row[d])
                       /\ row[d] = Absent \/ Proper(row[d])
  /\ \A r \in Request : /\ Past(ent[r])
                        /\ pc[r] # "idle" => Proper(ent[r])
                        /\ pc[r] = "idle" <=> target[r] = NoDriver
  /\ OneProfilePerUser

(* The next minute makes no session start in the future.                   *)
LEMMA PastStays ==
  ASSUME now \in Nat, now' = now \/ now' = now + 1, NEW e \in Row, Past(e)
  PROVE  Past(e)'
BY DEF Past, Row

(* Written over the row that was loaded, a save leaves what is in memory.  *)
LEMMA MergedIs ==
  ASSUME now \in Nat, NEW e \in Row, NEW b \in Row, NEW current \in Row
  PROVE  LET f == Merged(e, b, current) IN
         /\ f \in Row /\ f.user = current.user
         /\ e.status # "NONE" /\ current.status # "NONE" => f.status # "NONE"
         /\ Past(e) /\ Past(current) => Past(f)
         /\ e.user = current.user /\ b = current => f = e
<1> DEFINE f == Merged(e, b, current)
<1>1. f \in Row BY DEF Merged, Row
<1>2. /\ f.user = current.user
      /\ e.status # "NONE" /\ current.status # "NONE" => f.status # "NONE"
  BY DEF Merged
<1>3. Past(e) /\ Past(current) => Past(f) BY DEF Past, Merged
<1>4. e.user = current.user /\ b = current => f = e BY DEF Merged, Row
<1> QED BY <1>1, <1>2, <1>3, <1>4

(* An update adds the worth of its command to the courier's log.           *)
LEMMA LogTyped ==
  ASSUME TypeOK, NEW r \in Request, NEW d \in Driver, d = target[r],
         log' = [log EXCEPT ![d].given = @ + worth[r].given,
                            ![d].closed = @ + worth[r].closed,
                            ![d].reported = @ + worth[r].reported]
  PROVE  /\ log' \in [Driver -> Log]
         /\ \A x \in Driver : x # d => log'[x] = log[x]
         /\ log'[d].given = log[d].given + worth[r].given
         /\ log'[d].closed = log[d].closed + worth[r].closed
         /\ log'[d].reported = log[d].reported + worth[r].reported
         /\ log'[d].duty = log[d].duty
<1>1. log[d] \in Log /\ worth[r] \in Worth BY DEF TypeOK
<1>2. PICK g \in Nat, h \in Nat, p \in Nat :
        /\ g = log[d].given + worth[r].given
        /\ h = log[d].closed + worth[r].closed
        /\ p = log[d].reported + worth[r].reported
  BY <1>1 DEF Log, Worth
<1>3. log' = [log EXCEPT ![d] = [log[d] EXCEPT !.given = g, !.closed = h, !.reported = p]]
  BY <1>1, <1>2 DEF TypeOK, Log
<1>4. [log[d] EXCEPT !.given = g, !.closed = h, !.reported = p] \in Log
  BY <1>1 DEF Log
<1> QED BY <1>1, <1>2, <1>3, <1>4 DEF TypeOK, Log

(* The empty table is well typed.                                          *)
LEMMA InitTyped == Init => TypeOK /\ Rows
<1> SUFFICES ASSUME Init PROVE TypeOK /\ Rows OBVIOUS
<1>1. Nothing \in Worth /\ Blank \in Log BY DEF Nothing, Worth, Blank, Log
<1>2. TypeOK BY <1>1, RowsTyped DEF Init, TypeOK
<1>3. Rows BY RowsTyped, NullAssumption DEF Init, Rows, OneProfilePerUser
<1> QED BY <1>2, <1>3

(* A handler that starts keeps the types and leaves the table alone.       *)
LEMMA StartTyped ==
  ASSUME TypeOK, Rows, NEW r \in Request, NEW d \in Driver, NEW e \in Row,
         NEW w \in Worth,
         Start(r, d, e, w), Past(e), Proper(e)
  PROVE  TypeOK' /\ Rows'
<1>1. TypeOK' BY DEF TypeOK, Start, Disturb
<1>2. Rows' BY NullAssumption DEF TypeOK, Start, Rows, Past, Proper, OneProfilePerUser
<1> QED BY <1>1, <1>2

(* A handler that ends keeps the types if its update does.                 *)
LEMMA FinishTyped ==
  ASSUME TypeOK, Rows, NEW r \in Request, Finish(r), UNCHANGED <<now, started,
         overlapped>>,
         row' \in [Driver -> Row], log' \in [Driver -> Log],
         \A d \in Driver : /\ Past(row'[d])
                           /\ row'[d] = Absent \/ Proper(row'[d]),
         OneProfilePerUser'
  PROVE  TypeOK' /\ Rows'
<1>1. Nothing \in Worth BY DEF Nothing, Worth
<1>2. TypeOK' BY <1>1, RowsTyped DEF TypeOK, Finish
<1>3. Rows' BY NullAssumption, RowsTyped DEF TypeOK, Finish, Rows, Past, Proper
<1> QED BY <1>2, <1>3

(* What a command is worth is a record of natural numbers.                 *)
LEMMA WorthTyped ==
  ASSUME NEW c \in Command, NEW e PROVE WorthOf(c, e) \in Worth /\ Nothing \in Worth
BY CommandFields DEF WorthOf, Worth, Nothing

(* Types and the shape of rows are kept by every step.                     *)
LEMMA StepTyped == TypeOK /\ Rows /\ [Next]_vars => TypeOK' /\ Rows'
<1> SUFFICES ASSUME TypeOK, Rows, [Next]_vars PROVE TypeOK' /\ Rows'
  OBVIOUS
<1>1. ASSUME Tick PROVE TypeOK' /\ Rows'
  <2>1. /\ now' = now + 1
        /\ UNCHANGED <<row, pc, target, ent, base, worth, started, overlapped>>
        /\ log' = [d \in Driver |-> [log[d] EXCEPT !.duty = IF row[d].online THEN @ + 1 ELSE @]]
    BY <1>1 DEF Tick, memory
  <2>2. \A d \in Driver : [log[d] EXCEPT !.duty = IF row[d].online THEN @ + 1 ELSE @] \in Log
    BY DEF TypeOK, Log
  <2>3. TypeOK' BY <2>1, <2>2 DEF TypeOK
  <2>4. /\ \A d \in Driver : Past(row[d])'
        /\ \A r \in Request : Past(ent[r])'
    BY <2>1, PastStays DEF TypeOK, Rows
  <2> QED BY <2>1, <2>3, <2>4 DEF Rows, Proper, OneProfilePerUser
<1>2. ASSUME NEW d \in Driver, DeleteDriver(d) PROVE TypeOK' /\ Rows'
  <2>1. /\ row' = [row EXCEPT ![d] = Absent] /\ log' = [log EXCEPT ![d] = Blank]
        /\ UNCHANGED <<now, pc, target, ent, base, worth>>
        /\ overlapped' = Disturb(d) /\ started' = started + 1
    BY <1>2 DEF DeleteDriver, memory
  <2>2. Blank \in Log BY DEF Blank, Log
  <2>3. TypeOK' BY <2>1, <2>2, RowsTyped DEF TypeOK, Disturb
  <2> QED BY <2>1, <2>3, RowsTyped, NullAssumption
          DEF TypeOK, Rows, Past, Proper, OneProfilePerUser
<1>3. ASSUME NEW r \in Request, NEW d \in Driver, NEW u \in User, CreateDriver(r, d, u)
      PROVE  TypeOK' /\ Rows'
  <2>1. Start(r, d, NewDriver(u), Nothing) BY <1>3 DEF CreateDriver
  <2>2. Nothing \in Worth BY DEF Nothing, Worth
  <2>3. NewDriver(u) \in Row /\ Past(NewDriver(u)) /\ Proper(NewDriver(u))
    BY RowsTyped DEF Proper
  <2> QED BY <2>1, <2>2, <2>3, StartTyped
<1>4. ASSUME NEW r \in Request, NEW d \in Driver, NEW c \in Command, FindDriver(r, d, c)
      PROVE  TypeOK' /\ Rows'
  <2>1. /\ row[d] \in Row /\ Past(row[d]) /\ Proper(row[d]) /\ ~Refused(c, row[d])
        /\ Start(r, d, AfterCommand(c, row[d]), WorthOf(c, row[d])) /\ now \in Nat
    BY <1>4 DEF TypeOK, Rows, FindDriver
  <2>2. Goes(row[d], AfterCommand(c, row[d]), c) BY <2>1, AfterCommandGoes DEF Proper
  <2>3. Proper(AfterCommand(c, row[d])) BY <2>1, <2>2 DEF Goes, Proper
  <2> QED BY <2>1, <2>2, <2>3, StartTyped, WorthTyped DEF Goes
<1>5. ASSUME NEW r \in Request, SaveSelect(r) PROVE TypeOK' /\ Rows'
  BY <1>5 DEF TypeOK, Rows, SaveSelect, Past, Proper, OneProfilePerUser
<1>6. ASSUME NEW r \in Request, SaveUpdate(r) PROVE TypeOK' /\ Rows'
  <2>1. PICK d \in Driver : d = target[r] BY <1>6 DEF SaveUpdate, TypeOK
  <2>2. /\ ent[r] \in Row /\ base[r] \in Row /\ row[d] \in Row /\ now \in Nat
        /\ Past(ent[r]) /\ Past(row[d]) /\ Proper(ent[r])
        /\ row[d] = Absent \/ Proper(row[d])
    BY <1>6, <2>1 DEF SaveUpdate, TypeOK, Rows
  <2>3. log' \in [Driver -> Log] BY <1>6, <2>1, LogTyped DEF SaveUpdate
  <2>4. Finish(r) /\ UNCHANGED <<now, started, overlapped>> BY <1>6 DEF SaveUpdate
  <2>5. \/ row' = row
        \/ row' = [row EXCEPT ![d] = ent[r]] /\ InsertAllowed(d, ent[r].user)
        \/ row[d] # Absent /\ row' = [row EXCEPT ![d] = Merged(ent[r], base[r], row[d])]
    BY <1>6, <2>1 DEF SaveUpdate
  <2>6. CASE row' = row
    BY <2>3, <2>4, <2>6, FinishTyped DEF TypeOK, Rows, OneProfilePerUser
  <2>7. CASE row' = [row EXCEPT ![d] = ent[r]] /\ InsertAllowed(d, ent[r].user)
    <3>1. /\ row' \in [Driver -> Row] /\ row'[d] = ent[r]
          /\ \A x \in Driver : x # d => row'[x] = row[x]
      BY <2>2, <2>7 DEF TypeOK
    <3>2. \A x \in Driver : Past(row'[x]) /\ (row'[x] = Absent \/ Proper(row'[x]))
      BY <2>2, <3>1 DEF Rows
    <3>3. OneProfilePerUser'
      <4> SUFFICES ASSUME NEW x \in Driver, NEW y \in Driver, row'[x].user = row'[y].user,
                          row'[x] # Absent
                   PROVE  x = y
        BY DEF OneProfilePerUser
      <4>1. \A z \in Driver : z # d => row[z].user # ent[r].user BY <2>7 DEF InsertAllowed
      <4>2. CASE x # d /\ y # d BY <3>1, <4>2 DEF Rows, OneProfilePerUser
      <4>3. CASE x = d \/ y = d BY <3>1, <4>1, <4>3
      <4> QED BY <4>2, <4>3
    <3> QED BY <2>3, <2>4, <3>1, <3>2, <3>3, FinishTyped
  <2>8. CASE row[d] # Absent /\ row' = [row EXCEPT ![d] = Merged(ent[r], base[r], row[d])]
    <3>1. PICK f \in Row : /\ f = Merged(ent[r], base[r], row[d])
                           /\ f.user = row[d].user /\ f.status # "NONE" /\ Past(f)
      BY <2>2, <2>8, MergedIs DEF Proper
    <3>2. /\ row' \in [Driver -> Row] /\ row'[d] = f
          /\ \A x \in Driver : x # d => row'[x] = row[x]
      BY <2>8, <3>1 DEF TypeOK
    <3>3. Proper(f) BY <2>2, <2>8, <3>1 DEF Proper
    <3>4. \A x \in Driver : Past(row'[x]) /\ (row'[x] = Absent \/ Proper(row'[x]))
      BY <3>1, <3>2, <3>3 DEF Rows
    <3>5. OneProfilePerUser'
      BY <2>8, <3>1, <3>2 DEF Rows, OneProfilePerUser
    <3> QED BY <2>3, <2>4, <3>2, <3>4, <3>5, FinishTyped
  <2> QED BY <2>5, <2>6, <2>7, <2>8
<1>7. ASSUME NEW r \in Request, Abort(r) PROVE TypeOK' /\ Rows'
  BY <1>7, FinishTyped DEF Abort, TypeOK, Rows, OneProfilePerUser
<1>8. CASE UNCHANGED vars
  BY <1>8 DEF vars, TypeOK, Rows, Past, Proper, OneProfilePerUser
<1> QED BY <1>1, <1>2, <1>3, <1>4, <1>5, <1>6, <1>7, <1>8 DEF Next

-----------------------------------------------------------------------------
(* A handler alone on a courier.                                           *)

(* What the handler has made of row e and adds to the log when it saves.   *)
Carries(f, w, e) ==
  \/ /\ e = Absent /\ w = Nothing
     /\ \E u \in User : f = NewDriver(u)
  \/ /\ e # Absent
     /\ \E c \in Command : ~Refused(c, e) /\ f = AfterCommand(c, e) /\ w = WorthOf(c, e)

Knows(r) ==
  /\ Carries(ent[r], worth[r], row[target[r]])
  /\ pc[r] = "update" => base[r] = row[target[r]]

Known ==
  /\ \A r \in Request : pc[r] # "idle" /\ target[r] \notin overlapped =>
       /\ Knows(r)
       /\ \A s \in Request : target[s] = target[r] => s = r
  /\ \A d \in Driver : d \notin overlapped => Accounted(row[d], log[d]) /\ Tired(row[d])

(* What is known of handlers says that a handler alone on a courier has it *)
(* as it is in the table.                                                  *)
LEMMA KnownIs == TypeOK /\ Rows /\ Known => Coherent
<1> SUFFICES ASSUME TypeOK, Rows, Known PROVE Coherent OBVIOUS
<1>1. ASSUME NEW d \in Driver, d \notin overlapped, NEW r \in Request, target[r] = d
      PROVE  HandlerCoherent(r, d)
  <2>1. pc[r] # "idle" BY <1>1, NullAssumption DEF Rows
  <2> QED BY <1>1, <2>1 DEF Known, Knows, Carries, HandlerCoherent
<1> QED BY <1>1 DEF Rows, Known, Coherent, DriverCoherent

(* A command makes the same of a row as long as no minute passes.          *)
LEMMA CarriesStays ==
  ASSUME now' = now, NEW f, NEW w, NEW e, Carries(f, w, e)
  PROVE  Carries(f, w, e)'
<1>1. \A c \in Command : AfterCommand(c, e)' = AfterCommand(c, e)
  BY DEF AfterCommand, GoOffline, ReleaseSession, Open
<1> QED BY <1>1 DEF Carries

(* A row and a log that do not change stay accounted for as time stands    *)
(* still.                                                                  *)
LEMMA AccountedStays ==
  ASSUME now' = now, NEW e, NEW l, Accounted(e, l) PROVE Accounted(e, l)'
BY DEF Accounted, Timed, Open

(* A profile nobody uses yet accounts for an empty log.                    *)
LEMMA NobodyAccounted ==
  /\ Accounted(Absent, Blank) /\ Tired(Absent)
  /\ \A l \in Log, u \in User : Accounted(Absent, l) =>
       Accounted(NewDriver(u), l) /\ Tired(NewDriver(u))
<1>1. /\ Absent.online = FALSE /\ Absent.session = NoSession /\ Absent.total = 0
      /\ Absent.goHome = 0 /\ Absent.fatigue = "NORMAL" /\ Absent.order = NoOrder
      /\ Absent.orders = 0 /\ Absent.status = "NONE"
  BY DEF Absent
<1>2. Blank.given = 0 /\ Blank.closed = 0 /\ Blank.reported = 0 /\ Blank.duty = 0
  BY DEF Blank
<1>3. Accounted(Absent, Blank) /\ Tired(Absent)
  BY <1>1, <1>2 DEF Accounted, Timed, Open, TicksPerMinute, Tired, MaxGoHomePerDay
<1>4. ASSUME NEW l \in Log, NEW u \in User, Accounted(Absent, l)
      PROVE  Accounted(NewDriver(u), l) /\ Tired(NewDriver(u))
  BY <1>1, <1>4, RowsTyped DEF Accounted, Timed, Open, Tired, Log
<1> QED BY <1>3, <1>4

(* A handler whose courier does not change keeps what it knows.            *)
LEMMA KnowsStays ==
  ASSUME now' = now, NEW r \in Request, NEW f, NEW w, NEW e, Carries(f, w, e),
         ent'[r] = f, worth'[r] = w, row'[target'[r]] = e, pc'[r] = "update" => base'[r] = e
  PROVE  Knows(r)'
<1>1. Carries(f, w, e)' BY CarriesStays
<1> QED BY <1>1 DEF Knows

SameMemory(s) ==
  /\ pc'[s] = pc[s] /\ target'[s] = target[s] /\ ent'[s] = ent[s]
  /\ base'[s] = base[s] /\ worth'[s] = worth[s]

(* Only the handler that moves, and its courier, have to be looked at.     *)
LEMMA OthersKnown ==
  ASSUME TypeOK, Rows, Known, now' = now, NEW r \in Request,
         \A s \in Request : s # r => SameMemory(s),
         overlapped \subseteq overlapped',
         pc[r] = "idle" => row' = row /\ log' = log
           /\ (target'[r] \notin overlapped' => \A s \in Request : target[s] # target'[r]),
         target'[r] \in {target[r], NoDriver} \/ pc[r] = "idle",
         \A d \in Driver : d # target[r] => row'[d] = row[d] /\ log'[d] = log[d],
         target[r] \in Driver /\ target[r] \notin overlapped' =>
           Accounted(row'[target[r]], log'[target[r]]) /\ Tired(row'[target[r]]),
         pc'[r] # "idle" /\ target'[r] \notin overlapped' => Knows(r)',
         Rows'
  PROVE  Known'
<1>1. ASSUME NEW s \in Request, s # r, pc'[s] # "idle", target'[s] \notin overlapped'
      PROVE  Knows(s)' /\ \A q \in Request : target'[q] = target'[s] => q = s
  <2>1. /\ SameMemory(s) /\ pc[s] # "idle" /\ target[s] \notin overlapped
        /\ target[s] \in Driver
    BY <1>1 DEF SameMemory, TypeOK
  <2>2. Knows(s) /\ \A q \in Request : target[q] = target[s] => q = s
    BY <2>1 DEF Known
  <2>3. row'[target[s]] = row[target[s]] BY <1>1, <2>1, <2>2
  <2>4. Knows(s)'
    <3>1. PICK f, w, e : f = ent[s] /\ w = worth[s] /\ e = row[target[s]] OBVIOUS
    <3>2. Carries(f, w, e) /\ (pc[s] = "update" => base[s] = e) BY <2>2, <3>1 DEF Knows
    <3> QED BY <2>1, <2>3, <3>1, <3>2, KnowsStays DEF SameMemory
  <2>5. target'[r] # target[s]
    BY <1>1, <2>1, <2>2, NullAssumption DEF SameMemory
  <2> QED BY <2>1, <2>2, <2>4, <2>5 DEF SameMemory
<1>2. ASSUME pc'[r] # "idle", target'[r] \notin overlapped'
      PROVE  Knows(r)' /\ \A q \in Request : target'[q] = target'[r] => q = r
  <2>1. \A q \in Request : q # r => target'[q] = target[q] BY DEF SameMemory
  <2>2. CASE pc[r] = "idle" BY <1>2, <2>1, <2>2
  <2>3. CASE pc[r] # "idle"
    <3>1. target'[r] # NoDriver BY <1>2 DEF Rows
    <3>2. target'[r] = target[r] /\ target[r] \notin overlapped BY <1>2, <2>3, <3>1
    <3>3. \A q \in Request : target[q] = target[r] => q = r BY <2>3, <3>2 DEF Known
    <3> QED BY <1>2, <2>1, <3>2, <3>3
  <2> QED BY <2>2, <2>3
<1>3. ASSUME NEW d \in Driver, d \notin overlapped'
      PROVE  (Accounted(row[d], log[d]) /\ Tired(row[d]))'
  <2>1. PICK e, l : e = row'[d] /\ l = log'[d] OBVIOUS
  <2>2. CASE d = target[r]
    <3>1. Accounted(e, l) /\ Tired(e) BY <1>3, <2>1, <2>2
    <3>2. Accounted(e, l)' BY <3>1, AccountedStays
    <3> QED BY <2>1, <3>1, <3>2 DEF Tired
  <2>3. CASE d # target[r]
    <3>1. e = row[d] /\ l = log[d] /\ d \notin overlapped BY <1>3, <2>1, <2>3
    <3>2. Accounted(e, l) /\ Tired(e) BY <3>1 DEF Known
    <3>3. Accounted(e, l)' BY <3>2, AccountedStays
    <3> QED BY <2>1, <3>2, <3>3 DEF Tired
  <2> QED BY <2>2, <2>3
<1> QED BY <1>1, <1>2, <1>3 DEF Known

(* A handler that starts knows the row it has just read.                   *)
LEMMA StartKnown ==
  ASSUME TypeOK, Rows, Known, NEW r \in Request, NEW d \in Driver, NEW e, NEW w,
         Start(r, d, e, w), Carries(e, w, row[d]), Rows'
  PROVE  Known'
<1>1. /\ pc[r] = "idle" /\ pc' = [pc EXCEPT ![r] = "select"]
      /\ target' = [target EXCEPT ![r] = d] /\ ent' = [ent EXCEPT ![r] = e]
      /\ worth' = [worth EXCEPT ![r] = w]
      /\ UNCHANGED <<row, now, base, log>> /\ overlapped' = Disturb(d)
  BY DEF Start
<1>2. /\ overlapped \subseteq overlapped'
      /\ d \notin overlapped' => \A s \in Request : target[s] # d
  BY <1>1 DEF Disturb, Busy
<1>3. \A s \in Request : s # r => SameMemory(s) BY <1>1 DEF TypeOK, SameMemory
<1>4. /\ pc'[r] = "select" /\ target'[r] = d /\ ent'[r] = e /\ worth'[r] = w
  BY <1>1 DEF TypeOK
<1>5. Knows(r)'
  <2>1. PICK x : x = row[d] OBVIOUS
  <2> QED BY <1>1, <1>4, <2>1, KnowsStays
<1>6. target[r] = NoDriver BY <1>1 DEF Rows
<1> QED BY <1>1, <1>2, <1>3, <1>4, <1>5, <1>6, NullAssumption, OthersKnown

(* A save of an undisturbed courier writes what the command made of the    *)
(* row; a new profile may be refused by the index.                         *)
LEMMA UpdateAlone ==
  ASSUME TypeOK, Rows, Known, NEW r \in Request, SaveUpdate(r),
         target[r] \notin overlapped
  PROVE  \E d \in Driver :
           /\ d = target[r] /\ \A x \in Driver : x # d => row'[x] = row[x] /\ log'[x] = log[x]
           /\ Accounted(row'[d], log'[d]) /\ Tired(row'[d])
           /\ \/ row'[d] = row[d]
              \/ row[d] = Absent /\ \E u \in User : row'[d] = NewDriver(u)
              \/ row[d] # Absent /\ DutyAllows(row[d], row'[d])
           /\ \/ row'[d] = row[d]
              \/ row[d] = Absent
              \/ \E c \in Command : ~Refused(c, row[d]) /\ row'[d] = AfterCommand(c, row[d])
<1>1. PICK d \in Driver : d = target[r] BY DEF SaveUpdate, TypeOK
<1>2. pc[r] = "update" BY DEF SaveUpdate
<1>3. /\ Carries(ent[r], worth[r], row[d]) /\ base[r] = row[d]
      /\ Accounted(row[d], log[d]) /\ Tired(row[d])
  BY <1>1, <1>2 DEF Known, Knows
<1>4. /\ log' \in [Driver -> Log]
      /\ \A x \in Driver : x # d => log'[x] = log[x]
      /\ log'[d].given = log[d].given + worth[r].given
      /\ log'[d].closed = log[d].closed + worth[r].closed
      /\ log'[d].reported = log[d].reported + worth[r].reported
      /\ log'[d].duty = log[d].duty
  BY <1>1, LogTyped DEF SaveUpdate
<1>5. log[d] \in Log /\ log'[d] \in Log /\ row[d] \in Row /\ ent[r] \in Row /\ now \in Nat
  BY <1>4 DEF TypeOK
<1>6. CASE row[d] = Absent
  <2>1. worth[r] = Nothing /\ \E u \in User : ent[r] = NewDriver(u)
    BY <1>3, <1>6 DEF Carries
  <2>2. log'[d] = log[d] BY <1>4, <1>5, <2>1 DEF Log, Nothing
  <2>3. row' = row \/ row' = [row EXCEPT ![d] = ent[r]]
    BY <1>1, <1>3, <1>6 DEF SaveUpdate
  <2>4. \A x \in Driver : x # d => row'[x] = row[x] BY <2>3 DEF TypeOK
  <2>5. row'[d] = row[d] \/ \E u \in User : row'[d] = NewDriver(u)
    BY <2>1, <2>3 DEF TypeOK
  <2>6. Accounted(row'[d], log'[d]) /\ Tired(row'[d])
    BY <1>3, <1>5, <1>6, <2>2, <2>5, NobodyAccounted
  <2> QED BY <1>1, <1>4, <1>6, <2>4, <2>5, <2>6
<1>7. CASE row[d] # Absent
  <2>1. PICK c \in Command : /\ ~Refused(c, row[d]) /\ ent[r] = AfterCommand(c, row[d])
                             /\ worth[r] = WorthOf(c, row[d])
    BY <1>3, <1>7 DEF Carries
  <2>2. Past(row[d]) /\ Proper(row[d]) BY <1>7 DEF Rows
  <2>3. Goes(row[d], ent[r], c) BY <1>5, <2>1, <2>2, AfterCommandGoes DEF Proper
  <2>4. ent[r].user = row[d].user BY <2>3 DEF Goes
  <2>5. Merged(ent[r], base[r], row[d]) = ent[r] BY <1>3, <1>5, <2>4, MergedIs
  <2>6. row' = [row EXCEPT ![d] = ent[r]] BY <1>1, <1>3, <1>7, <2>5 DEF SaveUpdate
  <2>7. row'[d] = ent[r] /\ \A x \in Driver : x # d => row'[x] = row[x]
    BY <2>6 DEF TypeOK
  <2>8. Fits(row[d], ent[r], c, log[d], log'[d]) BY <1>4, <2>1 DEF Fits
  <2>9. DutyAllows(row[d], ent[r]) /\ Accounted(ent[r], log'[d]) /\ Tired(ent[r])
    BY <1>3, <1>5, <2>3, <2>8 DEF Goes
  <2> QED BY <1>1, <1>4, <1>7, <2>1, <2>7, <2>9
<1> QED BY <1>6, <1>7

(* What is known of couriers one handler works on is kept by every step.   *)
LEMMA StepKnown == TypeOK /\ Rows /\ Known /\ Rows' /\ [Next]_vars => Known'
<1> SUFFICES ASSUME TypeOK, Rows, Known, Rows', [Next]_vars PROVE Known'
  OBVIOUS
<1>1. ASSUME Tick PROVE Known'
  <2>1. /\ now' = now + 1 /\ \A r \in Request : pc[r] = "idle"
        /\ UNCHANGED <<row, pc, overlapped>>
        /\ log' = [d \in Driver |-> [log[d] EXCEPT !.duty = IF row[d].online THEN @ + 1 ELSE @]]
    BY <1>1 DEF Tick, memory
  <2>2. ASSUME NEW d \in Driver, d \notin overlapped
        PROVE  (Accounted(row[d], log[d]) /\ Tired(row[d]))'
    <3>1. /\ Accounted(row[d], log[d]) /\ Tired(row[d]) /\ Past(row[d])
          /\ row[d] \in Row /\ log[d] \in Log /\ now \in Nat
      BY <2>2 DEF Known, Rows, TypeOK
    <3>2. /\ log'[d].duty = log[d].duty + (IF row[d].online THEN 1 ELSE 0)
          /\ log'[d].given = log[d].given /\ log'[d].closed = log[d].closed
          /\ log'[d].reported = log[d].reported
      <4>1. log'[d] = [log[d] EXCEPT !.duty = IF row[d].online THEN log[d].duty + 1
                                              ELSE log[d].duty]
        BY <2>1
      <4> QED BY <3>1, <4>1 DEF Log
    <3>3. PICK e, l, m : /\ e = row[d] /\ l = log[d] /\ m = log'[d]
                        /\ e \in Row /\ l \in Log
      BY <3>1
    <3>4. /\ e.session # NoSession <=> e.online
          /\ e.session # NoSession => e.session \in Nat /\ e.session <= now
          /\ Timed(e, l)
      BY <3>1, <3>3 DEF Accounted, Row
    <3>5. Open(e)' = Open(e) + (IF e.online THEN 1 ELSE 0)
      BY <2>1, <3>1, <3>4 DEF Open
    <3>6. /\ e.total \in Nat /\ l.duty \in Nat /\ l.reported \in Nat
          /\ l.closed \in Nat /\ Open(e) \in Nat
      BY <3>1, <3>3, <3>4 DEF Row, Log, Open
    <3>7. /\ e.session # NoSession => e.session <= now + 1
          /\ Timed(e, m)'
      <4>1. m.duty = l.duty + (IF e.online THEN 1 ELSE 0) /\ m.reported = l.reported
            /\ m.closed = l.closed
        BY <3>2, <3>3
      <4>2. e.session # NoSession => e.session <= now + 1 BY <3>1, <3>4
      <4> QED BY <3>4, <3>5, <3>6, <4>1, <4>2 DEF Timed, TicksPerMinute
    <3>8. Accounted(row[d], log[d])'
      BY <2>1, <3>1, <3>2, <3>3, <3>7 DEF Accounted
    <3> QED BY <2>1, <3>1, <3>8 DEF Tired
  <2> QED BY <2>1, <2>2 DEF Known
<1>2. ASSUME NEW d \in Driver, DeleteDriver(d) PROVE Known'
  <2>1. /\ row' = [row EXCEPT ![d] = Absent] /\ log' = [log EXCEPT ![d] = Blank]
        /\ UNCHANGED <<now, pc, target, ent, base, worth>>
        /\ overlapped' = Disturb(d)
    BY <1>2 DEF DeleteDriver, memory
  <2>2. ASSUME NEW s \in Request, pc'[s] # "idle", target'[s] \notin overlapped'
        PROVE  Knows(s)' /\ \A q \in Request : target'[q] = target'[s] => q = s
    <3>1. target[s] # d /\ target[s] \notin overlapped /\ target[s] \in Driver
      BY <2>1, <2>2 DEF Disturb, Busy, TypeOK
    <3>2. Knows(s) /\ \A q \in Request : target[q] = target[s] => q = s
      BY <2>1, <2>2, <3>1 DEF Known
    <3>3. PICK f, w, e : f = ent[s] /\ w = worth[s] /\ e = row[target[s]] OBVIOUS
    <3>4. Carries(f, w, e) /\ (pc[s] = "update" => base[s] = e) BY <3>2, <3>3 DEF Knows
    <3>5. row'[target[s]] = row[target[s]] BY <2>1, <3>1 DEF TypeOK
    <3>6. Knows(s)' BY <2>1, <3>3, <3>4, <3>5, KnowsStays
    <3> QED BY <2>1, <3>2, <3>6
  <2>3. ASSUME NEW x \in Driver, x \notin overlapped'
        PROVE  (Accounted(row[x], log[x]) /\ Tired(row[x]))'
    <3>1. PICK e, l : e = row'[x] /\ l = log'[x] OBVIOUS
    <3>2. Accounted(e, l) /\ Tired(e)
      <4>1. CASE x = d
        <5>1. e = Absent /\ l = Blank BY <2>1, <3>1, <4>1 DEF TypeOK
        <5> QED BY <5>1, NobodyAccounted
      <4>2. CASE x # d
        <5>1. e = row[x] /\ l = log[x] BY <2>1, <3>1, <4>2 DEF TypeOK
        <5>2. x \notin overlapped BY <2>1, <2>3 DEF Disturb
        <5> QED BY <5>1, <5>2 DEF Known
      <4> QED BY <4>1, <4>2
    <3>3. Accounted(e, l)' BY <2>1, <3>2, AccountedStays
    <3> QED BY <3>1, <3>2, <3>3 DEF Tired
  <2> QED BY <2>2, <2>3 DEF Known
<1>3. ASSUME NEW r \in Request, NEW d \in Driver, NEW u \in User, CreateDriver(r, d, u)
      PROVE  Known'
  BY <1>3, StartKnown DEF CreateDriver, Fresh, Carries
<1>4. ASSUME NEW r \in Request, NEW d \in Driver, NEW c \in Command, FindDriver(r, d, c)
      PROVE  Known'
  BY <1>4, StartKnown DEF FindDriver, Carries
<1>5. ASSUME NEW r \in Request, SaveSelect(r) PROVE Known'
  <2>1. /\ pc[r] = "select" /\ pc' = [pc EXCEPT ![r] = "update"]
        /\ base' = [base EXCEPT ![r] = row[target[r]]]
        /\ UNCHANGED <<row, now, target, ent, worth, log, overlapped>>
    BY <1>5 DEF SaveSelect
  <2>2. \A s \in Request : s # r => SameMemory(s) BY <2>1 DEF TypeOK, SameMemory
  <2>3. ASSUME target[r] \notin overlapped PROVE Knows(r)'
    <3>1. Knows(r) BY <2>1, <2>3 DEF Known
    <3>2. PICK f, w, e : f = ent[r] /\ w = worth[r] /\ e = row[target[r]] OBVIOUS
    <3>3. Carries(f, w, e) BY <3>1, <3>2 DEF Knows
    <3>4. base'[r] = e BY <2>1, <3>2 DEF TypeOK
    <3> QED BY <2>1, <3>2, <3>3, <3>4, KnowsStays
  <2>4. target[r] \in Driver /\ target[r] \notin overlapped =>
          Accounted(row[target[r]], log[target[r]]) /\ Tired(row[target[r]])
    BY DEF Known
  <2> QED BY <2>1, <2>2, <2>3, <2>4, OthersKnown
<1>6. ASSUME NEW r \in Request, SaveUpdate(r) PROVE Known'
  <2>1. PICK d \in Driver : d = target[r] BY <1>6 DEF SaveUpdate, TypeOK
  <2>2. pc[r] = "update" /\ Finish(r) /\ UNCHANGED <<now, overlapped>>
    BY <1>6 DEF SaveUpdate
  <2>3. \A s \in Request : s # r => SameMemory(s)
    BY <2>2 DEF TypeOK, Finish, SameMemory
  <2>4. pc'[r] = "idle" /\ target'[r] = NoDriver BY <2>2 DEF TypeOK, Finish
  <2>5. \A x \in Driver : x # d => row'[x] = row[x] /\ log'[x] = log[x]
    BY <1>6, <2>1, LogTyped DEF SaveUpdate, TypeOK
  <2>6. d \notin overlapped => Accounted(row'[d], log'[d]) /\ Tired(row'[d])
    BY <1>6, <2>1, UpdateAlone
  <2> QED BY <2>1, <2>2, <2>3, <2>4, <2>5, <2>6, OthersKnown
<1>7. ASSUME NEW r \in Request, Abort(r) PROVE Known'
  <2>1. pc[r] # "idle" /\ Finish(r) /\ UNCHANGED <<row, now, log, overlapped>>
    BY <1>7 DEF Abort
  <2>2. \A s \in Request : s # r => SameMemory(s)
    BY <2>1 DEF TypeOK, Finish, SameMemory
  <2>3. pc'[r] = "idle" /\ target'[r] = NoDriver BY <2>1 DEF TypeOK, Finish
  <2>4. target[r] \in Driver /\ target[r] \notin overlapped =>
          Accounted(row[target[r]], log[target[r]]) /\ Tired(row[target[r]])
    BY DEF Known
  <2> QED BY <2>1, <2>2, <2>3, <2>4, OthersKnown
<1>8. CASE UNCHANGED vars
  <2>1. /\ row' = row /\ log' = log /\ now' = now /\ pc' = pc /\ target' = target
        /\ ent' = ent /\ worth' = worth /\ base' = base /\ overlapped' = overlapped
    BY <1>8 DEF vars
  <2>2. ASSUME NEW r \in Request, Knows(r) PROVE Knows(r)'
    <3>1. PICK f, w, e : f = ent[r] /\ w = worth[r] /\ e = row[target[r]] OBVIOUS
    <3>2. Carries(f, w, e) /\ (pc[r] = "update" => base[r] = e) BY <2>2, <3>1 DEF Knows
    <3> QED BY <2>1, <3>1, <3>2, KnowsStays
  <2>3. ASSUME NEW d \in Driver, Accounted(row[d], log[d])
    PROVE Accounted(row[d], log[d])'
    <3>1. PICK e, l : e = row[d] /\ l = log[d] OBVIOUS
    <3>2. Accounted(e, l) BY <2>3, <3>1
    <3>3. Accounted(e, l)' BY <2>1, <3>2, AccountedStays
    <3> QED BY <2>1, <3>1, <3>3
  <2> QED BY <2>1, <2>2, <2>3 DEF Known, Tired
<1> QED BY <1>1, <1>2, <1>3, <1>4, <1>5, <1>6, <1>7, <1>8 DEF Next

-----------------------------------------------------------------------------
(* The theorems.                                                           *)

(* The inductive invariant.                                                *)
IInv == TypeOK /\ Rows /\ Known

(* IInv holds at first and is kept by every step.                          *)
LEMMA Inductive == (Init => IInv) /\ (IInv /\ [Next]_vars => IInv')
<1>1. Init => Known
  <2> SUFFICES ASSUME Init PROVE Known OBVIOUS
  <2>1. \A r \in Request : pc[r] = "idle" BY DEF Init
  <2>2. \A d \in Driver : row[d] = Absent /\ log[d] = Blank BY DEF Init
  <2>3. \A d \in Driver : Accounted(row[d], log[d]) /\ Tired(row[d])
    BY <2>2, NobodyAccounted
  <2> QED BY <2>1, <2>3 DEF Known
<1> QED BY <1>1, InitTyped, StepTyped, StepKnown DEF IInv

(* A user has one profile however handlers interleave; for a courier no    *)
(* two handlers worked on at once no assignment is lost, the day's total   *)
(* tells the time online up to the reports and less than a minute for each *)
(* session, and nobody is on duty half.                                    *)
THEOREM InvHolds == Spec => []Inv
<1>1. IInv => Inv
  <2> SUFFICES ASSUME TypeOK, Rows, Known PROVE Inv BY DEF IInv
  <2>1. \A d \in Driver : d \notin overlapped => Accounted(row[d], log[d]) BY DEF Known
  <2>2. AssignmentsAccounted BY <2>1 DEF AssignmentsAccounted, Accounted
  <2>3. EveryMinuteCounted BY <2>1 DEF EveryMinuteCounted, Accounted
  <2>4. OnDutyTogether BY <2>1 DEF OnDutyTogether, Accounted
  <2> QED BY <2>2, <2>3, <2>4, KnownIs DEF Rows, Inv
<1> QED BY <1>1, Inductive, PTL DEF Spec

(* The row of a courier no two handlers worked on at once changes as       *)
(* CourierDuty allows, and in no other way.                                *)
THEOREM FollowsDuty == Spec => UndisturbedFollowsDuty
<1>1. IInv /\ [Next]_vars =>
        [\A d \in Driver : d \in overlapped' \/ Duty!Same(d) \/ Duty!Step(d)]_vars
  <2> SUFFICES ASSUME TypeOK, Rows, Known, [Next]_vars, NEW d \in Driver, d \notin overlapped'
               PROVE  Duty!Same(d) \/ Duty!Step(d)
    BY DEF IInv
  <2>1. ASSUME row'[d] = row[d] PROVE Duty!Same(d) BY <2>1 DEF Duty!Same
  <2>2. ASSUME NEW x \in Driver, DeleteDriver(x) PROVE Duty!Same(d) \/ Duty!Step(d)
    <3>1. row' = [row EXCEPT ![x] = Absent] BY <2>2 DEF DeleteDriver
    <3>2. CASE x = d
      BY <3>1, <3>2, RowsTyped DEF TypeOK, Duty!Step, Duty!Dismissed
    <3>3. CASE x # d BY <2>1, <3>1, <3>3 DEF TypeOK
    <3> QED BY <3>2, <3>3
  <2>3. ASSUME NEW r \in Request, SaveUpdate(r) PROVE Duty!Same(d) \/ Duty!Step(d)
    <3>1. overlapped' = overlapped BY <2>3 DEF SaveUpdate
    <3>2. CASE target[r] # d
      <4>1. target[r] \in Driver BY <2>3 DEF SaveUpdate, TypeOK
      <4>2. row'[d] = row[d] BY <2>3, <3>2, <4>1 DEF SaveUpdate, TypeOK
      <4> QED BY <2>1, <4>2
    <3>3. CASE target[r] = d
      <4>1. \/ row'[d] = row[d]
            \/ row[d] = Absent /\ \E u \in User : row'[d] = NewDriver(u)
            \/ row[d] # Absent /\ DutyAllows(row[d], row'[d])
        BY <2>3, <3>1, <3>3, UpdateAlone
      <4>2. CASE row[d] = Absent /\ \E u \in User : row'[d] = NewDriver(u)
        BY <4>2, RowsTyped DEF Duty!Step, Duty!Hired
      <4>3. CASE DutyAllows(row[d], row'[d])
        BY <4>3 DEF DutyAllows, Duty!Same, Duty!Step, Duty!ComesOnline, Duty!GoesOffline,
                    Duty!Tires, Duty!Takes, Duty!Completes, Duty!Activated
      <4> QED BY <2>1, <4>1, <4>2, <4>3
    <3> QED BY <3>2, <3>3
  <2>4. ASSUME row' = row PROVE Duty!Same(d) BY <2>1, <2>4
  <2> QED BY <2>2, <2>3, <2>4
        DEF Next, Tick, CreateDriver, FindDriver, Start, SaveSelect, Abort, vars
<1> QED BY <1>1, Inductive, PTL DEF Spec, UndisturbedFollowsDuty

-----------------------------------------------------------------------------

(* The roles anybody may register with, and an account somebody opened.    *)
PlainRoles == {"CONSUMER", "DRIVER"}

Opened(e) ==
  /\ e.phone \in Phone /\ e.roles \subseteq PlainRoles
  /\ e.status \in Identity!UserStatus /\ e.password \in Password

SamePerson(e, f) == e.phone = f.phone /\ e.roles = f.roles

AccountGood(u) == account[u] = Identity!Absent \/ Opened(account[u])

(* A registration has the id to itself; every other handler works on an    *)
(* account that was opened, and takes nobody for someone else.             *)
HandlerGood(s) ==
  IF handler[s] = "idle" THEN user[s] = Nobody /\ op[s] = "none"
  ELSE /\ user[s] \in Person /\ op[s] # "none" /\ Opened(loaded[s])
       /\ op[s] = "register" =>
            /\ account[user[s]] = Identity!Absent /\ loaded[s].status = "ACTIVE"
            /\ \A x \in Identity!Slot \ {s} : user[x] # user[s]
            /\ handler[s] = "update" => selected[s] = Identity!Absent
       /\ op[s] # "register" =>
            /\ Opened(account[user[s]]) /\ SamePerson(loaded[s], account[user[s]])
            /\ handler[s] = "update" => Opened(selected[s]) /\ SamePerson(selected[s], account[user[s]])

PageGood(p) ==
  /\ form[p].step = "registering" <=> op[p] = "register"
  /\ form[p].step = "loggingIn" <=> op[p] = "login"
  /\ op[p] \in {"none", "register", "login"}
  /\ op[p] = "register" => loaded[p].phone = form[p].phone
  /\ form[p].step \in Identity!Beyond => form[p].user # Nobody
  /\ form[p].user # Nobody =>
       /\ Opened(account[form[p].user])
       /\ form[p].step \in Identity!Beyond => account[form[p].user].phone = form[p].phone
  /\ \A q \in Page : form[q].user = form[p].user /\ form[p].user # Nobody => q = p

RestaurantGood(u) ==
  \/ restaurants[u] = 0
  \/ \E p \in Page :
       /\ form[p].user = u /\ form[p].step \in {"profile", "done"}
       /\ p \in lost \/ (restaurants[u] = 1 /\ form[p].step = "done")

TokensPlain == \A t \in token : t.roles \subseteq PlainRoles

Served == \A s \in Identity!Slot : HandlerGood(s)
Opening == \A u \in Person : AccountGood(u)
Waiting == \A p \in Page : PageGood(p)
Restaurants == \A u \in Person : RestaurantGood(u)

IdentityIInv == Identity!TypeOK /\ Opening /\ Served /\ Waiting /\ Restaurants /\ TokensPlain
        /\ Identity!Coherent /\ Identity!OnePhone /\ Identity!PasswordAsAgreed

-----------------------------------------------------------------------------
(* The fields of a missing account and of an empty form.                   *)
LEMMA AbsentIs ==
  /\ Identity!Absent \in Identity!Account /\ ~Opened(Identity!Absent) /\ Identity!Absent.roles = {} /\ Identity!Absent.status = "NONE"
  /\ Identity!Absent.phone = NoPhone /\ Identity!Absent.password = NoPassword
  /\ Identity!Empty \in Identity!Form /\ Identity!Empty.step = "account" /\ Identity!Empty.user = Nobody
BY NobodyAssumption DEF Identity!Absent, Identity!Account, Opened, Identity!Empty,
   Identity!Form, Identity!UserStatus

(* An account somebody opened is not a missing one.                        *)
LEMMA OpenedIs ==
  ASSUME NEW e, Opened(e)
  PROVE  e # Identity!Absent /\ e.phone # NoPhone /\ e.password # NoPassword /\ e.status # "NONE"
BY NobodyAssumption DEF Identity!Absent, Opened, Identity!UserStatus

(* The columns of a save; nothing but status and password can differ.      *)
LEMMA AccountMergedIs ==
  ASSUME NEW e \in Identity!Account, NEW b \in Identity!Account,
         NEW current \in Identity!Account
  PROVE  LET m == Identity!Merged(e, b, current) IN
         /\ m \in Identity!Account
         /\ m.phone = IF e.phone # b.phone THEN e.phone ELSE current.phone
         /\ m.roles = IF e.roles # b.roles THEN e.roles ELSE current.roles
         /\ m.status = IF e.status # b.status THEN e.status ELSE current.status
         /\ m.password = IF e.password # b.password THEN e.password ELSE current.password
BY DEF Identity!Merged, Identity!Account

(* Columns written over an account by handlers that take it for the same   *)
(* person leave an account that was opened, of that person.                *)
LEMMA MergedOpened ==
  ASSUME NEW e \in Identity!Account, NEW b \in Identity!Account,
         NEW current \in Identity!Account,
         Opened(e), Opened(b), Opened(current), SamePerson(e, current), SamePerson(b, current)
  PROVE  Opened(Identity!Merged(e, b, current)) /\ SamePerson(Identity!Merged(e, b, current), current)
<1>1. PICK m : m = Identity!Merged(e, b, current) OBVIOUS
<1> QED BY <1>1, AccountMergedIs DEF Opened, SamePerson

(* Written over the row that was loaded, a save leaves what is in memory.  *)
LEMMA MergedAlone ==
  ASSUME NEW e \in Identity!Account, NEW current \in Identity!Account
  PROVE  Identity!Merged(e, current, current) = e
<1>1. PICK p, r, s, w : e = [phone |-> p, roles |-> r, status |-> s, password |-> w]
  BY DEF Identity!Account
<1> QED BY <1>1 DEF Identity!Merged

(* Low roles pass no guard of the admin routes.                            *)
LEMMA PlainIsLow ==
  ASSUME NEW roles, roles \subseteq PlainRoles
  PROVE  ~Identity!Allowed({"ADMIN", "MERCHANT_OWNER", "MERCHANT_STAFF"}, roles)
<1>1. \A role \in roles : Identity!Inherited(role) = {role}
  BY DEF PlainRoles, Identity!Inherited
<1> QED BY <1>1 DEF Identity!Allowed, PlainRoles

(* register gives out plain roles only.                                    *)
LEMMA SanitizedPlain ==
  ASSUME NEW requested PROVE Identity!Sanitized(requested) \subseteq PlainRoles
BY DEF Identity!Sanitized, Identity!AllowedSelfRegisterRoles, PlainRoles

-----------------------------------------------------------------------------
(* What a call may be made with.                                           *)
MayStart(u, what, e) ==
  /\ Opened(e)
  /\ \/ what = "register" /\ account[u] = Identity!Absent /\ ~Identity!Busy(u) /\ e.status = "ACTIVE"
     \/ /\ Opened(account[u])
        /\ \/ what = "login" /\ e = account[u] /\ e.status = "ACTIVE"
           \/ what = "password" /\ e = [account[u] EXCEPT !.password = e.password]
           \/ /\ what = "status" /\ e = [account[u] EXCEPT !.status = e.status]
              /\ Identity!ValidTransition(account[u].status, e.status)

(* A call changes its own slot, and remembers whether it found company.    *)
LEMMA CallShape ==
  ASSUME Identity!TypeOK, NEW s \in Identity!Slot, NEW u \in Person, NEW what, NEW e,
         Identity!Call(s, u, what, e)
  PROVE  /\ handler[s] = "idle" /\ handler'[s] = "select" /\ user'[s] = u /\ op'[s] = what
         /\ loaded'[s] = e /\ selected' = selected
         /\ \A x \in Identity!Slot \ {s} : handler'[x] = handler[x] /\ user'[x] = user[x]
                                  /\ op'[x] = op[x] /\ loaded'[x] = loaded[x]
         /\ u \in crossed' <=> u \in crossed \/ Identity!Busy(u)
         /\ \A v \in Person \ {u} : v \in crossed' <=> v \in crossed
BY DEF Identity!Call, Identity!TypeOK, Identity!Disturb

(* A call keeps the types.                                                 *)
LEMMA CallTyped ==
  ASSUME Identity!TypeOK, NEW s \in Identity!Slot, NEW u \in Person,
         NEW what \in {"register", "login", "password", "status"},
         NEW e \in Identity!Account, Identity!Call(s, u, what, e),
         form' \in [Page -> Identity!Form]
  PROVE  Identity!TypeOK'
BY DEF Identity!Call, Identity!TypeOK, Identity!Disturb

(* A call that may start leaves every handler with an account as it should *)
(* be.                                                                     *)
LEMMA CallServed ==
  ASSUME Identity!TypeOK, Opening, Served, NEW s \in Identity!Slot, NEW u \in Person,
         NEW what,
         NEW e \in Identity!Account, MayStart(u, what, e), Identity!Call(s, u, what, e)
  PROVE  Served'
<1>1. account' = account BY DEF Identity!Call
<1>2. what # "none" BY DEF MayStart
<1>3. ASSUME NEW x \in Identity!Slot PROVE HandlerGood(x)'
  <2>1. CASE x = s
    <3>1. CASE what = "register"
      <4>1. account[u] = Identity!Absent /\ ~Identity!Busy(u) /\ e.status = "ACTIVE" /\ Opened(e)
        BY <3>1 DEF MayStart
      <4> QED BY <1>1, <1>2, <2>1, <3>1, <4>1, CallShape DEF HandlerGood, Identity!Busy
    <3>2. CASE what # "register"
      <4>1. /\ Opened(e) /\ Opened(account[u]) /\ SamePerson(e, account[u])
        BY <3>2 DEF MayStart, SamePerson, Identity!TypeOK, Identity!Account
      <4> QED BY <1>1, <1>2, <2>1, <3>2, <4>1, CallShape DEF HandlerGood
    <3> QED BY <3>1, <3>2
  <2>2. CASE x # s
    <3>1. HandlerGood(x) /\ HandlerGood(s) BY DEF Served
    <3>2. handler[s] = "idle" /\ user[s] = Nobody BY <3>1, CallShape DEF HandlerGood
    <3>3. /\ handler'[x] = handler[x] /\ user'[x] = user[x] /\ op'[x] = op[x] /\ loaded'[x] = loaded[x]
          /\ selected'[x] = selected[x] /\ user'[s] = u
          /\ \A y \in Identity!Slot \ {s} : user'[y] = user[y]
      BY <2>2, CallShape
    <3>4. op[x] = "register" /\ handler[x] # "idle" => user[x] # u
      <4>1. ASSUME op[x] = "register", handler[x] # "idle", user[x] = u PROVE FALSE
        <5>1. account[u] = Identity!Absent /\ Identity!Busy(u)
          BY <3>1, <4>1 DEF HandlerGood, Identity!Busy
        <5> QED BY <5>1, OpenedIs DEF MayStart
      <4> QED BY <4>1
    <3> QED BY <1>1, <3>1, <3>3, <3>4 DEF HandlerGood
  <2> QED BY <2>1, <2>2
<1> QED BY <1>3 DEF Served

(* A call that may start and finds nobody on the account has it as it is in*)
(* the table.                                                              *)
LEMMA CallCoherent ==
  ASSUME Identity!TypeOK, Served, Identity!Coherent, Identity!PasswordAsAgreed,
         NEW s \in Identity!Slot, NEW u \in Person, NEW what,
         NEW e \in Identity!Account, MayStart(u, what, e), Identity!Call(s, u, what, e)
  PROVE  Identity!Coherent' /\ Identity!PasswordAsAgreed'
<1>1. account' = account /\ password' = password BY DEF Identity!Call
<1>2. Identity!PasswordAsAgreed' BY <1>1, CallShape DEF Identity!PasswordAsAgreed
<1>3. ASSUME NEW x \in Identity!Slot, handler'[x] # "idle", user'[x] \notin crossed'
      PROVE  Identity!HandlerCoherent(x)'
  <2>1. CASE x = s
    <3>1. ~Identity!Busy(u) /\ user'[x] = u BY <1>3, <2>1, CallShape
    <3>2. \A y \in Identity!Slot \ {x} : user'[y] # u
      BY <2>1, <3>1, CallShape DEF Identity!Busy
    <3>3. op'[x] = what /\ loaded'[x] = e /\ handler'[x] = "select" BY <2>1, CallShape
    <3>4. \/ what = "register" /\ account[u] = Identity!Absent /\ e.status = "ACTIVE"
          \/ /\ account[u] # Identity!Absent
             /\ \/ what = "login" /\ e = account[u] /\ e.status = "ACTIVE"
                \/ what = "password" /\ e = [account[u] EXCEPT !.password = e.password]
                \/ /\ what = "status" /\ e = [account[u] EXCEPT !.status = e.status]
                   /\ Identity!ValidTransition(account[u].status, e.status)
      BY OpenedIs DEF MayStart
    <3> QED BY <1>1, <3>1, <3>2, <3>3, <3>4 DEF Identity!HandlerCoherent
  <2>2. CASE x # s
    <3>1. /\ handler'[x] = handler[x] /\ user'[x] = user[x] /\ op'[x] = op[x] /\ loaded'[x] = loaded[x]
          /\ selected'[x] = selected[x]
      BY <2>2, CallShape
    <3>2. user[x] \in Person BY <1>3, <3>1 DEF Identity!TypeOK
    <3>3. user[x] # u BY <1>3, <2>2, <3>1, CallShape DEF Identity!Busy
    <3>4. Identity!HandlerCoherent(x)
      BY <1>3, <3>1, <3>2, <3>3, CallShape DEF Identity!Coherent
    <3>5. \A y \in Identity!Slot \ {x} : user'[y] # user'[x]
      BY <3>1, <3>3, <3>4, CallShape DEF Identity!HandlerCoherent
    <3> QED BY <1>1, <3>1, <3>4, <3>5 DEF Identity!HandlerCoherent
  <2> QED BY <2>1, <2>2
<1>4. \A x \in Identity!Slot : handler'[x] = "idle" => user'[x] = Nobody
  BY CallShape DEF Identity!Coherent
<1> QED BY <1>2, <1>3, <1>4 DEF Identity!Coherent

-----------------------------------------------------------------------------
(* Pages.                                                                  *)

(* What is opened stays with its number.                                   *)
NumbersStay ==
  \A u \in Person : Opened(account[u]) =>
    Opened(account'[u]) /\ account'[u].phone = account[u].phone

(* A page that does not move keeps its number's account.                   *)
LEMMA PageFrame ==
  ASSUME Identity!TypeOK, Waiting, NumbersStay, NEW p \in Page,
         \A q \in Page : form'[q].user = form[q].user,
         form'[p] = form[p], op'[p] = op[p], loaded'[p] = loaded[p]
  PROVE  PageGood(p)'
<1>1. PageGood(p) BY DEF Waiting
<1>2. form[p].user # Nobody => form[p].user \in Person
  BY DEF Identity!TypeOK, Identity!Form
<1> QED BY <1>1, <1>2 DEF PageGood, NumbersStay

(* Nobody but pages moves a page.                                          *)
LEMMA PagesFrame ==
  ASSUME Identity!TypeOK, Waiting, NumbersStay, form' = form,
         \A p \in Page : op'[p] = op[p] /\ loaded'[p] = loaded[p]
  PROVE  Waiting'
BY PageFrame DEF Waiting

(* Restaurants that do not change keep their pages while pages move on.    *)
LEMMA RestaurantsFrame ==
  ASSUME Identity!TypeOK, Restaurants, restaurants' = restaurants, lost \subseteq lost',
         \A p \in Page : form[p].step \in {"profile", "done"} =>
           /\ form'[p].user = form[p].user /\ form'[p].step \in {"profile", "done"}
           /\ form[p].step = "done" => form'[p].step = "done"
  PROVE  Restaurants'
<1> SUFFICES ASSUME NEW u \in Person PROVE RestaurantGood(u)' BY DEF Restaurants
<1>1. RestaurantGood(u) BY DEF Restaurants
<1>2. u # Nobody BY NobodyAssumption
<1> QED BY <1>1, <1>2 DEF RestaurantGood

(* What a page may become when its call ends.                              *)
LEMMA FailedIs ==
  ASSUME NEW f \in Identity!Form
  PROVE  /\ Identity!Failed(f) \in Identity!Form /\ Identity!Failed(f).user = f.user /\ Identity!Failed(f).phone = f.phone
         /\ Identity!Failed(f).kind = f.kind
         /\ Identity!Failed(f).step = IF f.step = "profile" THEN "profile" ELSE "account"
BY DEF Identity!Failed, Identity!Form

(* Where a page goes when its call succeeds.                               *)
LEMMA SucceededIs ==
  ASSUME NEW f \in Identity!Form, NEW u \in Person
  PROVE  LET g == Identity!Succeeded(f, u) IN
         /\ g \in Identity!Form /\ g.phone = f.phone
         /\ g.user = IF f.step = "registering" THEN u ELSE f.user
         /\ f.step = "registering" => g.step \in {"login", "done"}
         /\ f.step = "loggingIn" => g.step = "profile"
         /\ f.step = "profile" => g.step = "done"
BY DEF Identity!Succeeded, Identity!Form

(* Who gets an answer.                                                     *)
LEMMA AnsweredIs ==
  ASSUME Identity!TypeOK, NEW s, NEW u \in Person, NEW ok \in BOOLEAN,
         Identity!Answered(s, u, ok)
  PROVE  /\ form' \in [Page -> Identity!Form] /\ lost \subseteq lost' /\ lost' \subseteq Page
         /\ s \notin Page => form' = form
         /\ \A p \in Page : p # s => form'[p] = form[p]
         /\ s \in Page =>
              \/ ok /\ form'[s] = Identity!Succeeded(form[s], u)
              \/ form'[s] = Identity!Failed(form[s]) /\ (ok => s \in lost')
<1>1. CASE s \notin Page BY <1>1 DEF Identity!Answered, Identity!TypeOK
<1>2. CASE s \in Page
  <2>1. form[s] \in Identity!Form /\ Identity!Succeeded(form[s], u) \in Identity!Form /\ Identity!Failed(form[s]) \in Identity!Form
    BY <1>2, FailedIs, SucceededIs DEF Identity!TypeOK
  <2> QED BY <1>2, <2>1 DEF Identity!Answered, Identity!TypeOK
<1> QED BY <1>1, <1>2

-----------------------------------------------------------------------------
(* Handlers that end.                                                      *)

(* A handler that ends frees its own slot and no other.                    *)
LEMMA FinishShape ==
  ASSUME Identity!TypeOK, NEW s \in Identity!Slot, Identity!Finish(s)
  PROVE  /\ handler'[s] = "idle" /\ user'[s] = Nobody /\ op'[s] = "none"
         /\ \A x \in Identity!Slot \ {s} : /\ handler'[x] = handler[x] /\ user'[x] = user[x]
                                  /\ op'[x] = op[x] /\ loaded'[x] = loaded[x] /\ selected'[x] = selected[x]
         /\ handler' \in [Identity!Slot -> {"idle", "select", "update"}]
         /\ user' \in [Identity!Slot -> Person \cup {Nobody}]
         /\ op' \in [Identity!Slot -> {"none", "register", "login", "password", "status"}]
         /\ loaded' \in [Identity!Slot -> Identity!Account] /\ selected' \in [Identity!Slot -> Identity!Account]
         /\ \A x \in Identity!Slot : handler'[x] # "idle" => user'[x] \in Person
BY AbsentIs DEF Identity!Finish, Identity!TypeOK

(* A save of a registration inserts the account unless its number is taken, *)
(* any other save writes columns of the account over what is there.        *)
Inserted(s, u, e, ok) ==
  /\ account[u] = Identity!Absent /\ op[s] = "register" /\ Opened(e) /\ e.status = "ACTIVE"
  /\ \A x \in Identity!Slot \ {s} : user[x] # u
  /\ ok <=> Identity!PhoneFree(u, e.phone)
  /\ account' = IF ok THEN [account EXCEPT ![u] = e] ELSE account
  /\ password' = IF ok THEN [password EXCEPT ![u] = e.password] ELSE password

Overwritten(s, u, e, ok) ==
  /\ op[s] # "register" /\ ok /\ Opened(account[u]) /\ Opened(selected[s]) /\ Opened(e)
  /\ SamePerson(e, account[u]) /\ SamePerson(selected[s], account[u])
  /\ account' = [account EXCEPT ![u] = Identity!Merged(e, selected[s], account[u])]
  /\ password' = IF op[s] = "password" THEN [password EXCEPT ![u] = e.password] ELSE password

(* An update inserts the account or overwrites it, and answers.            *)
LEMMA UpdateShape ==
  ASSUME Identity!TypeOK, Served, NEW s \in Identity!Slot, Identity!SaveUpdate(s)
  PROVE  \E u \in Person, e \in Identity!Account, ok \in BOOLEAN :
           /\ u = user[s] /\ e = loaded[s] /\ handler[s] = "update"
           /\ Identity!Answered(s, u, ok) /\ Identity!Finish(s)
           /\ token' = IF op[s] = "login" THEN token \cup Identity!NewTokens(u, e) ELSE token
           /\ UNCHANGED <<couriers, restaurants, calls, crossed>>
           /\ Inserted(s, u, e, ok) \/ Overwritten(s, u, e, ok)
<1>1. HandlerGood(s) /\ handler[s] = "update" BY DEF Served, Identity!SaveUpdate
<1>2. PICK u \in Person, e \in Identity!Account, b \in Identity!Account : u = user[s] /\ e = loaded[s] /\ b = selected[s]
  BY <1>1 DEF HandlerGood, Identity!TypeOK
<1>3. PICK ok \in BOOLEAN : ok = (b # Identity!Absent \/ Identity!PhoneFree(u, e.phone)) OBVIOUS
<1>4. /\ account' = IF ~ok THEN account
                    ELSE [account EXCEPT ![u] = IF b = Identity!Absent THEN e
                                                ELSE Identity!Merged(e, b, account[u])]
      /\ token' = IF op[s] = "login" THEN token \cup Identity!NewTokens(u, e) ELSE token
      /\ password' = IF ok /\ op[s] \in {"register", "password"}
                   THEN [password EXCEPT ![u] = e.password] ELSE password
      /\ Identity!Answered(s, u, ok) /\ Identity!Finish(s)
      /\ UNCHANGED <<couriers, restaurants, calls, crossed>>
  BY <1>2, <1>3 DEF Identity!SaveUpdate, Identity!TypeOK
<1>5. CASE op[s] = "register"
  <2>1. /\ account[u] = Identity!Absent /\ b = Identity!Absent /\ Opened(e) /\ e.status = "ACTIVE"
        /\ \A x \in Identity!Slot \ {s} : user[x] # u
    BY <1>1, <1>2, <1>5 DEF HandlerGood
  <2>2. Inserted(s, u, e, ok) BY <1>3, <1>4, <1>5, <2>1 DEF Inserted
  <2> QED BY <1>1, <1>2, <1>4, <2>2
<1>6. CASE op[s] # "register"
  <2>1. /\ Opened(account[u]) /\ SamePerson(e, account[u]) /\ Opened(e)
        /\ Opened(b) /\ SamePerson(b, account[u])
    BY <1>1, <1>2, <1>6 DEF HandlerGood
  <2>2. b # Identity!Absent BY <2>1, OpenedIs
  <2>3. ok BY <1>3, <2>2
  <2>4. Overwritten(s, u, e, ok) BY <1>2, <1>4, <1>6, <2>1, <2>2, <2>3 DEF Overwritten
  <2> QED BY <1>1, <1>2, <1>4, <2>4
<1> QED BY <1>5, <1>6

(* The accounts after a save.                                              *)
LEMMA UpdateAccounts ==
  ASSUME Identity!TypeOK, Opening, Identity!OnePhone, NEW s \in Identity!Slot,
         NEW u \in Person, NEW e \in Identity!Account,
         NEW ok \in BOOLEAN, Inserted(s, u, e, ok) \/ Overwritten(s, u, e, ok)
  PROVE  /\ account' \in [Person -> Identity!Account] /\ Opening' /\ Identity!OnePhone' /\ NumbersStay
         /\ password' \in [Person -> Password \cup {NoPassword}]
         /\ \A v \in Person \ {u} : account'[v] = account[v] /\ password'[v] = password[v]
<1>1. e.password \in Password \cup {NoPassword} BY DEF Identity!Account
<1>2. CASE Inserted(s, u, e, ok) /\ ~ok
  BY <1>1, <1>2 DEF Inserted, Identity!TypeOK, Opening, AccountGood, Identity!OnePhone,
     NumbersStay
<1>3. CASE Inserted(s, u, e, ok) /\ ok
  <2>1. /\ account' = [account EXCEPT ![u] = e] /\ password' = [password EXCEPT ![u] = e.password]
        /\ Opened(e) /\ Identity!PhoneFree(u, e.phone) /\ account[u] = Identity!Absent
    BY <1>3 DEF Inserted
  <2>2. account'[u] = e /\ \A v \in Person \ {u} : account'[v] = account[v]
    BY <2>1 DEF Identity!TypeOK
  <2>3. Opening' BY <2>1, <2>2 DEF Opening, AccountGood
  <2>4. Identity!OnePhone'
    <3> SUFFICES ASSUME NEW v \in Person, NEW w \in Person, account'[v] # Identity!Absent,
                        account'[v].phone = account'[w].phone
                 PROVE  v = w
      BY DEF Identity!OnePhone
    <3>1. e.phone # NoPhone BY <2>1, OpenedIs
    <3>2. CASE v = u BY <2>1, <2>2, <3>2 DEF Identity!PhoneFree
    <3>3. CASE w = u BY <2>1, <2>2, <3>3 DEF Identity!PhoneFree
    <3>4. CASE v # u /\ w # u BY <2>2, <3>4 DEF Identity!OnePhone
    <3> QED BY <3>2, <3>3, <3>4
  <2>5. NumbersStay BY <2>1, <2>2, AbsentIs DEF NumbersStay
  <2> QED BY <1>1, <2>1, <2>2, <2>3, <2>4, <2>5 DEF Identity!TypeOK
<1>4. CASE Overwritten(s, u, e, ok)
  <2>1. selected[s] \in Identity!Account /\ account[u] \in Identity!Account
    BY DEF Identity!TypeOK
  <2>2. PICK m \in Identity!Account : m = Identity!Merged(e, selected[s], account[u])
    BY <2>1, AccountMergedIs
  <2>3. Opened(m) /\ m.phone = account[u].phone
    BY <1>4, <2>1, <2>2, MergedOpened DEF Overwritten, SamePerson
  <2>4. account' = [account EXCEPT ![u] = m] /\ Opened(account[u])
    BY <1>4, <2>2 DEF Overwritten
  <2>5. account'[u] = m /\ \A v \in Person \ {u} : account'[v] = account[v]
    BY <2>4 DEF Identity!TypeOK
  <2>6. Opening' BY <2>3, <2>5 DEF Opening, AccountGood
  <2>7. \A v \in Person : account'[v].phone = account[v].phone BY <2>3, <2>5
  <2>8. \A v \in Person : account'[v] # Identity!Absent => account[v] # Identity!Absent
    BY <2>4, <2>5, OpenedIs
  <2>9. Identity!OnePhone' BY <2>7, <2>8 DEF Identity!OnePhone
  <2>10. NumbersStay BY <2>3, <2>5, <2>7 DEF NumbersStay
  <2>11. /\ password' \in [Person -> Password \cup {NoPassword}]
         /\ \A v \in Person \ {u} : password'[v] = password[v]
    BY <1>1, <1>4 DEF Overwritten, Identity!TypeOK
  <2> QED BY <2>4, <2>5, <2>6, <2>9, <2>10, <2>11 DEF Identity!TypeOK
<1> QED BY <1>2, <1>3, <1>4

(* The other handlers go on as they were.                                  *)
LEMMA UpdateServed ==
  ASSUME Identity!TypeOK, Opening, Identity!OnePhone, Served, NEW s \in Identity!Slot,
         NEW u \in Person, NEW e \in Identity!Account,
         NEW ok \in BOOLEAN, Inserted(s, u, e, ok) \/ Overwritten(s, u, e, ok),
         u = user[s], Identity!Finish(s)
  PROVE  Served'
<1>1. ASSUME NEW x \in Identity!Slot PROVE HandlerGood(x)'
  <2>1. CASE x = s BY <2>1, FinishShape DEF HandlerGood
  <2>2. CASE x # s
    <3>1. /\ handler'[x] = handler[x] /\ user'[x] = user[x] /\ op'[x] = op[x] /\ loaded'[x] = loaded[x]
          /\ selected'[x] = selected[x] /\ HandlerGood(x)
      BY <2>2, FinishShape DEF Served
    <3>2. CASE handler[x] = "idle" BY <3>1, <3>2 DEF HandlerGood
    <3>3. CASE handler[x] # "idle" /\ op[x] = "register"
      <4>1. user[x] # u BY <2>2, <3>1, <3>3 DEF HandlerGood
      <4>2. account'[user[x]] = account[user[x]] /\ user[x] \in Person
        BY <3>1, <3>3, <4>1, UpdateAccounts DEF HandlerGood
      <4>3. \A y \in Identity!Slot \ {x} : user'[y] # user[x]
        BY <2>2, <3>1, <3>3, <4>2, FinishShape, NobodyAssumption DEF HandlerGood
      <4> QED BY <3>1, <3>3, <4>2, <4>3 DEF HandlerGood
    <3>4. CASE handler[x] # "idle" /\ op[x] # "register"
      <4>1. user[x] \in Person /\ Opened(account[user[x]]) BY <3>1, <3>4 DEF HandlerGood
      <4>2. Opened(account'[user[x]])
        BY <4>1, UpdateAccounts DEF NumbersStay
      <4>3. SamePerson(account'[user[x]], account[user[x]])
        <5>1. CASE user[x] # u BY <4>1, <5>1, UpdateAccounts DEF SamePerson
        <5>2. CASE user[x] = u
          <6>1. Overwritten(s, u, e, ok) BY <4>1, <5>2, OpenedIs DEF Inserted
          <6>2. selected[s] \in Identity!Account /\ account[u] \in Identity!Account
            BY DEF Identity!TypeOK
          <6>3. SamePerson(Identity!Merged(e, selected[s], account[u]), account[u])
            BY <6>1, <6>2, MergedOpened DEF Overwritten
          <6> QED BY <5>2, <6>1, <6>3 DEF Overwritten, Identity!TypeOK
        <5> QED BY <5>1, <5>2
      <4> QED BY <3>1, <3>4, <4>1, <4>2, <4>3 DEF HandlerGood, SamePerson
    <3> QED BY <3>2, <3>3, <3>4
  <2> QED BY <2>1, <2>2
<1> QED BY <1>1 DEF Served

(* Alone on an account, a handler writes what it was asked for.            *)
LEMMA UpdateCoherent ==
  ASSUME Identity!TypeOK, Opening, Identity!OnePhone, Served, Identity!Coherent,
         Identity!PasswordAsAgreed,
         NEW s \in Identity!Slot, NEW u \in Person, NEW e \in Identity!Account,
         NEW ok \in BOOLEAN, Inserted(s, u, e, ok) \/ Overwritten(s, u, e, ok),
         u = user[s], e = loaded[s], handler[s] = "update", Identity!Finish(s), crossed' = crossed
  PROVE  /\ Identity!Coherent' /\ Identity!PasswordAsAgreed'
         /\ u \notin crossed =>
              \/ Inserted(s, u, e, ok)
              \/ Identity!HandlerCoherent(s) /\ account'[u] = e
<1>1. u \notin crossed => Identity!HandlerCoherent(s) BY DEF Identity!Coherent
<1>2. u \notin crossed /\ Overwritten(s, u, e, ok) => account'[u] = e
  <2> SUFFICES ASSUME u \notin crossed, Overwritten(s, u, e, ok) PROVE account'[u] = e
    OBVIOUS
  <2>1. selected[s] = account[u] /\ account[u] \in Identity!Account
    BY <1>1 DEF Identity!HandlerCoherent, Identity!TypeOK
  <2>2. Identity!Merged(e, selected[s], account[u]) = e BY <2>1, MergedAlone
  <2> QED BY <2>2 DEF Overwritten, Identity!TypeOK
<1>3. Identity!PasswordAsAgreed'
  <2> SUFFICES ASSUME NEW v \in Person, v \notin crossed
    PROVE account'[v].password = password'[v]
    BY DEF Identity!PasswordAsAgreed
  <2>1. account[v].password = password[v] BY DEF Identity!PasswordAsAgreed
  <2>2. CASE v # u BY <2>1, <2>2, UpdateAccounts
  <2>3. CASE v = u /\ Inserted(s, u, e, ok) BY <2>1, <2>3 DEF Inserted, Identity!TypeOK
  <2>4. CASE v = u /\ Overwritten(s, u, e, ok)
    <3>1. account'[u] = e BY <1>2, <2>4
    <3>2. CASE op[s] = "password" BY <2>4, <3>1, <3>2 DEF Overwritten, Identity!TypeOK
    <3>3. CASE op[s] # "password"
      <4>1. password' = password BY <2>4, <3>3 DEF Overwritten
      <4>2. e.password = account[u].password
        BY <1>1, <2>4, <3>3 DEF Identity!HandlerCoherent, Overwritten, Identity!TypeOK,
           Identity!Account
      <4> QED BY <2>1, <2>4, <3>1, <4>1, <4>2
    <3> QED BY <3>2, <3>3
  <2> QED BY <2>2, <2>3, <2>4
<1>4. ASSUME NEW x \in Identity!Slot, handler'[x] # "idle", user'[x] \notin crossed'
      PROVE  Identity!HandlerCoherent(x)'
  <2>1. x # s BY <1>4, FinishShape
  <2>2. /\ handler'[x] = handler[x] /\ user'[x] = user[x] /\ op'[x] = op[x] /\ loaded'[x] = loaded[x]
        /\ selected'[x] = selected[x]
    BY <2>1, FinishShape
  <2>3. Identity!HandlerCoherent(x) /\ user[x] \in Person
    BY <1>4, <2>2 DEF Identity!Coherent, Identity!TypeOK
  <2>4. user[x] # u BY <2>1, <2>3 DEF Identity!HandlerCoherent
  <2>5. account'[user[x]] = account[user[x]] BY <2>3, <2>4, UpdateAccounts
  <2>6. \A y \in Identity!Slot \ {x} : user'[y] # user[x]
    BY <2>3, FinishShape, NobodyAssumption DEF Identity!HandlerCoherent
  <2> QED BY <2>2, <2>3, <2>5, <2>6 DEF Identity!HandlerCoherent
<1>5. \A x \in Identity!Slot : handler'[x] = "idle" => user'[x] = Nobody
  BY FinishShape DEF Identity!Coherent
<1>6. Identity!Coherent' BY <1>4, <1>5 DEF Identity!Coherent
<1> QED BY <1>1, <1>2, <1>3, <1>6

(* A page whose call ends moves on, or back to its form.                   *)
LEMMA EndWaiting ==
  ASSUME Identity!TypeOK, Waiting, Served, NumbersStay, NEW s \in Identity!Slot,
         NEW u \in Person, NEW ok \in BOOLEAN,
         u = user[s], handler[s] # "idle", Identity!Finish(s), Identity!Answered(s, u, ok),
         ok /\ op[s] = "register" => Opened(account'[u]) /\ account'[u].phone = loaded[s].phone
  PROVE  Waiting'
<1>1. CASE s \notin Page
  <2>1. form' = form BY <1>1, AnsweredIs
  <2>2. \A p \in Page : op'[p] = op[p] /\ loaded'[p] = loaded[p]
    BY <1>1, FinishShape DEF Identity!Slot
  <2> QED BY <2>1, <2>2, PagesFrame
<1>2. CASE s \in Page
  <2>1. PageGood(s) /\ form[s] \in Identity!Form /\ HandlerGood(s)
    BY <1>2 DEF Waiting, Identity!TypeOK, Served
  <2>2. op[s] \in {"register", "login"} BY <2>1 DEF PageGood, HandlerGood
  <2>3. \A p \in Page \ {s} : form'[p] = form[p] BY AnsweredIs
  <2>4. op'[s] = "none" BY FinishShape
  <2>5. CASE ok /\ form'[s] = Identity!Succeeded(form[s], u) /\ op[s] = "register"
    <3>1. /\ form[s].step = "registering" /\ loaded[s].phone = form[s].phone
          /\ account[u] = Identity!Absent
      BY <2>1, <2>5 DEF PageGood, HandlerGood
    <3>2. /\ form'[s].user = u /\ form'[s].phone = form[s].phone
          /\ form'[s].step \in {"login", "done"}
      BY <2>1, <2>5, <3>1, SucceededIs
    <3>3. Opened(account'[u]) /\ account'[u].phone = form'[s].phone BY <2>5, <3>1, <3>2
    <3>4. \A q \in Page \ {s} : form[q].user # u
      <4>1. ASSUME NEW q \in Page \ {s}, form[q].user = u PROVE FALSE
        <5>1. Opened(account[u]) BY <4>1, NobodyAssumption DEF Waiting, PageGood
        <5> QED BY <3>1, <5>1, AbsentIs
      <4> QED BY <4>1
    <3>5. PageGood(s)'
      <4>1. \A q \in Page : form'[q].user = form'[s].user => q = s BY <2>3, <3>2, <3>4
      <4>2. Opened(account'[form'[s].user]) /\ account'[form'[s].user].phone = form'[s].phone
        BY <3>2, <3>3
      <4>3. form'[s].step # "registering" /\ form'[s].step # "loggingIn" BY <3>2
      <4>4. form'[s].user # Nobody BY <3>2, NobodyAssumption
      <4> QED BY <2>4, <4>1, <4>2, <4>3, <4>4 DEF PageGood
    <3>6. ASSUME NEW p \in Page \ {s} PROVE PageGood(p)'
      <4>1. PageGood(p) /\ form'[p] = form[p] /\ op'[p] = op[p] /\ loaded'[p] = loaded[p]
        BY <2>3, <3>6, FinishShape DEF Waiting, Identity!Slot
      <4>2. form[p].user # Nobody => form[p].user \in Person
        BY DEF Identity!TypeOK, Identity!Form
      <4>3. form[p].user # Nobody =>
              /\ Opened(account'[form[p].user])
              /\ form[p].step \in Identity!Beyond =>
                   account'[form[p].user].phone = form[p].phone
        BY <4>1, <4>2 DEF PageGood, NumbersStay
      <4>4. \A q \in Page : form'[q].user = form[p].user /\ form[p].user # Nobody => q = p
        BY <2>3, <3>2, <3>4, <4>1 DEF PageGood
      <4> QED BY <4>1, <4>3, <4>4 DEF PageGood
    <3> QED BY <3>5, <3>6 DEF Waiting
  <2>6. ASSUME form'[s].user = form[s].user, form'[s].phone = form[s].phone,
               \/ form'[s].step = "account"
               \/ form'[s].step = "profile" /\ form[s].step = "loggingIn"
        PROVE  Waiting'
    <3>1. \A q \in Page : form'[q].user = form[q].user BY <2>3, <2>6
    <3>2. form[s].user # Nobody => form[s].user \in Person BY <2>1 DEF Identity!Form
    <3>3. form[s].user # Nobody =>
            /\ Opened(account'[form[s].user])
            /\ form[s].step = "loggingIn" =>
                 account'[form[s].user].phone = form[s].phone
      BY <2>1, <3>2 DEF PageGood, NumbersStay, Identity!Beyond
    <3>4. PageGood(s)' BY <2>1, <2>4, <2>6, <3>1, <3>3 DEF PageGood, Identity!Beyond
    <3>5. \A p \in Page \ {s} : PageGood(p)'
      BY <2>3, <3>1, FinishShape, PageFrame DEF Identity!Slot
    <3> QED BY <3>4, <3>5 DEF Waiting
  <2>7. CASE ok /\ form'[s] = Identity!Succeeded(form[s], u) /\ op[s] = "login"
    <3>1. form[s].step = "loggingIn" BY <2>1, <2>7 DEF PageGood
    <3>2. form'[s].user = form[s].user /\ form'[s].phone = form[s].phone
          /\ form'[s].step = "profile"
      BY <2>1, <2>7, <3>1, SucceededIs
    <3> QED BY <2>6, <3>1, <3>2
  <2>8. CASE form'[s] = Identity!Failed(form[s])
    <3>1. form[s].step # "profile" BY <2>1, <2>2 DEF PageGood
    <3> QED BY <2>1, <2>6, <2>8, <3>1, FailedIs
  <2> QED BY <1>2, <2>2, <2>5, <2>7, <2>8, AnsweredIs
<1> QED BY <1>1, <1>2

(* The end of a call leaves restaurants with their pages.                  *)
LEMMA EndRestaurants ==
  ASSUME Identity!TypeOK, Waiting, Served, Restaurants, NEW s \in Identity!Slot,
         NEW u \in Person, NEW ok \in BOOLEAN,
         u = user[s], handler[s] # "idle", Identity!Answered(s, u, ok), restaurants' = restaurants
  PROVE  Restaurants'
<1>1. lost \subseteq lost' BY AnsweredIs
<1>2. ASSUME NEW p \in Page, form[p].step \in {"profile", "done"} PROVE form'[p] = form[p]
  <2>1. CASE p # s BY <2>1, AnsweredIs
  <2>2. CASE p = s
    <3>1. PageGood(s) /\ HandlerGood(s) BY <2>2 DEF Waiting, Served
    <3>2. op[s] \in {"register", "login"} BY <3>1 DEF PageGood, HandlerGood
    <3>3. form[s].step \in {"registering", "loggingIn"} BY <3>1, <3>2 DEF PageGood
    <3> QED BY <1>2, <2>2, <3>3
  <2> QED BY <2>1, <2>2
<1> QED BY <1>1, <1>2, RestaurantsFrame

-----------------------------------------------------------------------------
(* The steps.                                                              *)

(* Tokens of an account that was opened carry plain roles.                 *)
LEMMA TokensPlainKept ==
  ASSUME TokensPlain, NEW u, NEW e \in Identity!Account, Opened(e),
         token' \subseteq token \cup Identity!NewTokens(u, e)
  PROVE  TokensPlain'
BY DEF TokensPlain, Identity!NewTokens, Opened

(* New tokens are tokens.                                                  *)
LEMMA TokensTyped ==
  ASSUME NEW u \in Person, NEW e \in Identity!Account
  PROVE Identity!NewTokens(u, e) \subseteq Identity!Token
BY DEF Identity!NewTokens, Identity!Token, Identity!Account

(* An update keeps the invariant.                                          *)
LEMMA UpdateKeeps ==
  ASSUME IdentityIInv, NEW s \in Identity!Slot, Identity!SaveUpdate(s)
  PROVE  IdentityIInv'
<1> USE DEF IdentityIInv
<1>1. PICK u \in Person, e \in Identity!Account, ok \in BOOLEAN :
           /\ u = user[s] /\ e = loaded[s] /\ handler[s] = "update"
           /\ Identity!Answered(s, u, ok) /\ Identity!Finish(s)
           /\ token' = IF op[s] = "login" THEN token \cup Identity!NewTokens(u, e) ELSE token
           /\ UNCHANGED <<couriers, restaurants, calls, crossed>>
           /\ Inserted(s, u, e, ok) \/ Overwritten(s, u, e, ok)
  BY UpdateShape
<1>2. /\ account' \in [Person -> Identity!Account] /\ Opening' /\ Identity!OnePhone' /\ NumbersStay
      /\ password' \in [Person -> Password \cup {NoPassword}]
  BY <1>1, UpdateAccounts
<1>3. Served' BY <1>1, UpdateServed
<1>4. Identity!Coherent' /\ Identity!PasswordAsAgreed' BY <1>1, UpdateCoherent
<1>5. Opened(e) BY <1>1 DEF Inserted, Overwritten
<1>6. TokensPlain' BY <1>1, <1>5, TokensPlainKept
<1>8. ok /\ op[s] = "register" => Opened(account'[u]) /\ account'[u].phone = loaded[s].phone
  BY <1>1, <1>5 DEF Inserted, Overwritten, Identity!TypeOK
<1>9. Waiting' BY <1>1, <1>2, <1>8, EndWaiting
<1>10. Restaurants' BY <1>1, EndRestaurants
<1>11. token' \subseteq Identity!Token
  <2>1. Identity!NewTokens(u, e) \subseteq Identity!Token BY TokensTyped
  <2> QED BY <1>1, <2>1 DEF Identity!TypeOK
<1>12. Identity!TypeOK'
  <2>1. form' \in [Page -> Identity!Form] /\ lost' \subseteq Page BY <1>1, AnsweredIs
  <2> QED BY <1>1, <1>2, <1>11, <2>1, FinishShape DEF Identity!TypeOK
<1> QED BY <1>2, <1>3, <1>4, <1>6, <1>9, <1>10, <1>12

(* A handler that dies keeps the invariant.                                *)
LEMMA AbortKeeps ==
  ASSUME IdentityIInv, NEW s \in Identity!Slot, Identity!Abort(s)
  PROVE  IdentityIInv'
<1> USE DEF IdentityIInv
<1>1. HandlerGood(s) /\ handler[s] # "idle" /\ Identity!Finish(s)
      /\ UNCHANGED <<account, token, couriers, restaurants, calls, password, crossed>>
  BY DEF Identity!Abort, Served
<1>2. PICK u \in Person, ok \in BOOLEAN : u = user[s] /\ ok = FALSE
  BY <1>1 DEF HandlerGood
<1>3. Identity!Answered(s, u, ok) BY <1>2 DEF Identity!Abort
<1>4. NumbersStay BY <1>1 DEF NumbersStay
<1>5. Waiting' BY <1>1, <1>2, <1>3, <1>4, EndWaiting
<1>6. Restaurants' BY <1>1, <1>2, <1>3, EndRestaurants
<1>7. Identity!TypeOK'
  <2>1. form' \in [Page -> Identity!Form] /\ lost' \subseteq Page BY <1>3, AnsweredIs
  <2> QED BY <1>1, <2>1, FinishShape DEF Identity!TypeOK
<1>8. ASSUME NEW x \in Identity!Slot
      PROVE  /\ HandlerGood(x)'
             /\ handler'[x] # "idle" /\ user'[x] \notin crossed' => Identity!HandlerCoherent(x)'
             /\ handler'[x] = "idle" => user'[x] = Nobody
  <2>1. CASE x = s BY <1>1, <2>1, FinishShape DEF HandlerGood
  <2>2. CASE x # s
    <3>1. /\ handler'[x] = handler[x] /\ user'[x] = user[x] /\ op'[x] = op[x] /\ loaded'[x] = loaded[x]
          /\ selected'[x] = selected[x]
      BY <1>1, <2>2, FinishShape
    <3>2. \A y \in Identity!Slot : user'[y] \in {user[y], Nobody} BY <1>1, FinishShape
    <3>3. HandlerGood(x) BY DEF Served
    <3>4. handler[x] # "idle" => user[x] \in Person /\ user[x] # Nobody
      BY <3>3, NobodyAssumption DEF HandlerGood
    <3>5. HandlerGood(x)' BY <1>1, <3>1, <3>2, <3>3, <3>4 DEF HandlerGood
    <3>6. ASSUME handler[x] # "idle", user[x] \notin crossed
      PROVE Identity!HandlerCoherent(x)'
      <4>1. Identity!HandlerCoherent(x) BY <3>6 DEF Identity!Coherent
      <4> QED BY <1>1, <3>1, <3>2, <3>4, <3>6, <4>1 DEF Identity!HandlerCoherent
    <3> QED BY <1>1, <3>1, <3>3, <3>5, <3>6 DEF HandlerGood
  <2> QED BY <2>1, <2>2
<1>9. Served' /\ Identity!Coherent' BY <1>8 DEF Served, Identity!Coherent
<1>10. Opening' /\ Identity!OnePhone' /\ Identity!PasswordAsAgreed' /\ TokensPlain'
  BY <1>1 DEF Opening, AccountGood, Identity!OnePhone, Identity!PasswordAsAgreed,
     TokensPlain
<1> QED BY <1>5, <1>6, <1>7, <1>9, <1>10

(* TypeORM's select keeps the invariant.                                   *)
LEMMA SelectKeeps ==
  ASSUME IdentityIInv, NEW s \in Identity!Slot, Identity!SaveSelect(s)
  PROVE  IdentityIInv'
<1> USE DEF IdentityIInv
<1>1. /\ handler[s] = "select" /\ handler' = [handler EXCEPT ![s] = "update"]
      /\ selected' = [selected EXCEPT ![s] = account[user[s]]]
      /\ UNCHANGED <<account, token, couriers, restaurants, form, user, op, loaded,
                     calls, password, crossed, lost>>
  BY DEF Identity!SaveSelect
<1>2. HandlerGood(s) /\ user[s] \in Person BY <1>1 DEF Served, HandlerGood
<1>3. Identity!TypeOK' BY <1>1, <1>2 DEF Identity!TypeOK
<1>4. /\ handler'[s] = "update" /\ selected'[s] = account[user[s]]
      /\ \A x \in Identity!Slot \ {s} : handler'[x] = handler[x] /\ selected'[x] = selected[x]
  BY <1>1 DEF Identity!TypeOK
<1>5. ASSUME NEW x \in Identity!Slot PROVE HandlerGood(x)'
  <2>1. HandlerGood(x) BY DEF Served
  <2>2. CASE x = s BY <1>1, <1>4, <2>1, <2>2 DEF HandlerGood, SamePerson
  <2>3. CASE x # s BY <1>1, <1>4, <2>1, <2>3 DEF HandlerGood
  <2> QED BY <2>2, <2>3
<1>6. ASSUME NEW x \in Identity!Slot, handler'[x] # "idle", user'[x] \notin crossed'
      PROVE  Identity!HandlerCoherent(x)'
  <2>1. Identity!HandlerCoherent(x) BY <1>1, <1>4, <1>6 DEF Identity!Coherent
  <2>2. CASE x = s BY <1>1, <1>4, <2>1, <2>2 DEF Identity!HandlerCoherent
  <2>3. CASE x # s BY <1>1, <1>4, <2>1, <2>3 DEF Identity!HandlerCoherent
  <2> QED BY <2>2, <2>3
<1>7. \A x \in Identity!Slot : handler'[x] = "idle" => user'[x] = Nobody
  BY <1>1, <1>4 DEF Identity!Coherent
<1>8. NumbersStay BY <1>1 DEF NumbersStay
<1>9. Waiting' BY <1>1, <1>8, PagesFrame
<1>10. Restaurants' BY <1>1, RestaurantsFrame
<1>11. Opening' /\ Identity!OnePhone' /\ Identity!PasswordAsAgreed' /\ TokensPlain'
  BY <1>1 DEF Opening, AccountGood, Identity!OnePhone, Identity!PasswordAsAgreed,
     TokensPlain
<1> QED BY <1>3, <1>5, <1>6, <1>7, <1>9, <1>10, <1>11 DEF Served, Identity!Coherent

(* A step that leaves accounts and handlers alone.                         *)
LEMMA QuietKeeps ==
  ASSUME Identity!TypeOK, Opening, Served, Identity!Coherent, Identity!OnePhone,
         Identity!PasswordAsAgreed,
         UNCHANGED <<account, Identity!memory, password, crossed>>
  PROVE  Opening' /\ Served' /\ Identity!Coherent' /\ Identity!OnePhone' /\ Identity!PasswordAsAgreed' /\ NumbersStay
         /\ op' = op /\ loaded' = loaded
<1>1. Served' BY DEF Identity!memory, Served, HandlerGood
<1>2. Identity!Coherent'
  BY DEF Identity!memory, Identity!Coherent, Identity!HandlerCoherent
<1>3. Opening' /\ Identity!OnePhone' /\ Identity!PasswordAsAgreed' /\ NumbersStay
  BY DEF Opening, AccountGood, Identity!OnePhone, Identity!PasswordAsAgreed, NumbersStay
<1> QED BY <1>1, <1>2, <1>3 DEF Identity!memory

(* A refresh and a token that expires keep the invariant.                  *)
LEMMA TokenKeeps ==
  ASSUME IdentityIInv, (\E u \in Person : Identity!Refresh(u)) \/ (\E t \in token : Identity!Expire(t))
  PROVE IdentityIInv'
<1> USE DEF IdentityIInv
<1>1. UNCHANGED <<account, couriers, restaurants, form, Identity!memory, calls, password, crossed, lost>>
  BY DEF Identity!Refresh, Identity!Expire
<1>2. Opening' /\ Served' /\ Identity!Coherent' /\ Identity!OnePhone' /\ Identity!PasswordAsAgreed' /\ NumbersStay
      /\ op' = op /\ loaded' = loaded
  BY <1>1, QuietKeeps
<1>3. Waiting' BY <1>1, <1>2, PagesFrame
<1>4. Restaurants' BY <1>1, RestaurantsFrame
<1>5. token' \subseteq Identity!Token /\ TokensPlain'
  <2>1. CASE \E t \in token : Identity!Expire(t)
    BY <2>1 DEF Identity!Expire, Identity!TypeOK, TokensPlain
  <2>2. CASE \E u \in Person : Identity!Refresh(u)
    <3>1. PICK u \in Person : Identity!Refresh(u) BY <2>2
    <3>2. PICK e \in Identity!Account : e = account[u] BY DEF Identity!TypeOK
    <3>3. token' = token \cup Identity!NewTokens(u, e) /\ e # Identity!Absent
      BY <3>1, <3>2 DEF Identity!Refresh, Identity!MayRefresh
    <3>4. Opened(e) BY <3>2, <3>3 DEF Opening, AccountGood
    <3> QED BY <3>3, <3>4, TokensTyped, TokensPlainKept DEF Identity!TypeOK
  <2> QED BY <2>1, <2>2
<1>6. Identity!TypeOK' BY <1>1, <1>5 DEF Identity!TypeOK, Identity!memory
<1> QED BY <1>2, <1>3, <1>4, <1>5, <1>6

(* A page that is refused, or sends its second form.                       *)
LEMMA RefusedKeeps ==
  ASSUME IdentityIInv, NEW p \in Page, Identity!PageLoginRefused(p)
  PROVE  IdentityIInv'
<1> USE DEF IdentityIInv
<1>1. /\ form[p].step = "login" /\ form' = [form EXCEPT ![p] = Identity!Failed(form[p])]
      /\ UNCHANGED <<account, token, couriers, restaurants, Identity!memory, calls, password,
                     crossed, lost>>
  BY DEF Identity!PageLoginRefused
<1>2. Opening' /\ Served' /\ Identity!Coherent' /\ Identity!OnePhone' /\ Identity!PasswordAsAgreed' /\ NumbersStay
      /\ op' = op /\ loaded' = loaded
  BY <1>1, QuietKeeps
<1>3. form[p] \in Identity!Form /\ PageGood(p) BY DEF Identity!TypeOK, Waiting
<1>4. /\ form'[p].user = form[p].user /\ form'[p].phone = form[p].phone
      /\ form'[p].step = "account" /\ form' \in [Page -> Identity!Form]
      /\ \A q \in Page \ {p} : form'[q] = form[q]
  BY <1>1, <1>3, FailedIs DEF Identity!TypeOK
<1>5. \A q \in Page : form'[q].user = form[q].user BY <1>4
<1>6. PageGood(p)'
  <2>1. op[p] = "none" BY <1>1, <1>3 DEF PageGood
  <2>2. form[p].user # Nobody => form[p].user \in Person BY <1>3 DEF Identity!Form
  <2> QED BY <1>2, <1>3, <1>4, <1>5, <2>1, <2>2 DEF PageGood, NumbersStay, Identity!Beyond
<1>7. Waiting' BY <1>2, <1>4, <1>5, <1>6, PageFrame DEF Waiting
<1>8. Restaurants' BY <1>1, <1>4, <1>5, RestaurantsFrame
<1>9. Identity!TypeOK' BY <1>1, <1>4 DEF Identity!TypeOK, Identity!memory
<1>10. TokensPlain' BY <1>1 DEF TokensPlain
<1> QED BY <1>2, <1>7, <1>8, <1>9, <1>10

(* The second form of a registration page keeps the invariant.             *)
LEMMA ProfileKeeps ==
  ASSUME IdentityIInv, NEW p \in Page, Identity!SubmitProfile(p)
  PROVE  IdentityIInv'
<1> USE DEF IdentityIInv
<1>1. PageGood(p) /\ form[p] \in Identity!Form /\ form[p].step = "profile"
  BY DEF Waiting, Identity!TypeOK, Identity!SubmitProfile
<1>2. PICK u \in Person, ok \in BOOLEAN :
        u = form[p].user /\ ok = (form[p].kind = "merchant" \/ couriers[u] = 0)
  BY <1>1 DEF PageGood, Identity!Form, Identity!Beyond
<1>3. /\ calls' = calls + 1
      /\ couriers' = IF form[p].kind = "driver" THEN [couriers EXCEPT ![u] = 1] ELSE couriers
      /\ restaurants' = IF form[p].kind = "merchant"
                        THEN [restaurants EXCEPT ![u] = restaurants[u] + 1] ELSE restaurants
      /\ Identity!Answered(p, u, ok)
      /\ UNCHANGED <<account, token, Identity!memory, password, crossed>>
  BY <1>2 DEF Identity!SubmitProfile
<1>4. Opening' /\ Served' /\ Identity!Coherent' /\ Identity!OnePhone' /\ Identity!PasswordAsAgreed' /\ NumbersStay
      /\ op' = op /\ loaded' = loaded
  BY <1>3, QuietKeeps
<1>5. /\ form' \in [Page -> Identity!Form] /\ lost \subseteq lost' /\ lost' \subseteq Page
      /\ \A q \in Page : q # p => form'[q] = form[q]
      /\ \/ ok /\ form'[p] = Identity!Succeeded(form[p], u)
         \/ form'[p] = Identity!Failed(form[p]) /\ (ok => p \in lost')
  BY <1>3, AnsweredIs
<1>6. /\ form'[p].user = u /\ form'[p].phone = form[p].phone
      /\ form'[p].step \in {"profile", "done"}
      /\ form'[p].step = "done" \/ (ok => p \in lost')
  BY <1>1, <1>2, <1>5, FailedIs, SucceededIs
<1>7. \A q \in Page : form'[q].user = form[q].user BY <1>2, <1>5, <1>6
<1>8. PageGood(p)'
  <2>1. op[p] = "none" BY <1>1 DEF PageGood
  <2>2. /\ Opened(account[u]) /\ account[u].phone = form[p].phone
        /\ \A q \in Page : form[q].user = u => q = p
    BY <1>1, <1>2, NobodyAssumption DEF PageGood, Identity!Beyond
  <2> QED BY <1>2, <1>4, <1>6, <1>7, <2>1, <2>2, NobodyAssumption DEF PageGood,
     NumbersStay, Identity!Beyond
<1>9. Waiting' BY <1>4, <1>5, <1>7, <1>8, PageFrame DEF Waiting
<1>10. ASSUME NEW v \in Person PROVE RestaurantGood(v)'
  <2>1. RestaurantGood(v) BY DEF Restaurants
  <2>2. CASE v = u /\ form[p].kind = "merchant"
    <3>1. ok /\ restaurants'[u] = restaurants[u] + 1
      BY <1>2, <1>3, <2>2 DEF Identity!TypeOK
    <3>2. restaurants[u] = 0 \/ p \in lost
      <4>1. \A q \in Page : form[q].user = u => q = p
        BY <1>1, <1>2, NobodyAssumption DEF PageGood
      <4> QED BY <1>1, <2>1, <2>2, <4>1 DEF RestaurantGood
    <3> QED BY <1>5, <1>6, <2>2, <3>1, <3>2 DEF RestaurantGood
  <2>3. CASE ~(v = u /\ form[p].kind = "merchant")
    <3>1. restaurants'[v] = restaurants[v] BY <1>3, <2>3 DEF Identity!TypeOK
    <3>2. \A q \in Page :
            /\ form[q].step = "done" => form'[q].step = "done"
            /\ form[q].step \in {"profile", "done"} => form'[q].step \in {"profile", "done"}
      BY <1>1, <1>5, <1>6
    <3> QED BY <1>5, <1>7, <2>1, <3>1, <3>2 DEF RestaurantGood
  <2> QED BY <2>2, <2>3
<1>11. Restaurants' BY <1>10 DEF Restaurants
<1>12. Identity!TypeOK' BY <1>3, <1>5 DEF Identity!TypeOK, Identity!memory
<1>13. TokensPlain' BY <1>3 DEF TokensPlain
<1> QED BY <1>4, <1>9, <1>11, <1>12, <1>13

(* A call by anybody, who may be a page at one of its buttons.             *)
LEMMA CallKeeps ==
  ASSUME IdentityIInv, NEW s \in Identity!Slot, NEW u \in Person,
         NEW what \in {"register", "login", "password", "status"},
         NEW e \in Identity!Account, MayStart(u, what, e), Identity!Call(s, u, what, e),
         form' \in [Page -> Identity!Form],
         \A q \in Page : form'[q].user = form[q].user,
         \A q \in Page : q # s => form'[q] = form[q],
         s \in Page =>
           \/ /\ what = "register" /\ form[s].step = "account"
              /\ form'[s].step = "registering" /\ e.phone = form'[s].phone
           \/ /\ what = "login" /\ form[s].step = "login" /\ form'[s].step = "loggingIn"
              /\ form'[s].phone = form[s].phone
  PROVE  IdentityIInv'
<1> USE DEF IdentityIInv
<1>1. UNCHANGED <<account, token, couriers, restaurants, selected, password, lost>>
  BY DEF Identity!Call
<1>2. Identity!TypeOK' BY CallTyped
<1>3. Served' BY CallServed
<1>4. Identity!Coherent' /\ Identity!PasswordAsAgreed' BY CallCoherent
<1>5. NumbersStay BY <1>1 DEF NumbersStay
<1>6. ASSUME NEW p \in Page, p # s PROVE PageGood(p)'
  BY <1>5, <1>6, CallShape, PageFrame DEF Identity!Slot
<1>7. ASSUME s \in Page PROVE PageGood(s)'
  <2>1. PageGood(s) /\ form[s] \in Identity!Form BY <1>7 DEF Waiting, Identity!TypeOK
  <2>2. form[s].user # Nobody => form[s].user \in Person BY <2>1 DEF Identity!Form
  <2>3. op'[s] = what /\ loaded'[s] = e BY CallShape
  <2>4. form[s].user # Nobody =>
          /\ Opened(account'[form[s].user])
          /\ form[s].step = "login" => account'[form[s].user].phone = form[s].phone
    BY <1>5, <1>7, <2>1, <2>2 DEF PageGood, NumbersStay, Identity!Beyond
  <2>5. \A q \in Page : form'[q].user = form'[s].user /\ form'[s].user # Nobody => q = s
    BY <1>7, <2>1 DEF PageGood
  <2>6. form[s].step = "login" => form[s].user # Nobody
    BY <2>1 DEF PageGood, Identity!Beyond
  <2> QED BY <1>7, <2>3, <2>4, <2>5, <2>6 DEF PageGood, Identity!Beyond
<1>8. Waiting' BY <1>6, <1>7 DEF Waiting
<1>9. Restaurants'
  <2>1. \A q \in Page : form[q].step \in {"profile", "done"} => form'[q] = form[q]
    OBVIOUS
  <2> QED BY <1>1, <2>1, RestaurantsFrame
<1>10. Opening' /\ Identity!OnePhone' /\ TokensPlain'
  BY <1>1 DEF Opening, AccountGood, Identity!OnePhone, TokensPlain
<1> QED BY <1>2, <1>3, <1>4, <1>8, <1>9, <1>10

(* register calls with an account that is opened, on an id nobody has.     *)
LEMMA RegisterMay ==
  ASSUME NEW s, NEW u \in Person, NEW phone \in Phone, NEW requested,
         NEW word \in Password,
         Identity!Register(s, u, phone, requested, word)
  PROVE  \E e \in Identity!Account :
           MayStart(u, "register", e) /\ Identity!Call(s, u, "register", e) /\ e.phone = phone
<1> DEFINE e == [phone |-> phone, roles |-> Identity!Sanitized(requested), status |-> "ACTIVE",
                 password |-> word]
<1>1. Identity!Sanitized(requested) \subseteq PlainRoles BY SanitizedPlain
<1>2. e \in Identity!Account
  BY <1>1 DEF Identity!Account, PlainRoles, Identity!UserRole, Identity!UserStatus
<1>3. Opened(e) BY <1>1 DEF Opened, Identity!UserStatus
<1>4. Identity!Call(s, u, "register", e) /\ account[u] = Identity!Absent /\ ~Identity!Busy(u)
  BY DEF Identity!Register, Identity!Fresh
<1> QED BY <1>2, <1>3, <1>4 DEF MayStart

(* login calls with the active account it found.                           *)
LEMMA LoginMay ==
  ASSUME Identity!TypeOK, Opening, NEW s, NEW u \in Person, NEW phone, NEW word,
         Identity!Login(s, u, phone, word)
  PROVE  \E e \in Identity!Account : MayStart(u, "login", e) /\ Identity!Call(s, u, "login", e)
<1>1. account[u] \in Identity!Account /\ Opened(account[u]) /\ account[u].status = "ACTIVE"
  BY DEF Identity!TypeOK, Opening, AccountGood, Identity!Login, Identity!MayLogin
<1> QED BY <1>1 DEF Identity!Login, MayStart

(* changePassword calls with a new password and nothing else new.          *)
LEMMA ChangeMay ==
  ASSUME Identity!TypeOK, Opening, NEW s, NEW u \in Person, NEW current \in Password,
         NEW new \in Password,
         Identity!ChangePassword(s, u, current, new)
  PROVE  \E e \in Identity!Account : MayStart(u, "password", e) /\ Identity!Call(s, u, "password", e)
<1>1. account[u] \in Identity!Account /\ Opened(account[u])
  BY AbsentIs, NobodyAssumption DEF Identity!TypeOK, Opening, AccountGood,
     Identity!ChangePassword
<1>2. PICK e : e = [account[u] EXCEPT !.password = new] OBVIOUS
<1>3. e \in Identity!Account /\ Opened(e) /\ e.password = new
  BY <1>1, <1>2 DEF Identity!Account, Opened
<1> QED BY <1>1, <1>2, <1>3 DEF Identity!ChangePassword, MayStart

(* updateUserStatus calls with a status reached by a valid transition.     *)
LEMMA StatusMay ==
  ASSUME Identity!TypeOK, Opening, NEW s, NEW u \in Person,
         NEW status \in Identity!UserStatus,
         Identity!UpdateUserStatus(s, u, status)
  PROVE  \E e \in Identity!Account : MayStart(u, "status", e) /\ Identity!Call(s, u, "status", e)
<1>1. account[u] \in Identity!Account /\ Opened(account[u]) /\ Identity!ValidTransition(account[u].status, status)
  BY AbsentIs DEF Identity!TypeOK, Opening, AccountGood, Identity!UpdateUserStatus,
     Identity!ValidTransition
<1>2. PICK e : e = [account[u] EXCEPT !.status = status] OBVIOUS
<1>3. e \in Identity!Account /\ Opened(e) /\ e.status = status
  BY <1>1, <1>2 DEF Identity!Account, Opened
<1> QED BY <1>1, <1>2, <1>3 DEF Identity!UpdateUserStatus, MayStart

(* Every step of identity-service keeps the invariant.                     *)
LEMMA StepKeeps == IdentityIInv /\ [Identity!Next]_(Identity!vars) => IdentityIInv'
<1> SUFFICES ASSUME IdentityIInv, [Identity!Next]_(Identity!vars)
  PROVE IdentityIInv' OBVIOUS
<1>1. ASSUME NEW p \in Page, NEW u \in Person, NEW k \in {"consumer", "driver", "merchant"},
             NEW n \in Phone, NEW w \in Password, Identity!SubmitAccount(p, u, k, n, w)
      PROVE  IdentityIInv'
  <2>1. form[p] \in Identity!Form BY DEF IdentityIInv, Identity!TypeOK
  <2>2. /\ form[p].step = "account"
        /\ form' = [form EXCEPT ![p] = [step |-> "registering", kind |-> k, phone |-> n,
                                        password |-> w, user |-> form[p].user]]
        /\ Identity!Register(p, u, n, Identity!RolesOf(k), w)
    BY <1>1 DEF Identity!SubmitAccount
  <2>3. PICK e \in Identity!Account :
          MayStart(u, "register", e) /\ Identity!Call(p, u, "register", e) /\ e.phone = n
    BY <2>2, RegisterMay
  <2>4. /\ form' \in [Page -> Identity!Form] /\ form'[p].user = form[p].user /\ form'[p].phone = n
        /\ form'[p].step = "registering" /\ \A q \in Page : q # p => form'[q] = form[q]
    BY <2>1, <2>2 DEF IdentityIInv, Identity!TypeOK, Identity!Form
  <2>5. \A q \in Page : form'[q].user = form[q].user BY <2>4
  <2> QED BY <2>2, <2>3, <2>4, <2>5, CallKeeps DEF Identity!Slot
<1>2. ASSUME NEW p \in Page, NEW u \in Person, Identity!PageLogin(p, u)
  PROVE IdentityIInv'
  <2>1. form[p] \in Identity!Form BY DEF IdentityIInv, Identity!TypeOK
  <2>2. /\ form[p].step = "login" /\ form' = [form EXCEPT ![p].step = "loggingIn"]
        /\ Identity!Login(p, u, form[p].phone, form[p].password)
    BY <1>2 DEF Identity!PageLogin
  <2>3. PICK e \in Identity!Account : MayStart(u, "login", e) /\ Identity!Call(p, u, "login", e)
    BY <2>2, LoginMay DEF IdentityIInv
  <2>4. /\ form' \in [Page -> Identity!Form] /\ form'[p].user = form[p].user
        /\ form'[p].phone = form[p].phone
        /\ form'[p].step = "loggingIn" /\ \A q \in Page : q # p => form'[q] = form[q]
    BY <2>1, <2>2 DEF IdentityIInv, Identity!TypeOK, Identity!Form
  <2>5. \A q \in Page : form'[q].user = form[q].user BY <2>4
  <2> QED BY <2>2, <2>3, <2>4, <2>5, CallKeeps DEF Identity!Slot
<1>3. ASSUME NEW r \in Client, NEW u \in Person, form' = form,
             NEW what \in {"register", "login", "password", "status"},
             \E e \in Identity!Account : MayStart(u, what, e) /\ Identity!Call(r, u, what, e)
      PROVE  IdentityIInv'
  <2>1. PICK e \in Identity!Account : MayStart(u, what, e) /\ Identity!Call(r, u, what, e)
    BY <1>3
  <2>2. r \in Identity!Slot /\ r \notin Page /\ form' \in [Page -> Identity!Form]
    BY <1>3, SlotAssumption, PeopleBoundsAssumption DEF Identity!Slot, IdentityIInv,
       Identity!TypeOK
  <2> QED BY <1>3, <2>1, <2>2, CallKeeps
<1>4. ASSUME NEW r \in Client, NEW u \in Person, NEW n \in Phone, NEW q \in Identity!Requested,
             NEW w \in Password, Identity!Register(r, u, n, q, w) /\ UNCHANGED form
      PROVE  IdentityIInv'
  <2>1. \E e \in Identity!Account : MayStart(u, "register", e) /\ Identity!Call(r, u, "register", e)
    BY <1>4, RegisterMay
  <2> QED BY <1>3, <1>4, <2>1
<1>5. ASSUME NEW r \in Client, NEW u \in Person, NEW n \in Phone,
             NEW w \in Password, Identity!Login(r, u, n, w) /\ UNCHANGED form
      PROVE  IdentityIInv'
  <2>1. \E e \in Identity!Account : MayStart(u, "login", e) /\ Identity!Call(r, u, "login", e)
    BY <1>5, LoginMay DEF IdentityIInv
  <2> QED BY <1>3, <1>5, <2>1
<1>6. ASSUME NEW r \in Client, NEW u \in Person, NEW w \in Password, NEW x \in Password,
             Identity!ChangePassword(r, u, w, x)
      PROVE  IdentityIInv'
  <2>1. \E e \in Identity!Account : MayStart(u, "password", e) /\ Identity!Call(r, u, "password", e)
    BY <1>6, ChangeMay DEF IdentityIInv
  <2>2. form' = form BY <1>6 DEF Identity!ChangePassword
  <2> QED BY <1>3, <2>1, <2>2
<1>7. ASSUME NEW r \in Client, NEW u \in Person, NEW status \in Identity!UserStatus,
             Identity!UpdateUserStatus(r, u, status)
      PROVE  IdentityIInv'
  <2>1. \E e \in Identity!Account : MayStart(u, "status", e) /\ Identity!Call(r, u, "status", e)
    BY <1>7, StatusMay DEF IdentityIInv
  <2>2. form' = form BY <1>7 DEF Identity!UpdateUserStatus
  <2> QED BY <1>3, <2>1, <2>2
<1>8. CASE UNCHANGED Identity!vars
  <2>1. UNCHANGED <<account, Identity!memory, password, crossed, form, lost, restaurants, token>>
    BY <1>8 DEF Identity!vars, Identity!memory
  <2>2. Opening' /\ Served' /\ Identity!Coherent' /\ Identity!OnePhone' /\ Identity!PasswordAsAgreed' /\ NumbersStay
        /\ op' = op /\ loaded' = loaded
    BY <2>1, QuietKeeps DEF IdentityIInv
  <2>3. Waiting' BY <2>1, <2>2, PagesFrame DEF IdentityIInv
  <2>4. Restaurants' BY <2>1, RestaurantsFrame DEF IdentityIInv
  <2>5. Identity!TypeOK' /\ TokensPlain'
    BY <1>8 DEF IdentityIInv, Identity!vars, Identity!TypeOK, TokensPlain
  <2> QED BY <2>2, <2>3, <2>4, <2>5 DEF IdentityIInv
<1> QED BY <1>1, <1>2, <1>4, <1>5, <1>6, <1>7, <1>8, UpdateKeeps, AbortKeeps, SelectKeeps,
           TokenKeeps, RefusedKeeps, ProfileKeeps DEF Identity!Next

(* The invariant holds when nobody has an account.                         *)
LEMMA InitKeeps == Identity!Init => IdentityIInv
<1> SUFFICES ASSUME Identity!Init PROVE IdentityIInv OBVIOUS
<1>1. Identity!TypeOK BY AbsentIs DEF Identity!Init, Identity!TypeOK
<1>2. /\ \A u \in Person : account[u] = Identity!Absent /\ restaurants[u] = 0 /\ password[u] = NoPassword
      /\ \A s \in Identity!Slot : handler[s] = "idle" /\ user[s] = Nobody /\ op[s] = "none"
      /\ \A p \in Page : form[p] = Identity!Empty
      /\ token = {}
  BY DEF Identity!Init
<1>3. Opening /\ Restaurants /\ TokensPlain
  BY <1>2 DEF Opening, AccountGood, Restaurants, RestaurantGood, TokensPlain
<1>4. Served /\ Identity!Coherent BY <1>2 DEF Served, HandlerGood, Identity!Coherent
<1>5. Waiting BY <1>2, AbsentIs DEF Waiting, PageGood, Identity!Slot, Identity!Beyond
<1>6. Identity!OnePhone /\ Identity!PasswordAsAgreed
  BY <1>2, AbsentIs DEF Identity!OnePhone, Identity!PasswordAsAgreed
<1> QED BY <1>1, <1>3, <1>4, <1>5, <1>6 DEF IdentityIInv

(* The invariant of identity-service always holds.                         *)
LEMMA IdentityInductive == Identity!Spec => []IdentityIInv
BY InitKeeps, StepKeeps, PTL DEF Identity!Spec

(* However handlers and pages interleave, a phone number has one account;  *)
(* on an account no two handlers worked on at once the last password       *)
(* answered with success is the one in the table; nobody becomes staff by  *)
(* registering; and an account has one restaurant unless its page lost an  *)
(* answer.                                                                 *)
THEOREM IdentityHolds == Identity!Spec => []Identity!Inv
<1>1. IdentityIInv => Identity!NobodyRises
  <2> SUFFICES ASSUME IdentityIInv PROVE Identity!NobodyRises OBVIOUS
  <2>1. \A u \in Person : account[u].roles \subseteq PlainRoles
    BY AbsentIs DEF IdentityIInv, Opening, AccountGood, Opened
  <2>2. \A t \in token : t.roles \subseteq PlainRoles BY DEF IdentityIInv, TokensPlain
  <2> QED BY <2>1, <2>2, PlainIsLow DEF Identity!NobodyRises
<1>2. IdentityIInv => Identity!OneRestaurant
  BY DEF IdentityIInv, Identity!TypeOK, Restaurants, RestaurantGood,
     Identity!OneRestaurant
<1>3. IdentityIInv => Identity!Inv BY <1>1, <1>2 DEF IdentityIInv, Identity!Inv
<1> QED BY <1>3, IdentityInductive, PTL

(* Only saves write accounts.                                              *)
LEMMA OthersLeave ==
  ASSUME [Identity!Next]_(Identity!vars)
  PROVE account' = account \/ \E s \in Identity!Slot : Identity!SaveUpdate(s)
<1>1. CASE UNCHANGED Identity!vars BY <1>1 DEF Identity!vars
<1>2. ASSUME NEW s \in Identity!Slot, Identity!SaveSelect(s) \/ Identity!Abort(s)
  PROVE account' = account
  BY <1>2 DEF Identity!SaveSelect, Identity!Abort
<1>3. ASSUME NEW p \in Page, Identity!PageLoginRefused(p) \/ Identity!SubmitProfile(p)
  PROVE account' = account
  BY <1>3 DEF Identity!PageLoginRefused, Identity!SubmitProfile
<1>4. ASSUME NEW s, NEW u, NEW what, NEW e, Identity!Call(s, u, what, e)
  PROVE account' = account
  BY <1>4 DEF Identity!Call
<1>5. ASSUME NEW s, NEW u, NEW n, NEW q, NEW w,
             Identity!Register(s, u, n, q, w) \/ Identity!Login(s, u, n, w) \/ Identity!ChangePassword(s, u, n, w)
               \/ Identity!UpdateUserStatus(s, u, w)
      PROVE  account' = account
  BY <1>4, <1>5 DEF Identity!Register, Identity!Login, Identity!ChangePassword,
     Identity!UpdateUserStatus
<1>6. ASSUME NEW p \in Page, NEW u, NEW k, NEW n, NEW w,
             Identity!SubmitAccount(p, u, k, n, w) \/ Identity!PageLogin(p, u)
      PROVE  account' = account
  BY <1>5, <1>6 DEF Identity!SubmitAccount, Identity!PageLogin
<1>7. ASSUME NEW u \in Person, Identity!Refresh(u)
  PROVE account' = account BY <1>7 DEF Identity!Refresh
<1>8. ASSUME NEW t \in token, Identity!Expire(t)
  PROVE account' = account BY <1>8 DEF Identity!Expire
<1> QED BY <1>1, <1>2, <1>3, <1>5, <1>6, <1>7, <1>8 DEF Identity!Next

(* An update by a handler alone on its account is a step of AccountLife.   *)
LEMMA LifeStep ==
  ASSUME IdentityIInv, NEW s \in Identity!Slot, Identity!SaveUpdate(s),
         NEW u \in Person, u \notin crossed'
  PROVE  Identity!Life!Same(u) \/ Identity!Life!Step(u)
<1> USE DEF IdentityIInv
<1>1. PICK v \in Person, e \in Identity!Account, ok \in BOOLEAN :
           /\ v = user[s] /\ e = loaded[s] /\ handler[s] = "update" /\ Identity!Finish(s)
           /\ crossed' = crossed
           /\ Inserted(s, v, e, ok) \/ Overwritten(s, v, e, ok)
  BY UpdateShape
<1>2. account'[u] = account[u] => Identity!Life!Same(u)
  BY DEF Identity!Life!Same, Identity!Life!Identity
<1>3. CASE u # v BY <1>1, <1>2, <1>3, UpdateAccounts
<1>4. CASE u = v /\ Inserted(s, v, e, ok)
  <2>1. CASE ~ok BY <1>2, <1>4, <2>1 DEF Inserted
  <2>2. CASE ok
    <3>1. account[u].status = "NONE" /\ account'[u].status = "ACTIVE"
      BY <1>4, <2>2, AbsentIs DEF Inserted, Identity!TypeOK
    <3> QED BY <3>1 DEF Identity!Life!Step, Identity!Life!Opens
  <2> QED BY <2>1, <2>2
<1>5. CASE u = v /\ Overwritten(s, v, e, ok)
  <2>1. account[u] # Identity!Absent /\ Opened(account[u]) /\ account[u] \in Identity!Account
    BY <1>5, OpenedIs DEF Overwritten, Identity!TypeOK
  <2>2. Identity!HandlerCoherent(s) /\ account'[u] = e
    <3>1. ~Inserted(s, v, e, ok) BY <1>5, <2>1 DEF Inserted
    <3> QED BY <1>1, <1>5, <3>1, UpdateCoherent
  <2>3. \/ e = account[u]
        \/ e = [account[u] EXCEPT !.password = e.password]
        \/ e = [account[u] EXCEPT !.status = e.status] /\ Identity!ValidTransition(account[u].status, e.status)
    BY <1>1, <1>5, <2>1, <2>2 DEF Identity!HandlerCoherent
  <2>4. CASE e = account[u] BY <1>2, <2>2, <2>4
  <2>5. CASE e = [account[u] EXCEPT !.password = e.password]
    <3>1. e.status = account[u].status /\ e.phone = account[u].phone /\ e.roles = account[u].roles
      BY <2>1, <2>5 DEF Identity!Account
    <3>2. account[u].status # "NONE" BY <2>1, OpenedIs
    <3> QED BY <2>2, <3>1, <3>2 DEF Identity!Life!Step, Identity!Life!PasswordChanged,
       Identity!Life!Identity
  <2>6. CASE /\ e = [account[u] EXCEPT !.status = e.status]
             /\ Identity!ValidTransition(account[u].status, e.status)
    <3>1. e.password = account[u].password /\ e.phone = account[u].phone
          /\ e.roles = account[u].roles
      BY <2>1, <2>6 DEF Identity!Account
    <3> QED BY <2>2, <2>6, <3>1
          DEF Identity!ValidTransition, Identity!Life!Step, Identity!Life!TakenOut,
             Identity!Life!Restored, Identity!Life!Identity
  <2> QED BY <2>3, <2>4, <2>5, <2>6
<1> QED BY <1>1, <1>3, <1>4, <1>5

(* An account no two handlers worked on at once is opened, changes its     *)
(* password or its status, and does nothing else.                          *)
THEOREM FollowsLife == Identity!Spec => Identity!UndisturbedFollowsLife
<1>1. IdentityIInv /\ [Identity!Next]_(Identity!vars) =>
        [\A u \in Person : u \in crossed' \/ Identity!Life!Same(u) \/ Identity!Life!Step(u)]_(Identity!vars)
  <2> SUFFICES ASSUME IdentityIInv, [Identity!Next]_(Identity!vars), NEW u \in Person, u \notin crossed'
               PROVE  Identity!Life!Same(u) \/ Identity!Life!Step(u)
    OBVIOUS
  <2>1. CASE account' = account BY <2>1 DEF Identity!Life!Same, Identity!Life!Identity
  <2>2. CASE \E s \in Identity!Slot : Identity!SaveUpdate(s) BY <2>2, LifeStep
  <2> QED BY <2>1, <2>2, OthersLeave
<1> QED BY <1>1, IdentityInductive, PTL DEF Identity!Spec, Identity!UndisturbedFollowsLife

(* Tokens come from an update that ends a login, or from a refresh.        *)
LEMMA TokenSources ==
  ASSUME [Identity!Next]_(Identity!vars)
  PROVE  \/ token' \subseteq token
         \/ \E u \in Person : Identity!Refresh(u)
         \/ \E s \in Identity!Slot : Identity!SaveUpdate(s)
<1>1. CASE UNCHANGED Identity!vars BY <1>1 DEF Identity!vars
<1>2. ASSUME NEW s \in Identity!Slot, Identity!SaveSelect(s) \/ Identity!Abort(s)
  PROVE token' = token
  BY <1>2 DEF Identity!SaveSelect, Identity!Abort
<1>3. ASSUME NEW p \in Page, Identity!PageLoginRefused(p) \/ Identity!SubmitProfile(p)
  PROVE token' = token
  BY <1>3 DEF Identity!PageLoginRefused, Identity!SubmitProfile
<1>4. ASSUME NEW s, NEW u, NEW what, NEW e, Identity!Call(s, u, what, e)
  PROVE token' = token
  BY <1>4 DEF Identity!Call
<1>5. ASSUME NEW s, NEW u, NEW n, NEW q, NEW w,
             Identity!Register(s, u, n, q, w) \/ Identity!Login(s, u, n, w) \/ Identity!ChangePassword(s, u, n, w)
               \/ Identity!UpdateUserStatus(s, u, w)
      PROVE  token' = token
  BY <1>4, <1>5 DEF Identity!Register, Identity!Login, Identity!ChangePassword,
     Identity!UpdateUserStatus
<1>6. ASSUME NEW p \in Page, NEW u, NEW k, NEW n, NEW w,
             Identity!SubmitAccount(p, u, k, n, w) \/ Identity!PageLogin(p, u)
      PROVE  token' = token
  BY <1>5, <1>6 DEF Identity!SubmitAccount, Identity!PageLogin
<1>7. ASSUME NEW t \in token, Identity!Expire(t)
  PROVE token' \subseteq token BY <1>7 DEF Identity!Expire
<1> QED BY <1>1, <1>2, <1>3, <1>5, <1>6, <1>7 DEF Identity!Next

(* A new token is for an account that was active when its password was     *)
(* looked at, unless two handlers worked on the account at once.           *)
THEOREM OnlyActiveGetTokens == Identity!Spec => Identity!TokensForActive
<1>1. IdentityIInv /\ [Identity!Next]_(Identity!vars) =>
        [\A t \in token' \ token :
           t.user \in crossed' \/ account[t.user].status = "ACTIVE"]_(Identity!vars)
  <2> SUFFICES ASSUME IdentityIInv, [Identity!Next]_(Identity!vars), NEW t \in token', t \notin token
               PROVE  t.user \in crossed' \/ account[t.user].status = "ACTIVE"
    OBVIOUS
  <2>1. ASSUME NEW u \in Person, Identity!Refresh(u)
    PROVE account[t.user].status = "ACTIVE"
    <3>1. t \in Identity!NewTokens(u, account[u]) /\ account[u].status = "ACTIVE"
      BY <2>1 DEF Identity!Refresh, Identity!MayRefresh
    <3> QED BY <3>1 DEF Identity!NewTokens
  <2>2. ASSUME NEW s \in Identity!Slot, Identity!SaveUpdate(s)
        PROVE  t.user \in crossed' \/ account[t.user].status = "ACTIVE"
    <3>1. PICK u \in Person, e \in Identity!Account, ok \in BOOLEAN :
           /\ u = user[s] /\ e = loaded[s] /\ handler[s] = "update"
           /\ token' = IF op[s] = "login" THEN token \cup Identity!NewTokens(u, e) ELSE token
           /\ crossed' = crossed
      BY <2>2, UpdateShape DEF IdentityIInv
    <3>2. op[s] = "login" /\ t \in Identity!NewTokens(u, e) BY <3>1
    <3>3. t.user = u BY <3>2 DEF Identity!NewTokens
    <3>4. u \notin crossed => Identity!HandlerCoherent(s)
      BY <3>1 DEF IdentityIInv, Identity!Coherent
    <3>5. u \notin crossed => account[u].status = "ACTIVE"
      BY <3>1, <3>2, <3>4 DEF Identity!HandlerCoherent
    <3> QED BY <3>1, <3>3, <3>5
  <2> QED BY <2>1, <2>2, TokenSources
<1> QED BY <1>1, IdentityInductive, PTL DEF Identity!Spec, Identity!TokensForActive

-----------------------------------------------------------------------------

(* A session is nobody's or comes from a login; two tabs that have it from *)
(* the same login have the same.                                           *)
FromLogin(x) == x = Browser!NoToken \/ x.login \in 1 .. logins

SameSession(x, y) == x.login = y.login => x = y

Sessions ==
  /\ ended \subseteq 1 .. logins
  /\ FromLogin(stored) /\ \A t \in Tab : FromLogin(session[t])
  /\ \A t \in Tab : SameSession(stored, session[t])
  /\ \A s, t \in Tab : SameSession(session[s], session[t])

(* Outside the pages behind the login nothing is read; a tab nobody        *)
(* crossed reads with the session it shows.                                *)
TabGood(t) ==
  /\ page[t] # "inside" => data[t] = Nobody /\ request[t] = Browser!NoRequest
  /\ pending[t] # Nobody => page[t] = "login"
  /\ t \notin foreign =>
       /\ getter[t] = "storage" => session[t] = stored
       /\ request[t] \in {Browser!NoRequest, Browser!NoToken, session[t]}
       /\ data[t] \in {Nobody, session[t].user}

Tabs == \A t \in Tab : TabGood(t)

BrowserIInv == Browser!TypeOK /\ Sessions /\ Tabs /\ Browser!LogoutIsFinal

(* Empty and fresh sessions are sessions, and the empty one is refused.    *)
LEMMA SessionsTyped ==
  /\ Browser!NoToken \in Browser!Token /\ Browser!NoRequest \in Browser!Token /\ Browser!NoToken.login = 0 /\ Browser!NoToken.user = Nobody
  /\ Browser!NoRequest # Browser!NoToken /\ ~Browser!Accepted(Browser!NoToken)
  /\ \A u \in Person, n \in Nat :
       /\ [user |-> u, login |-> n] \in Browser!Token /\ [user |-> u, login |-> n].login = n
       /\ [user |-> u, login |-> n].user = u
BY PeopleBoundsAssumption DEF Browser!NoToken, Browser!NoRequest, Browser!Token,
   Browser!Accepted

(* The invariant holds when no tab is open.                                *)
LEMMA BrowserInitGood == Browser!Init => BrowserIInv
<1> SUFFICES ASSUME Browser!Init PROVE BrowserIInv OBVIOUS
<1>1. Browser!TypeOK BY SessionsTyped, PeopleBoundsAssumption DEF Browser!Init, Browser!TypeOK
<1>2. Sessions BY DEF Browser!Init, Sessions, FromLogin, SameSession
<1>3. Tabs BY DEF Browser!Init, Tabs, TabGood
<1>4. Browser!LogoutIsFinal BY DEF Browser!Init, Browser!LogoutIsFinal
<1> QED BY <1>1, <1>2, <1>3, <1>4 DEF BrowserIInv

(* A step that changes neither sessions nor logins.                        *)
LEMMA SessionsFrame ==
  ASSUME Sessions, Browser!LogoutIsFinal, UNCHANGED <<stored, session, logins, ended,
         kept>>
  PROVE  Sessions' /\ Browser!LogoutIsFinal'
BY DEF Sessions, FromLogin, SameSession, Browser!LogoutIsFinal

(* Another tab's step.                                                     *)
SameTab(t) ==
  /\ page'[t] = page[t] /\ data'[t] = data[t] /\ request'[t] = request[t]
  /\ pending'[t] = pending[t] /\ session'[t] = session[t] /\ getter'[t] = getter[t]

(* A tab nothing happens to stays good if it was not crossed.              *)
LEMMA TabFrame ==
  ASSUME Tabs, NEW t \in Tab, SameTab(t),
         t \notin foreign' => t \notin foreign /\ (getter[t] # "storage" \/ stored' = stored)
  PROVE  TabGood(t)'
BY DEF Tabs, TabGood, SameTab

(* Loading a page keeps the invariant.                                     *)
LEMMA LoadKeeps ==
  ASSUME BrowserIInv, NEW t \in Tab, Browser!LoadPage(t)
  PROVE  BrowserIInv'
<1> USE DEF BrowserIInv
<1>1. /\ session' = [session EXCEPT ![t] = stored] /\ getter' = [getter EXCEPT ![t] = "storage"]
      /\ pending' = [pending EXCEPT ![t] = Nobody] /\ data' = [data EXCEPT ![t] = Nobody]
      /\ foreign' = foreign \ {t} /\ kept' = kept \ {t} /\ loads < MaxLoads /\ loads' = loads + 1
      /\ UNCHANGED <<stored, expired, logins, ended>>
  BY DEF Browser!LoadPage
<1>2. \/ /\ page' = [page EXCEPT ![t] = "inside"] /\ request' = [request EXCEPT ![t] = Browser!NoToken]
      \/ /\ page' = [page EXCEPT ![t] = "login"] /\ request' = [request EXCEPT ![t] = Browser!NoRequest]
  BY DEF Browser!LoadPage
<1>3. Browser!TypeOK'
  BY <1>1, <1>2, SessionsTyped, PeopleBoundsAssumption DEF Browser!TypeOK
<1>4. session'[t] = stored /\ \A s \in Tab \ {t} : session'[s] = session[s]
  BY <1>1 DEF Browser!TypeOK
<1>5. Sessions' BY <1>1, <1>4 DEF Sessions, FromLogin, SameSession
<1>6. Browser!LogoutIsFinal' BY <1>1, <1>4 DEF Browser!LogoutIsFinal
<1>7. TabGood(t)' BY <1>1, <1>2 DEF Browser!TypeOK, TabGood
<1>8. ASSUME NEW s \in Tab, s # t PROVE TabGood(s)'
  <2>1. SameTab(s) BY <1>1, <1>2, <1>8 DEF SameTab, Browser!TypeOK
  <2> QED BY <1>1, <1>8, <2>1, TabFrame
<1>9. Tabs' BY <1>7, <1>8 DEF Tabs
<1> QED BY <1>3, <1>5, <1>6, <1>9

(* Following a link keeps the invariant.                                   *)
LEMMA VisitKeeps == ASSUME BrowserIInv, NEW t \in Tab, Browser!Visit(t) PROVE BrowserIInv'
<1> USE DEF BrowserIInv
<1>1. /\ pending' = [pending EXCEPT ![t] = Nobody] /\ data' = [data EXCEPT ![t] = Nobody]
      /\ loads < MaxLoads /\ loads' = loads + 1
      /\ UNCHANGED <<stored, session, getter, expired, logins, ended, kept, foreign>>
  BY DEF Browser!Visit
<1>2. \/ /\ page' = [page EXCEPT ![t] = "inside"]
         /\ request' = [request EXCEPT ![t] = Browser!AuthHeader(t)]
      \/ /\ page' = [page EXCEPT ![t] = "login"] /\ request' = [request EXCEPT ![t] = Browser!NoRequest]
  BY DEF Browser!Visit
<1>3. /\ Browser!AuthHeader(t) \in Browser!Token
      /\ getter[t] # "storage" => Browser!AuthHeader(t) \in {Browser!NoToken, session[t]}
      /\ getter[t] = "storage" => Browser!AuthHeader(t) = stored
  BY SessionsTyped DEF Browser!AuthHeader, Browser!TypeOK
<1>4. Browser!TypeOK'
  BY <1>1, <1>2, <1>3, SessionsTyped, PeopleBoundsAssumption DEF Browser!TypeOK
<1>5. Sessions' /\ Browser!LogoutIsFinal' BY <1>1, SessionsFrame
<1>6. TabGood(t)' BY <1>1, <1>2, <1>3 DEF Browser!TypeOK, Tabs, TabGood
<1>7. ASSUME NEW s \in Tab, s # t PROVE TabGood(s)'
  <2>1. SameTab(s) BY <1>1, <1>2, <1>7 DEF SameTab, Browser!TypeOK
  <2> QED BY <1>1, <2>1, TabFrame
<1>8. Tabs' BY <1>6, <1>7 DEF Tabs
<1> QED BY <1>4, <1>5, <1>8

(* Closing a tab keeps the invariant.                                      *)
LEMMA CloseKeeps == ASSUME BrowserIInv, NEW t \in Tab, Browser!Close(t) PROVE BrowserIInv'
<1> USE DEF BrowserIInv
<1>1. /\ page' = [page EXCEPT ![t] = "closed"] /\ session' = [session EXCEPT ![t] = Browser!NoToken]
      /\ getter' = [getter EXCEPT ![t] = "nothing"] /\ pending' = [pending EXCEPT ![t] = Nobody]
      /\ request' = [request EXCEPT ![t] = Browser!NoRequest] /\ data' = [data EXCEPT ![t] = Nobody]
      /\ kept' = kept \ {t} /\ foreign' = foreign \ {t}
      /\ UNCHANGED <<stored, expired, logins, loads, ended>>
  BY DEF Browser!Close
<1>2. Browser!TypeOK' BY <1>1, SessionsTyped DEF Browser!TypeOK
<1>3. session'[t] = Browser!NoToken /\ \A s \in Tab \ {t} : session'[s] = session[s]
  BY <1>1 DEF Browser!TypeOK
<1>4. logins \in Nat BY PeopleBoundsAssumption DEF Browser!TypeOK
<1>5. \A x : FromLogin(x) => SameSession(x, Browser!NoToken) /\ SameSession(Browser!NoToken, x)
  BY <1>4, SessionsTyped DEF FromLogin, SameSession
<1>6. Sessions'
  <2>1. \A s \in Tab : FromLogin(session'[s]) BY <1>3 DEF Sessions, FromLogin
  <2>2. \A s \in Tab : SameSession(stored, session'[s]) BY <1>3, <1>5 DEF Sessions
  <2>3. \A s, x \in Tab : SameSession(session'[s], session'[x])
    BY <1>3, <1>5, <2>1 DEF Sessions, SameSession
  <2> QED BY <1>1, <2>1, <2>2, <2>3 DEF Sessions, FromLogin, SameSession
<1>7. Browser!LogoutIsFinal'
  <2>1. 0 \notin ended BY DEF Sessions
  <2> QED BY <1>1, <1>3, <2>1, SessionsTyped DEF Browser!LogoutIsFinal
<1>8. TabGood(t)' BY <1>1 DEF Browser!TypeOK, TabGood
<1>9. ASSUME NEW s \in Tab, s # t PROVE TabGood(s)'
  <2>1. SameTab(s) BY <1>1, <1>9 DEF SameTab, Browser!TypeOK
  <2> QED BY <1>1, <1>9, <2>1, TabFrame
<1>10. Tabs' BY <1>8, <1>9 DEF Tabs
<1> QED BY <1>2, <1>6, <1>7, <1>10

(* An answer to a page's load keeps the invariant.                         *)
LEMMA AnswerKeeps ==
  ASSUME BrowserIInv, NEW t \in Tab, Browser!Answer(t)
  PROVE  BrowserIInv'
<1> USE DEF BrowserIInv
<1>1. /\ request[t] # Browser!NoRequest /\ request' = [request EXCEPT ![t] = Browser!NoRequest]
      /\ \/ Browser!Accepted(request[t]) /\ data' = [data EXCEPT ![t] = request[t].user]
         \/ data' = data
      /\ UNCHANGED <<stored, session, getter, page, pending, expired, logins, loads, ended,
                     kept, foreign>>
  BY DEF Browser!Answer
<1>2. request[t] \in Browser!Token BY DEF Browser!TypeOK
<1>3. Browser!TypeOK' BY <1>1, <1>2, SessionsTyped DEF Browser!TypeOK, Browser!Token
<1>4. Sessions' /\ Browser!LogoutIsFinal' BY <1>1, SessionsFrame
<1>5. TabGood(t)'
  <2>1. TabGood(t) BY DEF Tabs
  <2>2. page[t] = "inside" BY <1>1, <2>1 DEF TabGood
  <2>3. t \notin foreign /\ Browser!Accepted(request[t]) => request[t] = session[t]
    BY <1>1, <2>1, SessionsTyped DEF TabGood
  <2> QED BY <1>1, <2>1, <2>2, <2>3 DEF TabGood, Browser!TypeOK
<1>6. ASSUME NEW s \in Tab, s # t PROVE TabGood(s)'
  <2>1. SameTab(s) BY <1>1, <1>6 DEF SameTab, Browser!TypeOK
  <2> QED BY <1>1, <2>1, TabFrame
<1>7. Tabs' BY <1>5, <1>6 DEF Tabs
<1> QED BY <1>3, <1>4, <1>7

(* Sending the login form, and its refusal, keep the invariant.            *)
LEMMA FormKeeps ==
  ASSUME BrowserIInv, NEW t \in Tab, (\E u \in Person : Browser!HandleSubmit(t, u)) \/ Browser!LoginFails(t)
  PROVE BrowserIInv'
<1> USE DEF BrowserIInv
<1>1. /\ page[t] = "login" \/ pending'[t] = Nobody
      /\ \E u \in Person \cup {Nobody} : pending' = [pending EXCEPT ![t] = u]
      /\ UNCHANGED <<stored, session, getter, page, request, data, expired, logins, loads,
                     ended, kept, foreign>>
  BY DEF Browser!HandleSubmit, Browser!LoginFails, Browser!TypeOK
<1>2. Browser!TypeOK' BY <1>1 DEF Browser!TypeOK
<1>3. Sessions' /\ Browser!LogoutIsFinal' BY <1>1, SessionsFrame
<1>4. TabGood(t)' BY <1>1 DEF Browser!TypeOK, Tabs, TabGood
<1>5. ASSUME NEW s \in Tab, s # t PROVE TabGood(s)'
  <2>1. SameTab(s) BY <1>1, <1>5 DEF SameTab, Browser!TypeOK
  <2> QED BY <1>1, <2>1, TabFrame
<1>6. Tabs' BY <1>4, <1>5 DEF Tabs
<1> QED BY <1>2, <1>3, <1>6

(* A login that succeeds keeps the invariant.                              *)
LEMMA SetAuthKeeps ==
  ASSUME BrowserIInv, NEW t \in Tab, Browser!SetAuth(t)
  PROVE  BrowserIInv'
<1> USE DEF BrowserIInv
<1>1. pending[t] \in Person BY DEF Browser!SetAuth, Browser!TypeOK
<1>2. logins \in Nat /\ logins + 1 \in Nat BY PeopleBoundsAssumption DEF Browser!TypeOK
<1>3. PICK x \in Browser!Token : x = [user |-> pending[t], login |-> logins + 1]
  BY <1>1, <1>2, SessionsTyped
<1>4. x.login = logins + 1 BY <1>3
<1>5. /\ logins < MaxLogins /\ logins' = logins + 1
      /\ session' = [session EXCEPT ![t] = x] /\ stored' = x
      /\ getter' = [getter EXCEPT ![t] = "memory"]
      /\ foreign' = (foreign \cup {s \in Tab \ {t} : getter[s] = "storage"}) \ {t}
      /\ pending' = [pending EXCEPT ![t] = Nobody]
      /\ page' = [page EXCEPT ![t] = "inside"] /\ request' = [request EXCEPT ![t] = x]
      /\ kept' = kept \ {t} /\ UNCHANGED <<data, expired, loads, ended>>
  BY <1>3 DEF Browser!SetAuth, Browser!SetState
<1>6. Browser!TypeOK' BY <1>2, <1>5, PeopleBoundsAssumption DEF Browser!TypeOK
<1>7. session'[t] = x /\ \A s \in Tab \ {t} : session'[s] = session[s]
  BY <1>5 DEF Browser!TypeOK
<1>8. \A s \in Tab : session[s].login # x.login
  BY <1>2, <1>4, SessionsTyped DEF Sessions, FromLogin
<1>9. \A s \in Tab : FromLogin(session[s])'
  BY <1>2, <1>4, <1>5, <1>7 DEF Sessions, FromLogin
<1>10. FromLogin(stored)' BY <1>2, <1>4, <1>5 DEF FromLogin
<1>11. Sessions'
  <2>1. ended' \subseteq 1 .. logins' BY <1>2, <1>5 DEF Sessions
  <2>2. \A s \in Tab : SameSession(stored', session'[s])
    BY <1>5, <1>7, <1>8 DEF SameSession
  <2>3. \A r, s \in Tab : SameSession(session'[r], session'[s])
    BY <1>7, <1>8 DEF Sessions, SameSession
  <2> QED BY <1>9, <1>10, <2>1, <2>2, <2>3 DEF Sessions, FromLogin, SameSession
<1>12. Browser!LogoutIsFinal'
  <2>1. x.login \notin ended BY <1>2, <1>4 DEF Sessions
  <2> QED BY <1>5, <1>7, <2>1 DEF Browser!LogoutIsFinal
<1>13. TabGood(t)'
  <2>1. TabGood(t) BY DEF Tabs
  <2>2. data[t] = Nobody BY <1>1, <2>1, NobodyAssumption DEF TabGood
  <2> QED BY <1>5, <2>2 DEF Browser!TypeOK, TabGood
<1>14. ASSUME NEW s \in Tab, s # t PROVE TabGood(s)'
  <2>1. SameTab(s) BY <1>5, <1>14 DEF SameTab, Browser!TypeOK
  <2> QED BY <1>5, <1>14, <2>1, TabFrame
<1>15. Tabs' BY <1>13, <1>14 DEF Tabs
<1> QED BY <1>6, <1>11, <1>12, <1>15

(* A logout keeps the invariant.                                           *)
LEMMA LogoutKeeps ==
  ASSUME BrowserIInv, NEW t \in Tab, Browser!Logout(t)
  PROVE  BrowserIInv'
<1> USE DEF BrowserIInv
<1>1. /\ page[t] = "inside" /\ session[t] # Browser!NoToken
      /\ session' = [session EXCEPT ![t] = Browser!NoToken] /\ stored' = Browser!NoToken
      /\ getter' = [getter EXCEPT ![t] = "memory"]
      /\ foreign' = (foreign \cup {s \in Tab \ {t} : getter[s] = "storage"}) \ {t}
      /\ ended' = ended \cup {session[t].login}
      /\ kept' = kept \cup {s \in Tab \ {t} : session[s] = session[t]}
      /\ page' = [page EXCEPT ![t] = "login"] /\ request' = [request EXCEPT ![t] = Browser!NoRequest]
      /\ data' = [data EXCEPT ![t] = Nobody] /\ UNCHANGED <<pending, expired, logins, loads>>
  BY DEF Browser!Logout, Browser!IsAuthenticated, Browser!ClearAuth, Browser!SetState
<1>2. session[t].login \in 1 .. logins BY <1>1 DEF Sessions, FromLogin
<1>3. logins \in Nat /\ logins <= MaxLogins BY PeopleBoundsAssumption DEF Browser!TypeOK
<1>4. session[t].login \in 1 .. MaxLogins BY <1>2, <1>3, PeopleBoundsAssumption
<1>5. Browser!TypeOK' BY <1>1, <1>4, SessionsTyped DEF Browser!TypeOK
<1>6. session'[t] = Browser!NoToken /\ \A s \in Tab \ {t} : session'[s] = session[s]
  BY <1>1 DEF Browser!TypeOK
<1>7. \A x : FromLogin(x) => SameSession(x, Browser!NoToken) /\ SameSession(Browser!NoToken, x)
  BY <1>3, SessionsTyped DEF FromLogin, SameSession
<1>8. \A s \in Tab : FromLogin(session'[s]) BY <1>6 DEF Sessions, FromLogin
<1>9. Sessions'
  <2>1. \A r, s \in Tab : SameSession(session'[r], session'[s])
    BY <1>6, <1>7, <1>8 DEF Sessions, SameSession
  <2>2. \A s \in Tab : SameSession(stored', session'[s]) BY <1>1, <1>7, <1>8
  <2>3. FromLogin(stored') BY <1>1 DEF FromLogin
  <2> QED BY <1>1, <1>2, <1>8, <2>1, <2>2, <2>3 DEF Sessions, FromLogin, SameSession
<1>10. Browser!LogoutIsFinal'
  <2>1. 0 \notin ended' BY <1>1, <1>2 DEF Sessions
  <2>2. \A s \in Tab : session[s].login = session[t].login => session[s] = session[t]
    BY DEF Sessions, SameSession
  <2> QED BY <1>1, <1>6, <2>1, <2>2, SessionsTyped DEF Browser!LogoutIsFinal
<1>11. TabGood(t)' BY <1>1 DEF Browser!TypeOK, TabGood
<1>12. ASSUME NEW s \in Tab, s # t PROVE TabGood(s)'
  <2>1. SameTab(s) BY <1>1, <1>12 DEF SameTab, Browser!TypeOK
  <2> QED BY <1>1, <1>12, <2>1, TabFrame
<1>13. Tabs' BY <1>11, <1>12 DEF Tabs
<1> QED BY <1>5, <1>9, <1>10, <1>13

(* A token that gets old, and a step that does nothing, keep the invariant.*)
LEMMA ExpireKeeps ==
  ASSUME BrowserIInv, (\E n \in 1 .. logins : Browser!Expire(n)) \/ UNCHANGED Browser!vars
  PROVE  BrowserIInv'
<1> USE DEF BrowserIInv
<1>1. UNCHANGED <<stored, session, getter, page, pending, request, data, logins, loads, ended,
                  kept, foreign>>
  BY DEF Browser!Expire, Browser!vars
<1>2. expired' \subseteq 1 .. MaxLogins
  <2>1. \A n \in 1 .. logins : n \in 1 .. MaxLogins
    BY PeopleBoundsAssumption DEF Browser!TypeOK
  <2>2. expired' = expired \/ \E n \in 1 .. logins : expired' = expired \cup {n}
    BY DEF Browser!Expire, Browser!vars
  <2> QED BY <2>1, <2>2 DEF Browser!TypeOK
<1>3. Browser!TypeOK' BY <1>1, <1>2 DEF Browser!TypeOK
<1>4. Sessions' /\ Browser!LogoutIsFinal' BY <1>1, SessionsFrame
<1>5. Tabs' BY <1>1 DEF Tabs, TabGood
<1> QED BY <1>3, <1>4, <1>5

(* Every step of the browser keeps the invariant.                          *)
LEMMA BrowserKeeps == BrowserIInv /\ [Browser!Next]_(Browser!vars) => BrowserIInv'
BY LoadKeeps, VisitKeeps, CloseKeeps, AnswerKeeps, FormKeeps, SetAuthKeeps, LogoutKeeps,
   ExpireKeeps DEF Browser!Next

(* The data a tab shows were read with the session it shows, unless another*)
(* tab changed the session under it; a session somebody logged out of is   *)
(* over, but for tabs that had it open.                                    *)
THEOREM BrowserHolds == Browser!Spec => []Browser!Inv
<1>1. BrowserIInv => Browser!Inv
  BY DEF BrowserIInv, Tabs, TabGood, Browser!ReadAsTheUserShown, Browser!Inv
<1> QED BY <1>1, BrowserInitGood, BrowserKeeps, PTL DEF Browser!Spec
(* The three together: they share no state, so a step of one is a stutter  *)
(* of the others, and each lives by its own specification.                 *)
LEMMA EachByItself ==
  [InDriverService \/ InIdentityService \/ InBrowser]_<<service, vars, identityVars, browserVars>>
    => /\ [Next]_vars
       /\ [Identity!Next]_(Identity!vars)
       /\ [Browser!Next]_(Browser!vars)
<1>1. identityVars = Identity!vars BY DEF identityVars, Identity!vars
<1>2. browserVars = Browser!vars BY DEF browserVars, Browser!vars
<1>3. UNCHANGED identityVars => UNCHANGED Identity!vars BY DEF identityVars, Identity!vars
<1>4. UNCHANGED browserVars => UNCHANGED Browser!vars BY DEF browserVars, Browser!vars
<1> QED BY <1>3, <1>4 DEF InDriverService, InIdentityService, InBrowser

(* What the three do together is what each does by its own specification.  *)
LEMMA EachSpec == SpecPeople => Spec /\ Identity!Spec /\ Browser!Spec
<1>1. InitPeople => Init /\ Identity!Init /\ Browser!Init BY DEF InitPeople
<1> QED BY <1>1, EachByItself, PTL DEF SpecPeople, Spec, Identity!Spec, Browser!Spec

(* Both services and the browser keep their invariants side by side.       *)
THEOREM PeopleHold == SpecPeople => []PeopleInv
BY EachSpec, InvHolds, IdentityHolds, BrowserHolds, PTL DEF PeopleInv

(* An account no two handlers worked on at once goes through AccountLife,  *)
(* and a login gives tokens to an account that was active.                 *)
THEOREM AccountsFollow == SpecPeople => AccountsFollowLife
BY EachSpec, FollowsLife, OnlyActiveGetTokens, PTL DEF AccountsFollowLife

(* A page beyond its first form works for the account of the number it     *)
(* shows, whatever answers were lost and whatever was edited.              *)
THEOREM PagesKnow == SpecPeople => []PagesKnowTheirAccount
<1>1. IdentityIInv => PagesKnowTheirAccount
  <2> SUFFICES ASSUME IdentityIInv, NEW p \in Page, form[p].step \in Identity!Beyond
               PROVE  form[p].user \in Person /\ account[form[p].user].phone = form[p].phone
    BY DEF PagesKnowTheirAccount, Identity!PagesKnowTheirAccount
  <2>1. PageGood(p) /\ form[p] \in Identity!Form
    BY DEF IdentityIInv, Waiting, Identity!TypeOK
  <2> QED BY <2>1 DEF PageGood, Identity!Form
<1> QED BY <1>1, EachSpec, IdentityInductive, PTL

=============================================================================
