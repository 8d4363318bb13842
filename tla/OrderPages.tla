------------------------------ MODULE OrderPages ------------------------------
(***************************************************************************)
(* The pages that only show orders: the customer's tracking page, which    *)
(* asks again every five seconds, the customer's list and home, the        *)
(* merchant's dashboard, the courier's earnings, and the admin's list and  *)
(* overview.  The orders move on meanwhile; answers come late, out of      *)
(* order, or not at all.                                                   *)
(***************************************************************************)
EXTENDS Integers, FiniteSets

CONSTANTS
  LastOrder,  \* bound on the orders placed
  Take,       \* how many orders a page asks for: 20, 50, 100 or 1000
  Reading,    \* slots for reads under way
  MaxOpened,  \* bound on the pages opened
  MaxMoves,   \* bound on what happens to the orders
  Chosen,     \* statuses the admin lists by
  Age,        \* ages of an order that occur, in units of a day
  Weekday     \* days of the week that occur, Sunday is 0

VARIABLES
  stage,     \* order-service: the status of each order
  whose,     \* order-service: the customer of each order
  open,      \* the page
  choice,    \* the admin's list: the status listed
  loading,   \* the spinner
  read,      \* the reads
  listed,    \* the orders shown, with the status shown
  age, hour, weekday, \* the overview: the age of order 1, and the time of day
  pages, moves, \* pages opened, and what happened to the orders
  opened,    \* history: the orders when the page was opened
  shownFor,  \* history: the status the list was asked for
  crossing,  \* history: two reads of the page were under way at once
  failing    \* history: a read of the page failed

ordersVars == <<stage, whose, open, choice, loading, read, listed, age, hour, weekday,
                pages, moves, opened, shownFor, crossing, failing>>

Number == 1 .. LastOrder
Followed == 1

Pipeline == <<"PENDING", "CONFIRMED", "PREPARING", "READY_FOR_PICKUP",
              "OUT_FOR_DELIVERY", "DELIVERED">>
Given(s) == {i \in 1 .. 6 : Pipeline[i] = s}
Ended == {"CANCELLED", "REJECTED"}
Status == {"NONE"} \cup {Pipeline[i] : i \in 1 .. 6} \cup Ended

(* How far an order has come.                                              *)
Rank(s) == CASE s = "NONE" -> 0 [] s \in Ended -> 7 [] OTHER -> CHOOSE i \in Given(s) : TRUE

Page == {"tracking", "orders", "home", "merchant", "earnings", "admin", "overview"}

Read == [at : {"idle", "before", "asked", "answered"}, first : BOOLEAN,
         choice : Chosen \cup {"ALL"}, answer : [Number -> Status]]
Nowhere == [o \in Number |-> "NONE"]
Idle == [at |-> "idle", first |-> FALSE, choice |-> "ALL", answer |-> Nowhere]

TypeOK ==
  /\ stage \in [Number -> Status]
  /\ whose \in [Number -> {"me", "another"}]
  /\ open \in Page
  /\ choice \in Chosen \cup {"ALL"} /\ shownFor \in Chosen \cup {"ALL"}
  /\ {loading, crossing, failing} \subseteq BOOLEAN
  /\ read \in [Reading -> Read]
  /\ listed \in [Number -> Status] /\ opened \in [Number -> Status]
  /\ age \in Age /\ hour \in 0 .. 1 /\ weekday \in Weekday
  /\ pages \in 0 .. MaxOpened /\ moves \in 0 .. MaxMoves

(* Any will do.                                                            *)
Some(S) == CHOOSE x \in S : TRUE

(* The first order was placed, or is on its way, and its customer looks at *)
(* it.                                                                     *)
Init ==
  /\ stage \in {[Nowhere EXCEPT ![Followed] = s] : s \in {"PENDING", "OUT_FOR_DELIVERY"}}
  /\ whose = [o \in Number |-> "me"]
  /\ open = "tracking"
  /\ choice = "ALL" /\ shownFor = "ALL"
  /\ loading = FALSE
  /\ read = [f \in Reading |-> Idle]
  /\ listed = stage
  /\ age = Some(Age) /\ hour = 0 /\ weekday = Some(Weekday)
  /\ pages = 0 /\ moves = 0
  /\ opened = stage
  /\ crossing = FALSE /\ failing = FALSE

-----------------------------------------------------------------------------
(* order-service.                                                          *)

(* Mutant: a delivered order can be cancelled.                             *)
CancelledLate(s) ==
  {Pipeline[i + 1] : i \in Given(s) \ {6}} \cup (IF s \in Ended THEN {} ELSE {"CANCELLED"})

Moves(s) ==
  {Pipeline[i + 1] : i \in Given(s) \ {6}}
    \cup (IF Rank(s) \in 1 .. 5 THEN {"CANCELLED"} ELSE {})
    \cup (IF s = "PENDING" THEN {"REJECTED"} ELSE {})

Move(o) ==
  /\ stage[o] # "NONE"
  /\ moves < MaxMoves
  /\ moves' = moves + 1
  /\ \E s \in Moves(stage[o]) : stage' = [stage EXCEPT ![o] = s]
  /\ UNCHANGED <<whose, open, choice, loading, read, listed, age, hour, weekday,
                 pages, opened, shownFor, crossing, failing>>

Placed == {o \in Number : stage[o] # "NONE"}

PlaceOrder ==
  LET o == Cardinality(Placed) + 1 IN
  /\ o \in Number
  /\ moves < MaxMoves
  /\ moves' = moves + 1
  /\ stage' = [stage EXCEPT ![o] = "PENDING"]
  /\ \E w \in {"me", "another"} : whose' = [whose EXCEPT ![o] = w]
  /\ UNCHANGED <<open, choice, loading, read, listed, age, hour, weekday,
                 pages, opened, shownFor, crossing, failing>>

(* Mutant: the oldest come first.                                          *)
Oldest(S) == {o \in S : Cardinality({x \in S : x < o}) < Take}

(* Newest first, so many of them.                                          *)
Newest(S) == {o \in S : Cardinality({x \in S : x > o}) < Take}

(* The orders a page shows.  The customer's list is of everybody's orders, *)
(* the home is of the customer's among the newest of everybody.  One       *)
(* merchant and one courier have them all; earnings are of those delivered.*)
Wanted(p, c) ==
  CASE p = "tracking" -> {Followed}
    [] p \in {"orders", "overview"} -> Newest(Placed)
    [] p = "home" -> {o \in Newest(Placed) : whose[o] = "me"}
    [] p = "merchant" -> Placed
    [] p = "earnings" -> {o \in Placed : stage[o] = "DELIVERED"}
    [] p = "admin" -> Newest({o \in Placed : c \in {"ALL", stage[o]}})

-----------------------------------------------------------------------------
(* The pages.                                                              *)

(* What is read before the orders: the restaurants, or the courier.        *)
Before(p) == IF p \in {"home", "merchant", "earnings"} THEN "before" ELSE "asked"

UnderWay == \E f \in Reading : read[f].at # "idle"

(* Leaving a page stops its timer, and answers to it are dropped.          *)
Open(p, f) ==
  /\ pages < MaxOpened
  /\ pages' = pages + 1
  /\ open' = p
  /\ choice' = "ALL" /\ shownFor' = "ALL"
  /\ loading' = TRUE
  /\ read' = [[g \in Reading |-> Idle] EXCEPT ![f] = [Idle EXCEPT !.at = Before(p), !.first = TRUE]]
  /\ listed' = Nowhere
  /\ opened' = stage
  /\ crossing' = FALSE /\ failing' = FALSE
  /\ IF p = "overview"
     THEN age' \in Age /\ hour' \in 0 .. 1 /\ weekday' \in Weekday
     ELSE UNCHANGED <<age, hour, weekday>>
  /\ UNCHANGED <<stage, whose, moves>>

(* The timer of the tracking page does not wait for the answer before.     *)
Poll(f) ==
  /\ open = "tracking"
  /\ read[f].at = "idle"
  /\ read' = [read EXCEPT ![f].at = "asked"]
  /\ crossing' = (crossing \/ UnderWay)
  /\ UNCHANGED <<stage, whose, open, choice, loading, listed, age, hour, weekday,
                 pages, moves, opened, shownFor, failing>>

(* The admin chooses a status, while a list loads or not.                  *)
Choose(c, f) ==
  /\ open = "admin" /\ c # choice
  /\ read[f].at = "idle"
  /\ choice' = c
  /\ loading' = TRUE
  /\ read' = [read EXCEPT ![f] = [Idle EXCEPT !.at = "asked", !.first = TRUE, !.choice = c]]
  /\ crossing' = (crossing \/ UnderWay)
  /\ failing' = FALSE
  /\ UNCHANGED <<stage, whose, open, listed, age, hour, weekday, pages, moves,
                 opened, shownFor>>

LookUp(f) ==
  /\ read[f].at = "before"
  /\ read' = [read EXCEPT ![f].at = "asked"]
  /\ UNCHANGED <<stage, whose, open, choice, loading, listed, age, hour, weekday,
                 pages, moves, opened, shownFor, crossing, failing>>

Serve(f) ==
  /\ read[f].at = "asked"
  /\ LET wanted == Wanted(open, read[f].choice) IN
     read' = [read EXCEPT ![f].at = "answered",
                          ![f].answer = [o \in Number |-> IF o \in wanted THEN stage[o] ELSE "NONE"]]
  /\ UNCHANGED <<stage, whose, open, choice, loading, listed, age, hour, weekday,
                 pages, moves, opened, shownFor, crossing, failing>>

(* The spinner waits for the first read, or for any the admin asked for.   *)
StillLoading(f) == loading /\ ~read[f].first

Answer(f) ==
  /\ read[f].at = "answered"
  /\ listed' = read[f].answer
  /\ shownFor' = read[f].choice
  /\ loading' = StillLoading(f)
  /\ read' = [read EXCEPT ![f] = Idle]
  /\ UNCHANGED <<stage, whose, open, choice, age, hour, weekday, pages, moves, opened,
                 crossing, failing>>

(* The page keeps what it shows.                                           *)
Fail(f) ==
  /\ read[f].at # "idle"
  /\ loading' = StillLoading(f)
  /\ failing' = TRUE
  /\ read' = [read EXCEPT ![f] = Idle]
  /\ UNCHANGED <<stage, whose, open, choice, listed, age, hour, weekday, pages,
                 moves, opened, shownFor, crossing>>

Proceed(f) == LookUp(f) \/ Serve(f) \/ Answer(f)

Next ==
  \/ PlaceOrder
  \/ \E o \in Number : Move(o)
  \/ \E f \in Reading :
       \/ Poll(f) \/ Proceed(f) \/ Fail(f)
       \/ \E p \in Page : Open(p, f)
       \/ \E c \in Chosen \cup {"ALL"} : Choose(c, f)

Spec == Init /\ [][Next]_ordersVars

-----------------------------------------------------------------------------
(* What the pages make of the orders.                                      *)

Banner(s) ==
  CASE s = "DELIVERED" -> "delivered"
    [] s \in Ended -> "cancelled"
    [] OTHER -> "under way"

(* The steps of the tracker that are ticked; it is hidden for an order     *)
(* that was cancelled.                                                     *)
Done(s) == IF s \in Ended THEN {} ELSE {i \in 1 .. 6 : i <= Rank(s)}

(* A day has two units.  The overview counts an order as of today by the   *)
(* calendar, and for a day of the week by spans of 24 hours.               *)
Today == age <= hour
DaysAgo == age \div 2
CalendarDaysAgo == (age + 1 - hour) \div 2
DayOf(days) == (weekday - days + 7) % 7
(* Mutant: the days are counted forward.                                   *)
Forward == (weekday + DaysAgo) % 7
Bar == DayOf(DaysAgo)

-----------------------------------------------------------------------------
(* Properties.                                                             *)

(* The tracker may be late and never wrong: an order it calls delivered or *)
(* cancelled is so for good, and a step it ticks has been taken.           *)
TrackerTells ==
  LET s == listed[Followed] IN
  open = "tracking" =>
    /\ Banner(s) = "delivered" => stage[Followed] = "DELIVERED"
    /\ Banner(s) = "cancelled" => stage[Followed] = s
    /\ \A i \in Done(s) : i <= Rank(stage[Followed])

(* An answer is never older than what it replaces, unless two reads were   *)
(* under way at once: then a page may go back to an earlier status.        *)
NoStepBack ==
  ~crossing =>
    \A f \in Reading, o \in Number :
      read[f].at = "answered" /\ read[f].answer[o] # "NONE" =>
        Rank(read[f].answer[o]) >= Rank(listed[o])

(* At most Take orders were placed since, this one included.               *)
Recent == {o \in Placed : Cardinality(Placed) - o < Take}

(* The orders a page may be relied on to show.  A customer's own orders    *)
(* are among them only until Take others were placed after them.           *)
Reliable ==
  CASE open = "tracking" -> {Followed}
    [] open = "merchant" -> {o \in Number : opened[o] # "NONE"}
    [] open = "earnings" -> {o \in Number : opened[o] = "DELIVERED"}
    [] open = "home" -> {o \in Recent : opened[o] # "NONE" /\ whose[o] = "me"}
    [] open \in {"orders", "overview"} -> {o \in Recent : opened[o] # "NONE"}
    [] OTHER -> {}

(* Once a page has loaded, it shows no such order older than it was when   *)
(* the page was opened, and leaves none out.                               *)
FreshWhenOpened ==
  ~loading /\ ~crossing /\ ~failing =>
    \A o \in Reliable : Rank(listed[o]) >= Rank(opened[o])

(* At rest the admin's list is of the status chosen, unless a read failed  *)
(* or one overtook another.                                                *)
ListIsForStatus ==
  open = "admin" /\ ~UnderWay /\ ~crossing /\ ~failing => shownFor = choice

(* The bar an order of the last seven days is counted in is the one of its *)
(* day or of the day after, and today's orders are in today's bar.         *)
BarsNearTheDay ==
  DaysAgo < 7 =>
    /\ Bar \in {DayOf(CalendarDaysAgo), DayOf(CalendarDaysAgo - 1)}
    /\ Today => Bar = weekday

(* The tracker is never wrong, a page goes back only when reads crossed,   *)
(* nothing is left out that should be listed, the list is of the status    *)
(* chosen, and the bars are near the day.                                  *)
Inv == /\ TypeOK /\ TrackerTells /\ NoStepBack /\ FreshWhenOpened
       /\ ListIsForStatus /\ BarsNearTheDay
=============================================================================
