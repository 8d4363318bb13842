------------------------------ MODULE BackOffice ------------------------------
(***************************************************************************)
(* The pages that list rows of a service and let somebody decide on them:  *)
(* the admin's merchants, couriers and users, and the merchant's orders    *)
(* and menu.  A click keeps the list of the render it was made in, and its *)
(* answer writes that list back with one row changed.  The users are       *)
(* loaded anew whenever a filter or the page number changes.               *)
(***************************************************************************)
EXTENDS Integers, FiniteSets

CONSTANTS
  Item,      \* rows of the service
  Call,      \* slots for calls under way
  MaxCalls,  \* bound on the calls that ever start
  MaxOthers  \* bound on what others decide

VARIABLES
  screen,     \* which page is open
  row,        \* the service: the status of each row
  trained,    \* driver-service: couriers who completed the training
  list,       \* the page: the status shown of each row listed
  count,      \* mStats or dStats: how many rows the page counts of a status
  query,      \* the users page: the filter and the page number
  busy,       \* loading of the users page, saving of the menu page
  call,       \* the calls
  calls,      \* calls so far
  others,     \* decisions of others so far
  had,        \* history: the statuses each row has had
  known,      \* history: what the page was last told of each row
  loaded,     \* history: the query of the list shown
  crossed,    \* history: two calls were under way at once
  failed      \* history: the page was not told how a call ended

serviceVars == <<row, trained, had>>
vars == <<screen, row, trained, list, count, query, busy, call, calls, others,
          had, known, loaded, crossed, failed>>

Screen == {"merchants", "drivers", "users", "orders", "menu"}

Status ==
  {"PENDING", "APPROVED", "REJECTED", "INACTIVE", "ACTIVE", "SUSPENDED",
   "CONFIRMED", "PREPARING", "READY_FOR_PICKUP", "ON", "OFF", "GONE"}
Unlisted == "GONE"

(* A choice on the users page: no filter or one status, and the page.       *)
Choice == [status : {"ALL", "ACTIVE"}, skip : {0, 20}]
FirstChoice == [status |-> "ALL", skip |-> 0]

Op == {"approve", "activate", "suspend", "status", "advance", "add", "update",
       "toggle", "delete", "load"}

Decision == [at : {"idle", "training", "sent", "done", "refused"}, op : Op,
             item : Item, to : Status, before : [Item -> Status],
             answer : [Item -> Status], query : Choice]

AnyItem == CHOOSE i \in Item : TRUE
Idle == [at |-> "idle", op |-> "load", item |-> AnyItem, to |-> Unlisted,
         before |-> [i \in Item |-> Unlisted], answer |-> [i \in Item |-> Unlisted],
         query |-> FirstChoice]

First(s) ==
  CASE s = "merchants" -> {"PENDING", "REJECTED"}
    [] s = "drivers" -> {"INACTIVE", "ACTIVE"}
    [] s = "users" -> {"ACTIVE"}
    [] s = "orders" -> {"PENDING"}
    [] s = "menu" -> {"ON", "GONE"}

Counted == {"PENDING", "APPROVED", "INACTIVE", "ACTIVE", "SUSPENDED"}
Rows(l, s) == Cardinality({i \in Item : l[i] = s})

TypeOK ==
  /\ screen \in Screen
  /\ row \in [Item -> Status]
  /\ trained \in SUBSET Item
  /\ list \in [Item -> Status]
  /\ count \in [Counted -> Int]
  /\ query \in Choice
  /\ busy \in BOOLEAN
  /\ call \in [Call -> Decision]
  /\ calls \in Nat
  /\ others \in Nat
  /\ had \in [Item -> SUBSET Status]
  /\ known \in [Item -> Status]
  /\ loaded \in Choice
  /\ crossed \in BOOLEAN
  /\ failed \in BOOLEAN

(* The page has loaded its rows.                                           *)
Init ==
  /\ screen \in Screen
  /\ row \in [Item -> First(screen)]
  /\ trained = IF screen = "drivers" THEN {i \in Item : row[i] = "ACTIVE"} ELSE {}
  /\ list = row
  /\ count = [s \in Counted |-> Rows(row, s)]
  /\ query = FirstChoice
  /\ busy = FALSE
  /\ call = [c \in Call |-> Idle]
  /\ calls = 0
  /\ others = 0
  /\ had = [i \in Item |-> {row[i]}]
  /\ known = row
  /\ loaded = FirstChoice
  /\ crossed = FALSE
  /\ failed = FALSE

-----------------------------------------------------------------------------
(* What the buttons of a row ask for, and what the services make of it.    *)

NextStage(s) ==
  CASE s = "PENDING" -> "CONFIRMED"
    [] s = "CONFIRMED" -> "PREPARING"
    [] OTHER -> "READY_FOR_PICKUP"

Flip(s) == IF s = "ON" THEN "OFF" ELSE "ON"

(* The buttons shown for a row: operation and status aimed at.  The        *)
(* admin's button that rejects a merchant calls what does not exist.       *)
MerchantButtons(s) == IF s = "PENDING" THEN {<<"approve", "APPROVED">>} ELSE {}

DriverButtons(s) ==
  (IF s = "INACTIVE" THEN {<<"activate", "ACTIVE">>} ELSE {}) \cup
  (IF s = "ACTIVE" THEN {<<"suspend", "SUSPENDED">>} ELSE {})

(* The users' statuses are a field that can be set to any of them.         *)
UserButtons(s) ==
  IF s = Unlisted \/ busy THEN {} ELSE {"status"} \X ({"ACTIVE", "INACTIVE", "SUSPENDED"} \ {s})

OrderButtons(s) ==
  IF s \in {"PENDING", "CONFIRMED", "PREPARING"} THEN {<<"advance", NextStage(s)>>} ELSE {}

(* The form that adds and changes items is disabled while it saves.        *)
FormButtons(s) ==
  CASE busy -> {}
    [] ~busy /\ s = Unlisted -> {<<"add", "ON">>}
    [] ~busy /\ s # Unlisted -> {<<"update", s>>}

ItemButtons(s) == IF s = Unlisted THEN {} ELSE {<<"toggle", s>>, <<"delete", Unlisted>>}

Buttons(s) ==
  CASE screen = "merchants" -> MerchantButtons(s)
    [] screen = "drivers" -> DriverButtons(s)
    [] screen = "users" -> UserButtons(s)
    [] screen = "orders" -> OrderButtons(s)
    [] screen = "menu" -> FormButtons(s) \cup ItemButtons(s)

ValidTransition(s, t) ==
  (s = "ACTIVE" /\ t \in {"INACTIVE", "SUSPENDED"}) \/ (s \in {"INACTIVE", "SUSPENDED"} /\ t = "ACTIVE")

(* Whether the service does what a call asks for.                          *)
Accepts(d) ==
  LET s == row[d.item] IN
  CASE d.op = "approve" -> s \in {"PENDING", "REJECTED"}
    [] d.op = "activate" -> d.item \in trained
    [] d.op = "suspend" -> TRUE
    [] d.op = "status" -> ValidTransition(s, d.to)
    [] d.op = "advance" -> d.to = NextStage(s) /\ s # "READY_FOR_PICKUP"
    [] d.op = "add" -> had[d.item] = {Unlisted}
    [] d.op \in {"update", "toggle", "delete"} -> s # Unlisted

(* The status of the row afterwards.  A menu item deleted is out of the    *)
(* menu in memory only, and its row is still there.                        *)
Becomes(d) ==
  CASE d.op = "toggle" -> Flip(row[d.item])
    [] d.op \in {"update", "delete"} -> row[d.item]
    [] OTHER -> d.to

(* ... and what the answer says of it.                                     *)
Told(d) == IF d.op = "delete" THEN Unlisted ELSE Becomes(d)

Listed(q, l) == [i \in Item |-> IF q.status \in {"ALL", l[i]} THEN l[i] ELSE Unlisted]

-----------------------------------------------------------------------------
(* The page.                                                               *)

Begin(c, d) ==
  /\ call[c].at = "idle"
  /\ calls < MaxCalls
  /\ calls' = calls + 1
  /\ call' = [call EXCEPT ![c] = d]
  /\ crossed' = (crossed \/ \E e \in Call : call[e].at # "idle")

(* A button of a row.  Activating a courier completes the training first.  *)
Click(c, i) ==
  \E b \in Buttons(list[i]) :
    /\ b[1] = "add" => had[i] = {Unlisted}
    /\ Begin(c, [Idle EXCEPT !.at = IF b[1] = "activate" THEN "training" ELSE "sent",
                             !.op = b[1], !.item = i, !.to = b[2], !.before = list])
    /\ busy' = (busy \/ b[1] \in {"add", "update"})
    /\ UNCHANGED <<screen, serviceVars, list, count, query, others, known, loaded, failed>>

Loading(q) == [Idle EXCEPT !.at = "sent", !.query = q]

(* Mutant: the list is loaded for the filter before.                       *)
Previous(q) == query

Reloaded(q) == q

(* A filter puts the page back to the first and loads it; the arrows below *)
(* the table, which is not there while it loads, turn the page.            *)
Filter(c, q) ==
  /\ screen = "users" /\ q # query
  /\ \/ q.skip = 0 /\ q.status # query.status
     \/ q.status = query.status /\ ~busy
  /\ query' = q
  /\ Begin(c, Loading(Reloaded(q)))
  /\ busy' = TRUE
  /\ UNCHANGED <<screen, serviceVars, list, count, others, known, loaded, failed>>

(* The button that searches loads the page at hand at once, and the first  *)
(* page as well when that is another one.                                  *)
Search(c, e) ==
  LET first == [query EXCEPT !.skip = 0] IN
  /\ screen = "users"
  /\ call[c].at = "idle"
  /\ IF first = query THEN e = c ELSE e # c /\ call[e].at = "idle"
  /\ calls < MaxCalls
  /\ calls' = calls + 1
  /\ call' = [call EXCEPT ![c] = Loading(query), ![e] = Loading(first)]
  /\ crossed' = (crossed \/ e # c \/ \E f \in Call : call[f].at # "idle")
  /\ query' = first
  /\ busy' = TRUE
  /\ UNCHANGED <<screen, serviceVars, list, count, others, known, loaded, failed>>

-----------------------------------------------------------------------------
(* The services.                                                           *)

CompleteTraining(c) ==
  /\ call[c].at = "training"
  /\ \/ trained' = trained \cup {call[c].item}
     \/ UNCHANGED trained
  /\ call' = [call EXCEPT ![c].at = "sent"]
  /\ UNCHANGED <<screen, row, list, count, query, busy, calls, others, had,
                 known, loaded, crossed, failed>>

Serve(c) ==
  LET d == call[c] IN
  /\ d.at = "sent"
  /\ \/ /\ d.op = "load"
        /\ call' = [call EXCEPT ![c] = [d EXCEPT !.at = "done", !.answer = Listed(d.query, row)]]
        /\ UNCHANGED <<row, had>>
     \/ /\ d.op # "load" /\ Accepts(d)
        /\ row' = [row EXCEPT ![d.item] = Becomes(d)]
        /\ had' = [had EXCEPT ![d.item] = @ \cup {Becomes(d)}]
        /\ call' = [call EXCEPT ![c] = [d EXCEPT !.at = "done", !.to = Told(d)]]
     \/ /\ d.op # "load" /\ ~Accepts(d)
        /\ call' = [call EXCEPT ![c].at = "refused"]
        /\ UNCHANGED <<row, had>>
  /\ UNCHANGED <<screen, trained, list, count, query, busy, calls, others,
                 known, loaded, crossed, failed>>

(* A call fails, or its answer is lost.                                    *)
Fail(c) ==
  /\ call[c].at \in {"training", "sent", "done"}
  /\ call' = [call EXCEPT ![c].at = "refused"]
  /\ failed' = TRUE
  /\ UNCHANGED <<screen, serviceVars, list, count, query, busy, calls, others,
                 known, loaded, crossed>>

(* Somebody else decides on a row.                                         *)
Moves(s) ==
  CASE screen = "merchants" -> {"APPROVED", "REJECTED"} \ (IF s = "APPROVED" THEN {"REJECTED"} ELSE {})
    [] screen = "drivers" -> {"INACTIVE", "SUSPENDED"}
    [] screen = "users" -> {t \in {"ACTIVE", "INACTIVE", "SUSPENDED"} : ValidTransition(s, t)}
    [] screen = "orders" -> {NextStage(s)}
    [] screen = "menu" -> IF s = Unlisted THEN {} ELSE {Flip(s)}

Others(i) ==
  /\ others < MaxOthers
  /\ others' = others + 1
  /\ \E s \in Moves(row[i]) \ {row[i]} :
       /\ row' = [row EXCEPT ![i] = s]
       /\ had' = [had EXCEPT ![i] = @ \cup {s}]
  /\ UNCHANGED <<screen, trained, list, count, query, busy, call, calls, known,
                 loaded, crossed, failed>>

-----------------------------------------------------------------------------
(* The answers.                                                            *)

(* Mutants: the spinner goes on after an error; the row stays as it was.   *)
Spinning(d) == d.op \in {"load", "add", "update"} /\ d.at = "done"
Unchanged(d, s) == d.before

(* The answer is the one hoped for.                                        *)
Heard(d) == d.at = "done"

(* The calls whose end clears the spinner.                                 *)
EndsBusy(d) == d.op \in {"load", "add", "update"}

(* The list of the render the click was made in, with one row changed.     *)
Rewritten(d, s) == [d.before EXCEPT ![d.item] = s]

(* The counters are moved from what they are now.                          *)
Moved(from, to) == [count EXCEPT ![from] = @ - 1, ![to] = @ + 1]

Approved(d) == [list |-> Rewritten(d, "APPROVED"), count |-> Moved("PENDING", "APPROVED")]
Activated(d) == [list |-> Rewritten(d, "ACTIVE"), count |-> Moved("INACTIVE", "ACTIVE")]
Suspended(d) == [list |-> Rewritten(d, "SUSPENDED"), count |-> Moved("ACTIVE", "SUSPENDED")]
StatusChanged(d) == [list |-> Rewritten(d, d.to), count |-> count]
Advanced(d) == [list |-> Rewritten(d, d.to), count |-> count]
Loaded(d) == [list |-> d.answer, count |-> count]

(* The menu page takes the item the service answers with, or takes the     *)
(* item off.                                                               *)
Added(d) == [list |-> Rewritten(d, d.to), count |-> count]
Updated(d) == [list |-> Rewritten(d, d.to), count |-> count]
Toggled(d) == [list |-> Rewritten(d, d.to), count |-> count]
Deleted(d) == [list |-> Rewritten(d, Unlisted), count |-> count]

After(d) ==
  CASE d.op = "approve" -> Approved(d)
    [] d.op = "activate" -> Activated(d)
    [] d.op = "suspend" -> Suspended(d)
    [] d.op = "status" -> StatusChanged(d)
    [] d.op = "advance" -> Advanced(d)
    [] d.op = "load" -> Loaded(d)
    [] d.op = "add" -> Added(d)
    [] d.op = "update" -> Updated(d)
    [] d.op = "toggle" -> Toggled(d)
    [] d.op = "delete" -> Deleted(d)

Answer(c) ==
  LET d == call[c] IN
  /\ d.at \in {"done", "refused"}
  /\ call' = [call EXCEPT ![c] = Idle]
  /\ IF Heard(d)
     THEN /\ list' = After(d).list
          /\ count' = After(d).count
          /\ known' = IF d.op = "load" THEN d.answer ELSE [known EXCEPT ![d.item] = d.to]
          /\ loaded' = IF d.op = "load" THEN d.query ELSE loaded
     ELSE UNCHANGED <<list, count, known, loaded>>
  /\ busy' = (busy /\ ~EndsBusy(d))
  /\ UNCHANGED <<screen, serviceVars, query, calls, others, crossed, failed>>

Work(c) == CompleteTraining(c) \/ Serve(c) \/ Answer(c)

Next ==
  \/ \E c \in Call :
       \/ Work(c)
       \/ Fail(c)
       \/ \E i \in Item : Click(c, i)
       \/ \E q \in Choice : Filter(c, q)
       \/ \E e \in Call : Search(c, e)
  \/ \E i \in Item : Others(i)

(* A call ends: a service answers, or the connection to it breaks.         *)
Fairness == \A c \in Call : WF_vars(Work(c))

Spec == Init /\ [][Next]_vars
FairSpec == Spec /\ Fairness

-----------------------------------------------------------------------------
(* Properties.                                                             *)

(* A page never shows a status the row has not had: nothing is shown       *)
(* before the service confirmed it, however the answers are ordered.       *)
NothingInvented ==
  \A i \in Item : list[i] \in had[i] \cup {Unlisted}

(* What the page was told last of a row it shows, of every row at once,    *)
(* unless two calls were under way together: then the answer of one writes *)
(* the row of the other back.                                              *)
LastWordStands == ~crossed => list = known

(* The counters over the list count the list, under the same condition.    *)
CountersCountTheList ==
  screen \in {"merchants", "drivers"} /\ ~crossed =>
    \A s \in Counted : count[s] = Rows(list, s)

(* The users shown are those of the filter and the page shown, once        *)
(* nothing is under way, no load failed and none overtook another.         *)
ListIsForQuery ==
  (\A c \in Call : call[c].at = "idle") /\ ~crossed /\ ~failed => loaded = query

(* The spinner of the users page, and the disabled form of the menu page,  *)
(* end with the call.                                                      *)
BusyEnds == busy ~> ~busy
=============================================================================
