----------------------------- MODULE LocationPage -----------------------------
(***************************************************************************)
(* The page where a courier says where they are: the address search, which *)
(* waits until the courier stops typing (the checkout page searches the    *)
(* same way), the pin, and the call that stores its place.                 *)
(***************************************************************************)
EXTENDS Naturals, FiniteSets

CONSTANTS
  Query,      \* texts long enough to be searched for
  Nothing,    \* no text, no list, no timer
  Short,      \* a text that is too short
  Empty,      \* texts the search finds nothing for
  Fetch,      \* slots for searches under way
  Place,      \* places the pin can be at
  Home,       \* the place it starts at
  MaxTyped,   \* bound on the texts typed
  MaxUpdates  \* bound on the calls to driver-service

VARIABLES
  search,      \* the text in the field
  timer,       \* searchTimeout: the text it will search for
  fetches,     \* the searches under way
  suggestions, \* the list: the text it was found for
  visible,     \* showSuggestions
  lastTyped,   \* history: the text typed last
  passed,      \* history: a search was begun, or given up for a text that is
               \* too short, while another was under way
  typed,       \* texts typed so far
  pin,         \* lat and lng
  gps,         \* the position was asked for
  updating,    \* the place of the call the button waits for
  status,      \* what the page says of the last call
  stored,      \* driver-service: the courier's place
  late,        \* places of calls nobody waits for, still to be stored
  sent,        \* history: the place of the last call
  lost,        \* history: the page did not hear the end of a call
  updates      \* calls so far

searchVars == <<search, timer, fetches, suggestions, visible, lastTyped, passed, typed>>
placeVars == <<updating, status, stored, late, sent, lost, updates>>
vars == <<search, timer, fetches, suggestions, visible, lastTyped, passed, typed,
          pin, gps, updating, status, stored, late, sent, lost, updates>>

Text == Query \cup {Short, Nothing}

TypeOK ==
  /\ search \in Text
  /\ timer \in Query \cup {Nothing}
  /\ fetches \in [Fetch -> Query \cup {Nothing}]
  /\ suggestions \in Query \cup {Nothing}
  /\ visible \in BOOLEAN
  /\ lastTyped \in Text
  /\ passed \in BOOLEAN
  /\ typed \in Nat
  /\ pin \in Place
  /\ gps \in BOOLEAN
  /\ updating \in Place \cup {Nothing}
  /\ status \in {"", "ok", "error"}
  /\ stored \in Place \cup {Nothing}
  /\ late \in SUBSET Place
  /\ sent \in Place \cup {Nothing}
  /\ lost \in BOOLEAN
  /\ updates \in Nat

Init ==
  /\ search = Nothing
  /\ timer = Nothing
  /\ fetches = [f \in Fetch |-> Nothing]
  /\ suggestions = Nothing
  /\ visible = FALSE
  /\ lastTyped = Nothing
  /\ passed = FALSE
  /\ typed = 0
  /\ pin = Home
  /\ gps = FALSE
  /\ updating = Nothing
  /\ status = ""
  /\ stored = Nothing
  /\ late = {}
  /\ sent = Nothing
  /\ lost = FALSE
  /\ updates = 0

-----------------------------------------------------------------------------
(* The search.                                                             *)

UnderWay == \E f \in Fetch : fetches[f] # Nothing

(* Mutant: the timer of the text before goes on beside the new one.        *)
KeepTimer(text) == IF text \in Query /\ timer = Nothing THEN text ELSE timer

(* fetchSuggestions clears the timer; only a long text sets it again.      *)
NewTimer(text) == IF text \in Query THEN text ELSE Nothing

(* handleSearchChange.  A text that is too short hides the list.           *)
Type(text) ==
  /\ typed < MaxTyped
  /\ typed' = typed + 1
  /\ search' = text
  /\ lastTyped' = text
  /\ timer' = NewTimer(text)
  /\ IF text \in Query THEN UNCHANGED <<suggestions, visible, passed>>
     ELSE /\ suggestions' = Nothing /\ visible' = FALSE
          /\ passed' = (passed \/ UnderWay)
  /\ UNCHANGED <<fetches, pin, gps, placeVars>>

(* 400 ms after the last text.                                             *)
TimerFires(f) ==
  /\ timer # Nothing
  /\ fetches[f] = Nothing
  /\ fetches' = [fetches EXCEPT ![f] = timer]
  /\ passed' = (passed \/ UnderWay)
  /\ timer' = Nothing
  /\ UNCHANGED <<search, suggestions, visible, lastTyped, typed, pin, gps, placeVars>>

Results(text) == IF text \in Empty THEN Nothing ELSE text

(* A search that failed leaves no list.                                    *)
Fetched(f) ==
  /\ fetches[f] # Nothing
  /\ fetches' = [fetches EXCEPT ![f] = Nothing]
  /\ \/ /\ suggestions' = Results(fetches[f])
        /\ visible' = (suggestions' # Nothing)
     \/ /\ suggestions' = Nothing
        /\ UNCHANGED visible
  /\ UNCHANGED <<search, timer, lastTyped, passed, typed, pin, gps, placeVars>>

(* The button that empties the field leaves the timer alone.               *)
ClearButton ==
  /\ search # Nothing
  /\ search' = Nothing
  /\ suggestions' = Nothing
  /\ UNCHANGED <<timer, fetches, visible, lastTyped, passed, typed, pin, gps, placeVars>>

(* A click outside the list.                                               *)
HideList ==
  /\ visible
  /\ visible' = FALSE
  /\ UNCHANGED <<search, timer, fetches, suggestions, lastTyped, passed, typed,
                 pin, gps, placeVars>>

(* selectSuggestion moves the pin; the field shows the place's name, a     *)
(* long text nobody typed.                                                 *)
SelectSuggestion(place) ==
  /\ visible /\ suggestions # Nothing
  /\ pin' = place
  /\ search' = suggestions
  /\ visible' = FALSE
  /\ UNCHANGED <<timer, fetches, suggestions, lastTyped, passed, typed, gps, placeVars>>

-----------------------------------------------------------------------------
(* The pin and the call.                                                   *)

(* A click on the map, or the button that puts the pin back.               *)
MovePin(place) ==
  /\ pin' = place
  /\ UNCHANGED <<searchVars, gps, placeVars>>

AskPosition ==
  /\ gps' = TRUE
  /\ UNCHANGED <<searchVars, pin, placeVars>>

(* The position comes, or cannot be found; the page says so where it says  *)
(* how a call ended.                                                       *)
Position(place) ==
  /\ gps
  /\ \/ pin' = place
     \/ UNCHANGED pin
  /\ gps' \in BOOLEAN
  /\ status' = ""
  /\ UNCHANGED <<searchVars, updating, stored, late, sent, lost, updates>>

(* Mutant: the page says at once that all went well.                       *)
Optimistic == "ok"

(* setStatus('') at the click.                                             *)
AtClick == ""

(* The button is disabled while a call is under way.                       *)
UpdateLocation ==
  /\ updating = Nothing
  /\ updates < MaxUpdates
  /\ updates' = updates + 1
  /\ updating' = pin
  /\ sent' = pin
  /\ status' = AtClick
  /\ UNCHANGED <<searchVars, pin, gps, stored, late, lost>>

Confirmed ==
  /\ updating # Nothing
  /\ stored' = updating
  /\ updating' = Nothing
  /\ status' = "ok"
  /\ UNCHANGED <<searchVars, pin, gps, late, sent, lost, updates>>

(* Mutant: an error leaves the button disabled.                            *)
StillUpdating == updating

AfterError == Nothing

(* The courier is off duty, the service fails or the connection breaks,    *)
(* before the place was stored, after, or while the service goes on.       *)
NotConfirmed ==
  /\ updating # Nothing
  /\ updating' = AfterError
  /\ status' = "error"
  /\ \/ UNCHANGED <<stored, late, lost>>
     \/ stored' = updating /\ lost' = TRUE /\ UNCHANGED late
     \/ late' = late \cup {updating} /\ lost' = TRUE /\ UNCHANGED stored
  /\ UNCHANGED <<searchVars, pin, gps, sent, updates>>

StoredLate(place) ==
  /\ place \in late
  /\ stored' = place
  /\ late' = late \ {place}
  /\ UNCHANGED <<searchVars, pin, gps, updating, status, sent, lost, updates>>

Ends == Confirmed \/ NotConfirmed

Next ==
  \/ ClearButton \/ HideList \/ AskPosition \/ UpdateLocation \/ Ends
  \/ \E text \in Query \cup {Short} : Type(text)
  \/ \E f \in Fetch : TimerFires(f) \/ Fetched(f)
  \/ \E place \in Place :
       SelectSuggestion(place) \/ MovePin(place) \/ Position(place) \/ StoredLate(place)

(* A call ends in some way.                                                *)
Fairness == WF_vars(Ends)

Spec == Init /\ [][Next]_vars
FairSpec == Spec /\ Fairness

-----------------------------------------------------------------------------
(* Properties.                                                             *)

(* When the search has come to rest the list is for the text typed last,   *)
(* however many were typed before it was searched for, unless a search was *)
(* begun, or given up, while another was still under way: the page takes   *)
(* whatever answer comes last.                                             *)
ListIsForLastText ==
  timer = Nothing /\ ~UnderWay /\ ~passed => suggestions \in {lastTyped, Nothing}

(* A place confirmed is where the service has the courier, even if the pin *)
(* has moved since, as long as the page heard the end of every call.       *)
ConfirmedIsStored == status = "ok" /\ ~lost => stored = sent

(* The button is enabled again after every call.                           *)
ButtonComesBack == updating # Nothing ~> updating = Nothing
=============================================================================
