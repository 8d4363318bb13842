---------------------------- MODULE MCOrderStore ----------------------------
(***************************************************************************)
(* For TLC: orders in order-service and on the pages that only show them.  *)
(* The pages see a status at a time and never a query, so a behaviour is   *)
(* one of either: two handlers on an order, or a page with two reads.      *)
(***************************************************************************)
EXTENDS OrderStore, TLC

CONSTANTS LastOrder, Take, Reading, MaxOpened, MaxMoves, Chosen, Age, Weekday

ASSUME PagesAssumption ==
  /\ {LastOrder, Take} \subseteq Nat \ {0} /\ {MaxOpened, MaxMoves} \subseteq Nat
  /\ Age \subseteq Nat /\ Weekday \subseteq 0 .. 6 /\ {} \notin {Age, Weekday}

VARIABLES
  half,  \* service or pages
  stage, whose, open, choice, loading, read, listed, age, hour, weekday, pages, moves,
  opened, shownFor, crossing, failing

Pages == INSTANCE OrderPages

pagesVars == <<stage, whose, open, choice, loading, read, listed, age, hour, weekday,
               pages, moves, opened, shownFor, crossing, failing>>

(* While the service works, one state of the pages is enough.              *)
InitHalves ==
  /\ half \in {"service", "pages"}
  /\ Init
  /\ Pages!Init /\ (half = "service" => stage[1] = "PENDING")

InService == half = "service" /\ Next /\ UNCHANGED <<half, pagesVars>>
InPages == half = "pages" /\ Pages!Next /\ UNCHANGED <<half, vars>>

SpecHalves == InitHalves /\ [][InService \/ InPages]_<<half, vars, pagesVars>>

Interchangeable == Permutations(Driver) \cup Permutations(Reading)

-----------------------------------------------------------------------------
(* Properties of the pages; see OrderPages.                                *)

(* The tracker is never wrong, a page goes back only when reads crossed,   *)
(* nothing is left out that should be listed, the list is of the status    *)
(* chosen, and the bars are near the day.                                  *)
PagesInv == Pages!Inv
=============================================================================
