--------------------------- MODULE MCDispatchStore ---------------------------
(***************************************************************************)
(* For TLC: the two halves of dispatch-service, the dispatches and the     *)
(* search for a courier.  Nothing in the code joins them yet, so a         *)
(* behaviour is one of either.  Couriers are interchangeable, and so are   *)
(* dispatch ids.                                                           *)
(***************************************************************************)
EXTENDS DispatchStore, TLC

CONSTANTS Courier, NoCourier, Metre, QueryLimit, MaxChanges

ASSUME SearchAssumption ==
  NoCourier \notin Courier /\ Metre \subseteq Nat /\ QueryLimit \in Nat \ {0}
    /\ MaxChanges \in Nat
ASSUME CourierAssumption == IsFiniteSet(Courier)

VARIABLES
  half,  \* dispatches or search
  distance, free, solvent, round, seen, unchecked, filtered, codEligible, best, step,
  changes, steady, vouched

Search == INSTANCE MatchingEngine

searchVars == <<distance, free, solvent, round, seen, unchecked, filtered, codEligible,
                best, step, changes, steady, vouched>>

(* While dispatches are worked on, one state of the search is enough.      *)
InitHalves ==
  /\ half \in {"dispatches", "search"}
  /\ Init
  /\ Search!Init
  /\ half = "dispatches" =>
       /\ free = {} /\ solvent = {}
       /\ distance = [c \in Courier |-> CHOOSE metre \in Metre : TRUE]

InDispatches == half = "dispatches" /\ Next /\ UNCHANGED <<half, searchVars>>
InSearch == half = "search" /\ Search!Next /\ UNCHANGED <<half, vars>>

SpecHalves == InitHalves /\ [][InDispatches \/ InSearch]_<<half, vars, searchVars>>

Interchangeable ==
  Permutations(Driver) \cup Permutations(Dispatch) \cup Permutations(Courier)

-----------------------------------------------------------------------------
(* A search ends with the nearest courier; see MatchingEngine.             *)
MatchIsNearest == Search!Inv
=============================================================================
