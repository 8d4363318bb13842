---------------------------- MODULE MatchingEngine ----------------------------
(***************************************************************************)
(* MatchingEngineService.findBestDriver of dispatch-service, one round of  *)
(* the search for a courier: a query for the couriers in a ring around the *)
(* merchant, for a cash order a question to wallet-service about each of   *)
(* them, and the choice.  Couriers move, come and go meanwhile.  Nothing   *)
(* calls it yet; a caller is free to ask with any dispatch.                *)
(***************************************************************************)
EXTENDS Naturals, FiniteSets

CONSTANTS
  Courier,     \* the couriers in driver-service's table
  NoCourier,   \* no match
  Metre,       \* the distances from the merchant that occur
  QueryLimit,  \* LIMIT of the query
  MaxChanges   \* bound on what the couriers do during the rounds

VARIABLES
  distance,    \* of each courier
  free,        \* couriers online, rested and without an order
  solvent,     \* couriers whose wallet holds the 2 million for cash orders
  round,       \* the arguments: retryCount, who was tried, cash or not
  seen,        \* the distances the query returned, of the untried
  unchecked,   \* couriers wallet-service is still to be asked about
  filtered,    \* couriers it did not turn down
  codEligible, \* it called one of them eligible
  best,        \* the courier returned
  step,        \* idle, checking or done
  changes,
  steady,      \* history: couriers the query should see who stayed as they were
  vouched      \* history: couriers wallet-service knew to be fit when asked

found == <<seen, unchecked, filtered, codEligible>>
couriers == <<distance, free, solvent>>
vars == <<couriers, round, found, best, step, changes, steady, vouched>>

MAX_RETRY_ATTEMPTS == 3

(* SEARCH_RINGS, in metres; the last has no radius.                        *)
InRing(ring, metre) ==
  CASE ring = 0 -> metre <= 1500
    [] ring = 1 -> metre <= 3000
    [] ring = 2 -> metre <= 5000
    [] ring = 3 -> metre <= 7000
    [] ring = 4 -> TRUE

(* What callers may pass: a dispatch has attempts left and has tried fewer *)
(* couriers than the query returns.  So the ring without a radius, the     *)
(* fifth, is never reached.                                                *)
Round ==
  [retry : 0 .. MAX_RETRY_ATTEMPTS, cash : BOOLEAN,
   tried : {s \in SUBSET Courier : Cardinality(s) < QueryLimit}]

TypeOK ==
  /\ distance \in [Courier -> Metre]
  /\ {free, solvent, unchecked, filtered, steady, vouched} \subseteq SUBSET Courier
  /\ round \in Round
  /\ \E s \in SUBSET Courier : seen \in [s -> Metre]
  /\ codEligible \in BOOLEAN
  /\ best \in Courier \cup {NoCourier}
  /\ step \in {"idle", "checking", "done"}
  /\ changes \in 0 .. MaxChanges

Init ==
  /\ distance \in [Courier -> Metre]
  /\ free \in SUBSET Courier
  /\ solvent \in SUBSET Courier
  /\ round = [retry |-> 0, tried |-> {}, cash |-> FALSE]
  /\ seen = <<>> /\ unchecked = {} /\ filtered = {} /\ codEligible = FALSE
  /\ best = NoCourier
  /\ step = "idle"
  /\ changes = 0
  /\ steady = {} /\ vouched = {}

-----------------------------------------------------------------------------
(* A round.                                                                *)

Ring(retry) == IF retry < 4 THEN retry ELSE 4

InReach(retry) == {c \in free : InRing(Ring(retry), distance[c])}

(* ORDER BY distance LIMIT: the nearest, whichever of two equally far.     *)
Nearest(cs) ==
  {s \in SUBSET cs :
     /\ Cardinality(s) <= QueryLimit
     /\ s # cs => Cardinality(s) = QueryLimit
     /\ \A c \in s, d \in cs \ s : distance[c] <= distance[d]}

(* Mutant: the farthest.                                                   *)
Farthest(at) == {c \in DOMAIN at : \A d \in DOMAIN at : at[d] <= at[c]}

(* The reduce over eligibleDrivers, which is not the filtered list.        *)
Closest(at) == {c \in DOMAIN at : \A d \in DOMAIN at : at[c] <= at[d]}

(* Nobody was found, or the choice is made in the turn of the last answer. *)
Conclude(kept, at) ==
  /\ step' = "done"
  /\ IF kept = {} THEN best' = NoCourier ELSE best' \in Closest(at)

FindDrivers(r) ==
  /\ step = "idle"
  /\ round' = r
  /\ steady' = InReach(r.retry) \ r.tried
  /\ vouched' = {}
  /\ \E s \in Nearest(InReach(r.retry)) :
       LET untried == s \ r.tried IN
       /\ seen' = [c \in untried |-> distance[c]]
       /\ filtered' = {} /\ codEligible' = FALSE
       /\ IF r.cash /\ untried # {}
          THEN /\ step' = "checking"
               /\ unchecked' = untried
               /\ UNCHANGED best
          ELSE /\ unchecked' = {}
               /\ Conclude(untried, seen')
  /\ UNCHANGED <<couriers, changes>>

(* What the answer of wallet-service about c leaves in the list.           *)
Kept(c, answer) == IF answer \in {"eligible", "unreachable"} THEN filtered \cup {c} ELSE filtered

(* One turn of the loop, the nearest courier first.  An answer that is not *)
(* ok drops the courier; no answer at all keeps them.                      *)
CheckEligibility(c, answer) ==
  /\ step = "checking"
  /\ c \in Closest([d \in unchecked |-> seen[d]])
  /\ answer = "eligible" => c \in solvent
  /\ answer = "refused" => c \notin solvent
  /\ unchecked' = unchecked \ {c}
  /\ filtered' = Kept(c, answer)
  /\ codEligible' = (codEligible \/ answer = "eligible")
  /\ vouched' = IF c \in solvent /\ answer # "error" THEN vouched \cup {c} ELSE vouched
  /\ IF unchecked' = {} THEN Conclude(filtered', seen) ELSE UNCHANGED <<step, best>>
  /\ UNCHANGED <<couriers, round, seen, changes, steady>>

(* The caller has the result and may start another round.                  *)
Return ==
  /\ step = "done"
  /\ step' = "idle"
  /\ best' = NoCourier
  /\ seen' = <<>> /\ filtered' = {} /\ codEligible' = FALSE
  /\ steady' = {} /\ vouched' = {}
  /\ round' = [retry |-> 0, tried |-> {}, cash |-> FALSE]
  /\ UNCHANGED <<couriers, unchecked, changes>>

-----------------------------------------------------------------------------
(* The couriers.                                                           *)

(* A courier moves, comes or goes, or their balance changes.               *)
Change(c) ==
  /\ step = "checking"
  /\ changes < MaxChanges
  /\ changes' = changes + 1
  /\ \/ /\ \E metre \in Metre \ {distance[c]} : distance' = [distance EXCEPT ![c] = metre]
        /\ steady' = steady \ {c}
        /\ UNCHANGED <<free, solvent>>
     \/ /\ free' = IF c \in free THEN free \ {c} ELSE free \cup {c}
        /\ steady' = steady \ {c}
        /\ UNCHANGED <<distance, solvent>>
     \/ /\ solvent' = IF c \in solvent THEN solvent \ {c} ELSE solvent \cup {c}
        /\ UNCHANGED <<distance, free, steady>>
  /\ UNCHANGED <<round, found, best, step, vouched>>

Answer == {"eligible", "refused", "error", "unreachable"}

Next ==
  \/ \E r \in Round : FindDrivers(r)
  \/ \E c \in Courier, answer \in Answer : CheckEligibility(c, answer)
  \/ \E c \in Courier : Change(c)
  \/ Return

Spec == Init /\ [][Next]_vars

-----------------------------------------------------------------------------
(* Properties.                                                             *)

(* The courier returned was not tried before and was in the ring when the  *)
(* round began, and nobody who stayed free where they were, and for a cash *)
(* order could cover it when wallet-service was asked, is nearer.  When    *)
(* nobody is returned there was nobody of that kind.  The courier returned *)
(* for a cash order need not be one who can: the list the loop builds is   *)
(* tested for being empty and not chosen from.                             *)
MatchIsNearest ==
  step = "done" =>
    IF best = NoCourier
    THEN \A c \in steady : round.cash /\ seen # <<>> /\ c \notin vouched
    ELSE /\ best \notin round.tried
         /\ InRing(Ring(round.retry), seen[best])
         /\ \A c \in steady : (round.cash => c \in vouched) => seen[best] <= distance[c]

(* The invariant the run checks.                                           *)
Inv == TypeOK /\ MatchIsNearest
=============================================================================
