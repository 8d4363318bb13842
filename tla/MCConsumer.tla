----------------------------- MODULE MCConsumer -----------------------------
(***************************************************************************)
(* For TLC: a consumer's two sides, the profile at consumer-service and    *)
(* the browser tab with the checkout page.  The page reads the profile     *)
(* once, as a place, so a behaviour is one of the two sides.               *)
(*                                                                         *)
(* Two merchants with a dish each: one dish that a code makes free, and    *)
(* one too cheap for it; a place next door and one beyond the highest fee. *)
(* Slots, entries and orders are interchangeable: they are used in turn.   *)
(***************************************************************************)
EXTENDS ConsumerStore, Checkout, TLC

CONSTANTS d1, d2, m1, m2, near, far

KitchenOf == (d1 :> m1) @@ (d2 :> m2)
PriceOf == (d1 :> 9804) @@ (d2 :> 4000)
MetresTo == (near :> 0) @@ (far :> 25000)
Hours == {12}
Skies == {Fine}
Codes == {"", "PROMO10", "PROMO20"}

VARIABLES side  \* profile or tab

InitConsumer == side \in {"profile", "tab"} /\ Init /\ CheckoutInit

(* The first idle slot and the first unused entry are taken.               *)
SlotsInTurn ==
  ~\E r, s \in Request : r < s /\ pc[r] = "idle" /\ pc[s] = "idle" /\ pc'[s] # "idle"
EntriesInTurn == ~\E e, f \in Entry : e < f /\ Unused(e) /\ Unused(f) /\ ~Unused(f)'

(* The first press is order 1.                                             *)
OrdersInTurn == ~\E o, p \in Order : o < p /\ flow[o] = "new" /\ flow'[p] # "new"

(* The device is far from the point the map starts at, and stays there.    *)
DeviceIsFar == form'.looking # near

AtTheProfile ==
  side = "profile" /\ Next /\ SlotsInTurn /\ EntriesInTurn /\ UNCHANGED <<side, checkoutVars>>
InTheTab ==
  side = "tab" /\ CheckoutNext /\ OrdersInTurn /\ DeviceIsFar /\ UNCHANGED <<side, vars>>

SpecConsumer ==
  InitConsumer /\ [][AtTheProfile \/ InTheTab]_<<side, vars, checkoutVars>>
=============================================================================
