------------------------------- MODULE Screens -------------------------------
(***************************************************************************)
(* The pages of the apps that share nothing with one another but the       *)
(* browser: one of them is open, a wallet page, the courier's location     *)
(* page, or one of the pages that list and decide.                         *)
(***************************************************************************)
EXTENDS Integers, FiniteSets

CONSTANTS
  Job, Amount, Opening, MinTopup, MinWithdraw, MinPayout, MinCodBalance, MaxPayments,
  Query, Nothing, Short, Empty, Fetch, Place, Home, MaxTyped, MaxUpdates,
  Item, Call, MaxCalls, MaxOthers

ASSUME AmountAssumption == Amount \subseteq Nat /\ Opening \in Int
ASSUME LeastAssumption ==
  MinTopup \in Nat /\ MinWithdraw \in Nat /\ MinPayout \in Nat /\ MinCodBalance \in Nat
ASSUME QueryAssumption ==
  Nothing \notin Query /\ Short \notin Query /\ Nothing # Short /\ Empty \subseteq Query
ASSUME PlaceAssumption == Home \in Place /\ Nothing \notin Place
ASSUME ItemAssumption == IsFiniteSet(Item) /\ Item # {}
ASSUME BoundsAssumption ==
  {MaxPayments, MaxTyped, MaxUpdates, MaxCalls, MaxOthers} \subseteq Nat

VARIABLES
  app,  \* the page that is open
  owner, account, balance, withdrawn, shown, tab, field, showStripe, processing,
  job, paid, crossed, cancelled,
  search, timer, fetches, suggestions, visible, lastTyped, passed, typed, pin,
  gps, updating, status, stored, late, sent, lost, updates,
  screen, rows, trained, list, count, query, busy, call, calls, others, had,
  known, loaded, overtaken, failed

Wallet == INSTANCE WalletPages
Location == INSTANCE LocationPage
Office == INSTANCE BackOffice WITH crossed <- overtaken, row <- rows

walletVars == <<owner, account, balance, withdrawn, shown, tab, field, showStripe,
                processing, job, paid, crossed, cancelled>>
locationVars == <<search, timer, fetches, suggestions, visible, lastTyped, passed,
                  typed, pin, gps, updating, status, stored, late, sent, lost, updates>>
officeVars == <<screen, rows, trained, list, count, query, busy, call, calls,
                others, had, known, loaded, overtaken, failed>>
screensVars == <<app, walletVars, locationVars, officeVars>>

(* The pages that are not open keep one of their initial states.           *)
ScreensInit ==
  /\ app \in {"wallet", "location", "office"}
  /\ Wallet!Init /\ (app # "wallet" => owner = "DRIVER")
  /\ Location!Init
  /\ Office!Init /\ (app # "office" => screen = "orders")

OnWalletPage == app = "wallet" /\ Wallet!Next /\ UNCHANGED <<app, locationVars, officeVars>>
OnLocationPage == app = "location" /\ Location!Next /\ UNCHANGED <<app, walletVars, officeVars>>
OnOfficePage == app = "office" /\ Office!Next /\ UNCHANGED <<app, walletVars, locationVars>>

ScreensNext == OnWalletPage \/ OnLocationPage \/ OnOfficePage

ScreensSpec == ScreensInit /\ [][ScreensNext]_screensVars
FairScreensSpec == ScreensSpec /\ Wallet!Fairness /\ Location!Fairness /\ Office!Fairness

-----------------------------------------------------------------------------
(* Properties: those of the pages, where each is stated and explained.     *)

(* The pages keep to their types; a form lets one payment through at a     *)
(* time; a list is for the text or the filter chosen last, and shows what  *)
(* its rows have been; a place confirmed is the place stored.              *)
ScreensInv ==
  /\ Wallet!TypeOK /\ Location!TypeOK /\ Office!TypeOK
  /\ Wallet!OneTopupAtATime
  /\ Location!ListIsForLastText /\ Location!ConfirmedIsStored
  /\ Office!NothingInvented /\ Office!ListIsForQuery

(* What a wallet page tells of a payment is what happened to it, and at    *)
(* rest it shows the balance of the wallet.  A list shows the last word on *)
(* each of its rows, and the counters over it count them.                  *)
WhatPagesTell ==
  /\ Wallet!ReceiptsAreTrue /\ Wallet!ShownIsCurrent
  /\ Office!LastWordStands /\ Office!CountersCountTheList

(* No page waits forever: the form for a top-up, the button that stores    *)
(* the courier's place, the spinners and disabled forms all come back.     *)
PagesComeBack == Wallet!FormComesBack /\ Location!ButtonComesBack /\ Office!BusyEnds
=============================================================================
