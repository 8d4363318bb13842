------------------------------- MODULE MCMoney -------------------------------
(* The services that move money, each by itself: payment-service, or the   *)
(* wallets of wallet-service.  Slots, payments and wallets are             *)
(* interchangeable.                                                        *)
EXTENDS PaymentStore, Integers, TLC

CONSTANTS Restaurant, Platform, Tax, NoOwner, Wallet, NoWallet, MinWithdraw,
          MinCodBalance, Dong, MaxHandlers

ASSUME OwnersAssumption ==
  /\ NoOwner \notin Driver \cup Restaurant \cup {Platform, Tax}
  /\ NoWallet \notin Wallet
  /\ Driver \cap Restaurant = {} /\ (Driver \cup Restaurant) \cap {Platform, Tax} = {}
ASSUME CreditsAssumption ==
  /\ Dong \subseteq Int
  /\ MinWithdraw \in Nat /\ MinCodBalance \in Nat /\ MaxHandlers \in Nat

(* Amounts for TLC: below and above the least withdrawal, and negative.    *)
Amounts == {0 - 1, 2, 6}

VARIABLES
  half,  \* payments or wallets
  owner, balance, recorded, withdrawn, query, op, todo, loaded, before, handlers, disturbed

Wallets == INSTANCE WalletStore WITH
  Merchant <- Restaurant, Amount <- Dong, MaxRequests <- MaxHandlers,
  ledger <- recorded, pc <- query, wallet <- loaded, started <- handlers

walletVars == <<owner, balance, recorded, withdrawn, query, op, todo, loaded, before,
                handlers, disturbed>>

InitHalves == half \in {"payments", "wallets"} /\ Init /\ Wallets!Init

InPayments == half = "payments" /\ Next /\ UNCHANGED <<half, walletVars>>
InWallets == half = "wallets" /\ Wallets!Next /\ UNCHANGED <<half, vars>>

SpecHalves == InitHalves /\ [][InPayments \/ InWallets]_<<half, vars, walletVars>>

Interchangeable ==
  Permutations(Request) \cup Permutations(Payment) \cup Permutations(Wallet)

-----------------------------------------------------------------------------
(* The transactions of an undisturbed owner add up to the balance.         *)
LedgerMatches == Wallets!LedgerMatches

(* An undisturbed owner has one wallet.                                    *)
OneWallet == Wallets!OneWallet

(* An undisturbed courier withdraws once between two midnights.            *)
OneWithdrawalADay == Wallets!OneWithdrawalADay

(* No withdrawal takes a courier below the floor.                          *)
FloorKept == Wallets!FloorKept

(* A save replaces the balance it read, which a comment claims.            *)
SaveReplacesWhatItRead == Wallets!SaveReplacesWhatItRead
=============================================================================
