----------------------------- MODULE WalletStore -----------------------------
(***************************************************************************)
(* wallet-service: WalletService over WalletRepository.  A credit or debit *)
(* reads the owner's wallet (and creates it if there is none), computes    *)
(* the new balance in memory, writes it back as an absolute value and      *)
(* records a transaction, each with a query of its own.  A settlement is a *)
(* row of credits.  Nothing serialises two handlers.                       *)
(***************************************************************************)
EXTENDS Integers, Sequences, FiniteSets

CONSTANTS
  Driver,         \* owners of type DRIVER
  Merchant,       \* owners of any other type that has a uuid
  Platform, Tax,  \* PLATFORM_DEFAULT and TAX_DEFAULT, which are no uuid
  NoOwner,        \* the owner of a wallet id that was not drawn yet
  Wallet,         \* wallet ids; create() draws a fresh one each time
  NoWallet,       \* an idle slot works on no wallet
  Request,        \* slots for handlers running at the same time
  MinWithdraw,    \* MIN_WITHDRAW
  MinCodBalance,  \* MIN_COD_BALANCE
  Amount,         \* the amounts requests carry, of either sign
  MaxRequests     \* bound on the handlers that ever start

Owner == Driver \cup Merchant
House == {Platform, Tax}

VARIABLES
  owner,      \* the wallets table: owner of each wallet
  balance,    \* ... and its balance
  ledger,     \* the wallet_transactions of each wallet, added up
  withdrawn,  \* how many withdrawals of each owner are dated today
  pc,         \* the query each handler issues next, "idle" when it runs none
  op,         \* what it does with a wallet: "get", "credit" or "debit"
  todo,       \* the owners and amounts it still has to serve, current first
  wallet,     \* the wallet it loaded
  before,     \* the balance it loaded
  started,    \* handlers started so far
  disturbed   \* history: owners two handlers worked on at once, or whose
              \* handler failed between the balance and its transaction

vars == <<owner, balance, ledger, withdrawn, pc, op, todo, wallet, before,
          started, disturbed>>

wallets == <<owner, balance>>
journal == <<ledger, withdrawn>>

Task == [owner : Owner \cup House, amount : Int]

TypeOK ==
  /\ owner \in [Wallet -> Owner \cup {NoOwner}]
  /\ balance \in [Wallet -> Int]
  /\ ledger \in [Wallet -> Int]
  /\ withdrawn \in [Owner -> Nat]
  /\ pc \in [Request -> {"idle", "find", "insert", "count", "save", "record"}]
  /\ op \in [Request -> {"get", "credit", "debit"}]
  /\ todo \in [Request -> Seq(Task)]
  /\ \A r \in Request : pc[r] # "idle" => todo[r] # <<>>
  /\ \A r \in Request : pc[r] \notin {"idle", "find"} => Head(todo[r]).owner \in Owner
  /\ wallet \in [Request -> Wallet \cup {NoWallet}]
  /\ \A r \in Request : pc[r] \in {"count", "save", "record"} => wallet[r] \in Wallet
  /\ before \in [Request -> Int]
  /\ started \in Nat
  /\ disturbed \in SUBSET Owner

Init ==
  /\ owner = [w \in Wallet |-> NoOwner]
  /\ balance = [w \in Wallet |-> 0]
  /\ ledger = [w \in Wallet |-> 0]
  /\ withdrawn = [o \in Owner |-> 0]
  /\ pc = [r \in Request |-> "idle"]
  /\ op = [r \in Request |-> "get"]
  /\ todo = [r \in Request |-> <<>>]
  /\ wallet = [r \in Request |-> NoWallet]
  /\ before = [r \in Request |-> 0]
  /\ started = 0
  /\ disturbed = {}

-----------------------------------------------------------------------------
(* The rules.                                                              *)

MaxWithdrawsPerDay == 1

(* Math.round(total * percent / 100), exact: a product on a half, which    *)
(* binary fractions may round the other way, needs a total not in tens.    *)
Share(total, percent) == (total * percent + 50) \div 100

(* Mutant: every look-up misses.                                           *)
NoneFound(o) == {}

WalletsOf(o) == {w \in Wallet : owner[w] = o}

(* Mutants: the floor, or the daily limit, is left out.                    *)
LimitOnly(o, b, a) == withdrawn[o] < MaxWithdrawsPerDay
FloorOnly(o, b, a) == b - a >= MinCodBalance

(* A courier may withdraw once a day, down to the floor for cash orders.   *)
Withdrawable(o, b, a) ==
  withdrawn[o] < MaxWithdrawsPerDay /\ b - a >= MinCodBalance

(* What the handler adds to the balance.                                   *)
Change(r) == IF op[r] = "debit" THEN 0 - Head(todo[r]).amount ELSE Head(todo[r]).amount

(* Mutant: a withdrawal is recorded as a credit.                           *)
RecordedAsCredit(r) == Head(todo[r]).amount

(* What the transaction adds to the ledger: the amount, signed by its type.*)
Recorded(r) == IF op[r] = "debit" THEN 0 - Head(todo[r]).amount ELSE Head(todo[r]).amount

-----------------------------------------------------------------------------
(* The handlers, one action per query.                                     *)

GoTo(r, step) == pc' = [pc EXCEPT ![r] = step] /\ UNCHANGED <<op, todo>>

(* The handler returns or throws and its memory is gone.                   *)
Finish(r) ==
  /\ pc' = [pc EXCEPT ![r] = "idle"]
  /\ op' = [op EXCEPT ![r] = "get"]
  /\ todo' = [todo EXCEPT ![r] = <<>>]
  /\ wallet' = [wallet EXCEPT ![r] = NoWallet]
  /\ before' = [before EXCEPT ![r] = 0]

WorksOn(r, o) == pc[r] \notin {"idle", "find"} /\ Head(todo[r]).owner = o

Start(r, kind, tasks) ==
  /\ pc[r] = "idle"
  /\ started < MaxRequests
  /\ started' = started + 1
  /\ pc' = [pc EXCEPT ![r] = "find"]
  /\ op' = [op EXCEPT ![r] = kind]
  /\ todo' = [todo EXCEPT ![r] = tasks]
  /\ UNCHANGED <<wallets, journal, wallet, before, disturbed>>

One(o, a) == <<[owner |-> o, amount |-> a]>>

(* Every read of a wallet, a balance or of the eligibility for cash orders *)
(* creates the wallet it does not find.                                    *)
GetOrCreate(r) == \E o \in Owner : Start(r, "get", One(o, 0))

(* POST /wallets/topup; settleRegular credits a courier the same way.      *)
(* Nothing looks at the amount, and a negative one takes money away.  The  *)
(* top-up of the Stripe webhook is never reached: the signature check gets *)
(* the parsed body where it needs the raw one, and throws.                 *)
Credit(r) == \E o \in Owner, a \in Amount : Start(r, "credit", One(o, a))

Debit(r) == \E o \in Owner, a \in Amount : Start(r, "debit", One(o, a))

SettleCOD(r) ==
  \E d \in Driver, m \in Merchant, food \in Amount, fee \in Amount :
    Start(r, "credit", One(d, fee) \o One(m, Share(food, 70))
                         \o One(Platform, Share(food, 20)) \o One(Tax, Share(food, 10)))

(* With the wallet loaded: a get is done, a debit below the minimum        *)
(* throws, and only couriers have their withdrawals counted.               *)
Loaded(r, w, b) ==
  LET task == Head(todo[r]) IN
  IF op[r] = "get" \/ (op[r] = "debit" /\ task.amount < MinWithdraw)
  THEN Finish(r)
  ELSE /\ wallet' = [wallet EXCEPT ![r] = w]
       /\ before' = [before EXCEPT ![r] = b]
       /\ GoTo(r, IF op[r] = "debit" /\ task.owner \in Driver THEN "count" ELSE "save")

(* findOne by owner, in no order; an owner that is no uuid is an error of  *)
(* the database.  A handler that goes on disturbs an owner another one     *)
(* works on.                                                               *)
Find(r) ==
  LET o == Head(todo[r]).owner IN
  /\ pc[r] = "find"
  /\ IF o \in House THEN Finish(r)
     ELSE IF WalletsOf(o) # {} THEN \E w \in WalletsOf(o) : Loaded(r, w, balance[w])
     ELSE GoTo(r, "insert") /\ UNCHANGED <<wallet, before>>
  /\ disturbed' = IF pc'[r] # "idle" /\ \E s \in Request : WorksOn(s, o)
                  THEN disturbed \cup {o} ELSE disturbed
  /\ UNCHANGED <<wallets, journal, started>>

Insert(r) ==
  /\ pc[r] = "insert"
  /\ \E w \in Wallet :
       /\ owner[w] = NoOwner
       /\ owner' = [owner EXCEPT ![w] = Head(todo[r]).owner]
       /\ Loaded(r, w, 0)
  /\ UNCHANGED <<balance, journal, started, disturbed>>

(* countDailyWithdraws, then the two checks.                               *)
Count(r) ==
  /\ pc[r] = "count"
  /\ IF Withdrawable(Head(todo[r]).owner, before[r], Head(todo[r]).amount)
     THEN GoTo(r, "save") /\ UNCHANGED <<wallet, before>>
     ELSE Finish(r)
  /\ UNCHANGED <<wallets, journal, started, disturbed>>

(* save writes the balance computed from the one that was read; the        *)
(* version column is counted up and never compared.                        *)
Save(r) ==
  /\ pc[r] = "save"
  /\ balance' = [balance EXCEPT ![wallet[r]] = before[r] + Change(r)]
  /\ GoTo(r, "record")
  /\ UNCHANGED <<owner, journal, wallet, before, started, disturbed>>

(* recordTransaction; a settlement goes on with its next credit.           *)
Record(r) ==
  LET o == Head(todo[r]).owner
      left == Tail(todo[r])
  IN
  /\ pc[r] = "record"
  /\ ledger' = [ledger EXCEPT ![wallet[r]] = @ + Recorded(r)]
  /\ withdrawn' = IF op[r] = "debit" THEN [withdrawn EXCEPT ![o] = @ + 1] ELSE withdrawn
  /\ IF left = <<>> THEN Finish(r)
     ELSE /\ pc' = [pc EXCEPT ![r] = "find"]
          /\ todo' = [todo EXCEPT ![r] = left]
          /\ wallet' = [wallet EXCEPT ![r] = NoWallet]
          /\ before' = [before EXCEPT ![r] = 0]
          /\ UNCHANGED op
  /\ UNCHANGED <<wallets, started, disturbed>>

(* The process dies, or the connection fails, before the next query.       *)
Abort(r) ==
  /\ pc[r] # "idle"
  /\ Finish(r)
  /\ disturbed' = IF pc[r] = "record" THEN disturbed \cup {Head(todo[r]).owner} ELSE disturbed
  /\ UNCHANGED <<wallets, journal, started>>

(* Midnight: the count looks at transactions dated since.                  *)
NewDay ==
  /\ withdrawn' = [o \in Owner |-> 0]
  /\ UNCHANGED <<wallets, ledger, pc, op, todo, wallet, before, started, disturbed>>

Next ==
  \/ \E r \in Request :
       \/ GetOrCreate(r) \/ Credit(r) \/ Debit(r) \/ SettleCOD(r)
       \/ Find(r) \/ Insert(r) \/ Count(r) \/ Save(r) \/ Record(r) \/ Abort(r)
  \/ NewDay

Spec == Init /\ [][Next]_vars
-----------------------------------------------------------------------------
(* Properties.                                                             *)

Recording(r, w) == pc[r] = "record" /\ wallet[r] = w

(* The transactions of an undisturbed owner explain the balance: their sum *)
(* is the balance whenever no handler is between the two.                  *)
LedgerMatches ==
  \A w \in Wallet :
    owner[w] \in disturbed \/ balance[w] = ledger[w] \/ \E r \in Request : Recording(r, w)

(* An undisturbed owner has one wallet, so that no look-up has to choose.  *)
OneWallet ==
  \A w, x \in Wallet :
    owner[w] = owner[x] /\ owner[w] \in Owner \ disturbed => w = x

(* An undisturbed courier withdraws once a day, whatever happens between   *)
(* the count and the transaction it counts.                                *)
OneWithdrawalADay ==
  \A d \in Driver \ disturbed : withdrawn[d] <= MaxWithdrawsPerDay

Crediting(r, w) == pc[r] = "save" /\ wallet[r] = w /\ op[r] # "debit"

(* No withdrawal takes a courier below the floor for cash orders, however  *)
(* handlers overlap: each checks the balance that it replaces.  What falls *)
(* below it is a balance some credit lowers, since its amount is negative  *)
(* or it overwrites what another handler wrote.                            *)
FloorKept ==
  [][\A w \in Wallet :
       owner[w] \in Driver /\ balance'[w] < balance[w] =>
         \/ balance'[w] >= MinCodBalance
         \/ \E r \in Request :
              /\ Crediting(r, w)
              /\ Head(todo[r]).amount < 0 \/ owner[w] \in disturbed]_vars

(* The comment on the version column of WalletEntity, "prevents race       *)
(* conditions on balance updates": a save replaces the balance it read.    *)
SaveReplacesWhatItRead ==
  [][\A r \in Request :
       pc[r] = "save" /\ pc'[r] = "record" => balance[wallet[r]] = before[r]]_vars

-----------------------------------------------------------------------------
(* The inductive invariant behind the properties above.                    *)

(* What the handler alone on an owner's wallet knows, query by query.      *)
HandlerCoherent(r, o) ==
  /\ pc[r] = "insert" => WalletsOf(o) = {}
  /\ pc[r] \in {"count", "save"} => before[r] = balance[wallet[r]]
  /\ pc[r] \in {"save", "record"} /\ op[r] = "debit" /\ o \in Driver =>
       withdrawn[o] < MaxWithdrawsPerDay
  /\ pc[r] = "record" => balance[wallet[r]] = ledger[wallet[r]] + Recorded(r)

OwnerCoherent(o) ==
  /\ \A w, x \in WalletsOf(o) : w = x
  /\ \A r \in Request : WorksOn(r, o) => HandlerCoherent(r, o)
  /\ \A r, s \in Request : WorksOn(r, o) /\ WorksOn(s, o) => r = s
  /\ \A w \in WalletsOf(o) :
       balance[w] = ledger[w] \/ \E r \in Request : Recording(r, w)
  /\ o \in Driver => withdrawn[o] <= MaxWithdrawsPerDay

(* A withdrawal about to be written leaves the floor.                      *)
AboveFloor ==
  \A r \in Request :
    pc[r] = "save" /\ op[r] = "debit" /\ Head(todo[r]).owner \in Driver =>
      before[r] - Head(todo[r]).amount >= MinCodBalance

(* The handler alone on an owner knows the balance it will replace and     *)
(* finds no other wallet of that owner; ids not drawn yet hold no money.   *)
Coherent ==
  /\ \A r \in Request :
       pc[r] \in {"count", "save", "record"} => owner[wallet[r]] = Head(todo[r]).owner
  /\ \A w \in Wallet : owner[w] = NoOwner => balance[w] = 0 /\ ledger[w] = 0
  /\ \A o \in Owner \ disturbed : OwnerCoherent(o)
=============================================================================
