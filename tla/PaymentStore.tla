---------------------------- MODULE PaymentStore ----------------------------
(***************************************************************************)
(* payment-service: the payment aggregate, PaymentService, the split and   *)
(* refund flows of SplitPaymentService, and the wallets of this service.   *)
(* A handler loads the payment, calls Stripe, writes wallets and saves the *)
(* payment last; every query and every call to Stripe is an action, and    *)
(* nothing serialises two handlers.  A call to Stripe may be done and      *)
(* answered, refused, or done with its answer lost.                        *)
(***************************************************************************)
EXTENDS Naturals, FiniteSets

CONSTANTS
  Payment,       \* payment ids
  Driver,        \* courier ids
  Merchant,      \* the restaurant that is paid
  NoDriver,      \* the null driverId
  NoPayment,     \* an idle slot works on no payment
  Request,       \* slots for handlers running at the same time
  Amount,        \* the amounts a payment may have, in VND
  MerchantPercent, DriverPercent, PlatformPercent,  \* the environment
  MaxRequests    \* bound on the handlers that ever start

ASSUME NullAssumption ==
  /\ NoDriver \notin Driver /\ Merchant \notin Driver \cup {NoDriver}
  /\ NoPayment \notin Payment
ASSUME AmountAssumption == Amount \subseteq Nat \ {0}
ASSUME PercentAssumption ==
  MerchantPercent \in Nat /\ DriverPercent \in Nat /\ PlatformPercent \in Nat
ASSUME MaxRequestsAssumption == MaxRequests \in Nat

VARIABLES
  row,       \* the payments table
  wallet,    \* the wallets table: for each owner its rows, each row the set
             \* of payments whose share is in its balance
  ledger,    \* wallet_transactions: credits written per payment and role
  stripe,    \* Stripe: the state of each payment's PaymentIntent
  refunded,  \* Stripe: how many halves of a charge were returned
  sent,      \* Stripe: transfers made per payment and role
  pc,        \* the query or call each handler issues next
  target,    \* the payment each handler works on
  command,   \* what it was asked
  ent,       \* the payment it has in memory
  base,      \* the row TypeORM selected before its update
  role,      \* whose share the split is working on
  purse,     \* the wallet row the split has in memory
  started,   \* handlers started so far
  overlapped,\* history: payments two handlers worked on at once
  cut,       \* history: payments captured by a split that never saved
  astray     \* history: payments whose handler ended between a call to
             \* Stripe that was not answered well and the save

vars == <<row, wallet, ledger, stripe, refunded, sent, pc, target, command,
          ent, base, role, purse, started, overlapped, cut, astray>>

tables == <<row, wallet, ledger>>
external == <<stripe, refunded, sent>>
memory == <<ent, base, role, purse>>
history == <<overlapped, cut, astray>>

Role == {"merchant", "driver"}
Owner == Driver \cup {Merchant}
DriverOrNull == Driver \cup {NoDriver}
Status == {"PENDING", "HELD", "COMPLETED", "FAILED", "REFUNDED"}
Intent == {"none", "created", "authorized", "captured", "cancelled"}

(* A payments row: transfers holds the roles whose transfer id it records. *)
Row == [status : Status \cup {"NONE"}, intent : BOOLEAN, driver : DriverOrNull,
        amount : Amount \cup {0}, transfers : SUBSET Role]

Absent == [status |-> "NONE", intent |-> FALSE, driver |-> NoDriver,
           amount |-> 0, transfers |-> {}]

(* The bodies the controller lets through to an existing payment.          *)
Command ==
  [op : {"split", "complete", "fail", "refund", "refundHalf"}, driver : {NoDriver}]
    \cup [op : {"assignDriver"}, driver : Driver]

Idle == [op |-> "create", driver |-> NoDriver]

Step == {"idle", "insert", "cancel", "capture", "transfer", "findWallet",
         "createWallet", "saveWallet", "record", "refund", "select", "update"}

Purse == [id : Payment \cup {NoPayment}, holds : SUBSET Payment]
NoPurse == [id |-> NoPayment, holds |-> {}]

Rows == UNION {[W -> SUBSET Payment] : W \in SUBSET Payment}
NoRows == [w \in {} |-> {}]

TypeOK ==
  /\ row \in [Payment -> Row]
  /\ wallet \in [Owner -> Rows]
  /\ ledger \in [Payment -> [Role -> Nat]]
  /\ stripe \in [Payment -> Intent]
  /\ refunded \in [Payment -> 0..2]
  /\ sent \in [Payment -> [Role -> Nat]]
  /\ pc \in [Request -> Step]
  /\ target \in [Request -> Payment \cup {NoPayment}]
  /\ \A r \in Request : pc[r] # "idle" => target[r] \in Payment
  /\ command \in [Request -> Command \cup {Idle}]
  /\ ent \in [Request -> Row]
  /\ base \in [Request -> Row]
  /\ role \in [Request -> Role]
  /\ purse \in [Request -> Purse]
  /\ started \in Nat
  /\ overlapped \in SUBSET Payment
  /\ cut \in SUBSET Payment
  /\ astray \in SUBSET Payment

Init ==
  /\ row = [p \in Payment |-> Absent]
  /\ wallet = [o \in Owner |-> NoRows]
  /\ ledger = [p \in Payment |-> [x \in Role |-> 0]]
  /\ stripe = [p \in Payment |-> "none"]
  /\ refunded = [p \in Payment |-> 0]
  /\ sent = [p \in Payment |-> [x \in Role |-> 0]]
  /\ pc = [r \in Request |-> "idle"]
  /\ target = [r \in Request |-> NoPayment]
  /\ command = [r \in Request |-> Idle]
  /\ ent = [r \in Request |-> Absent]
  /\ base = [r \in Request |-> Absent]
  /\ role = [r \in Request |-> "merchant"]
  /\ purse = [r \in Request |-> NoPurse]
  /\ started = 0
  /\ overlapped = {}
  /\ cut = {}
  /\ astray = {}

-----------------------------------------------------------------------------
(* The shares of an amount.                                                *)

(* calculateSplitFromEnv: percentages that do not add up are ignored.      *)
Percents ==
  IF MerchantPercent + DriverPercent + PlatformPercent = 100
  THEN [merchant |-> MerchantPercent, driver |-> DriverPercent]
  ELSE [merchant |-> 70, driver |-> 20]

(* Math.round(n * k / d) for natural n.                                    *)
Rounded(n, k, d) == (2 * n * k + d) \div (2 * d)

Net(amount) == amount - Rounded(amount, 35, 1000)

(* Mutant: each share is rounded up.                                       *)
RoundedUp(amount, x) == (Net(amount) * Percents[x] + 99) \div 100

Share(amount, x) == Rounded(Net(amount), Percents[x], 100)

-----------------------------------------------------------------------------
(* The aggregate: the first thing a handler does after loading the row.    *)

(* Mutants: fail cancels nothing; complete takes a held payment.           *)
FailWithoutCancel(c, e) ==
  CASE c.op = "assignDriver" -> "select"
    [] c.op = "split" -> IF e.intent THEN "capture" ELSE "reject"
    [] c.op = "complete" -> IF e.status = "PENDING" THEN "select" ELSE "reject"
    [] c.op = "fail" -> IF e.status \in {"PENDING", "HELD"} THEN "select" ELSE "reject"
    [] c.op \in {"refund", "refundHalf"} ->
         IF e.status = "HELD" /\ e.intent THEN "cancel"
         ELSE IF e.status = "COMPLETED" /\ e.intent THEN "refund"
         ELSE IF e.status \in {"HELD", "COMPLETED"} THEN "select" ELSE "reject"

CompleteHeld(c, e) ==
  IF c.op = "complete" /\ e.status = "HELD" THEN "select"
  ELSE FailWithoutCancel(c, e)

(* complete throws unless PENDING, fail unless PENDING or HELD, refund     *)
(* unless COMPLETED or HELD; the split looks at the PaymentIntent only.    *)
FirstStep(c, e) ==
  CASE c.op = "assignDriver" -> "select"
    [] c.op = "split" -> IF e.intent THEN "capture" ELSE "reject"
    [] c.op = "complete" -> IF e.status = "PENDING" THEN "select" ELSE "reject"
    [] c.op = "fail" -> IF e.status = "HELD" /\ e.intent THEN "cancel"
                        ELSE IF e.status \in {"PENDING", "HELD"} THEN "select"
                        ELSE "reject"
    [] c.op \in {"refund", "refundHalf"} ->
         IF e.status = "HELD" /\ e.intent THEN "cancel"
         ELSE IF e.status = "COMPLETED" /\ e.intent THEN "refund"
         ELSE IF e.status \in {"HELD", "COMPLETED"} THEN "select" ELSE "reject"

(* Mutant: a status the table does not know.                               *)
Misspelled(c, e) ==
  IF c.op = "fail" THEN [e EXCEPT !.status = "CANCELLED"]
  ELSE [e EXCEPT !.status = "COMPLETED"]

(* The payment after the domain method that ends the command.              *)
AfterCommand(c, e) ==
  CASE c.op = "assignDriver" -> [e EXCEPT !.driver = c.driver]
    [] c.op \in {"split", "complete"} -> [e EXCEPT !.status = "COMPLETED"]
    [] c.op = "fail" -> [e EXCEPT !.status = "FAILED"]
    [] c.op \in {"refund", "refundHalf"} -> [e EXCEPT !.status = "REFUNDED"]

-----------------------------------------------------------------------------
(* Handlers.                                                               *)

GoTo(r, step) ==
  /\ pc' = [pc EXCEPT ![r] = step]
  /\ UNCHANGED <<target, command, started>>

(* The handler returns or throws and its memory is gone.                   *)
Finish(r) ==
  /\ pc' = [pc EXCEPT ![r] = "idle"]
  /\ target' = [target EXCEPT ![r] = NoPayment]
  /\ command' = [command EXCEPT ![r] = Idle]
  /\ ent' = [ent EXCEPT ![r] = Absent]
  /\ base' = [base EXCEPT ![r] = Absent]
  /\ role' = [role EXCEPT ![r] = "merchant"]
  /\ purse' = [purse EXCEPT ![r] = NoPurse]
  /\ UNCHANGED started

Busy(p) == \E s \in Request : target[s] = p

Start(r, p, c, step) ==
  /\ pc[r] = "idle"
  /\ started < MaxRequests
  /\ started' = started + 1
  /\ pc' = [pc EXCEPT ![r] = step]
  /\ target' = [target EXCEPT ![r] = p]
  /\ command' = [command EXCEPT ![r] = c]
  /\ overlapped' = IF Busy(p) THEN overlapped \cup {p} ELSE overlapped

(* A uuid nobody has used.                                                 *)
Fresh(p) == row[p] = Absent /\ ~Busy(p) /\ stripe[p] = "none" /\ p \notin overlapped

(* Payment.create, and Payment.hold of a card payment.                     *)
NewPayment(a) == [Absent EXCEPT !.status = "PENDING", !.amount = a]
Hold(e) == [e EXCEPT !.status = "HELD", !.intent = TRUE]

(* POST /payments: one insert, no PaymentIntent, whatever the method.      *)
CreatePayment(p, a) ==
  /\ Fresh(p)
  /\ started < MaxRequests
  /\ started' = started + 1
  /\ row' = [row EXCEPT ![p] = NewPayment(a)]
  /\ UNCHANGED <<wallet, ledger, external, pc, target, command, memory, history>>

(* POST /payments/stripe: Stripe makes the PaymentIntent first, ...        *)
CreateIntent(r, p, a) ==
  /\ Fresh(p)
  /\ Start(r, p, Idle, "insert")
  /\ stripe' = [stripe EXCEPT ![p] = "created"]
  /\ ent' = [ent EXCEPT ![r] = Hold(NewPayment(a))]
  /\ UNCHANGED <<tables, refunded, sent, base, role, purse, cut, astray>>

(* ... then the payment, held at once, is inserted and the client secret   *)
(* goes to the customer.                                                   *)
InsertHeld(r) ==
  /\ pc[r] = "insert"
  /\ row' = [row EXCEPT ![target[r]] = ent[r]]
  /\ Finish(r)
  /\ UNCHANGED <<wallet, ledger, external, history>>

(* findByIdOrFail and the code up to the next await.                       *)
FindPayment(r, p, c) ==
  /\ row[p] # Absent
  /\ FirstStep(c, row[p]) # "reject"
  /\ Start(r, p, c, FirstStep(c, row[p]))
  /\ ent' = [ent EXCEPT ![r] = IF FirstStep(c, row[p]) = "select"
                               THEN AfterCommand(c, row[p]) ELSE row[p]]
  /\ UNCHANGED <<tables, external, base, role, purse, cut, astray>>

(* DELETE /payments/:id deletes without looking.                           *)
DeletePayment(p) ==
  /\ row[p] # Absent
  /\ started < MaxRequests
  /\ started' = started + 1
  /\ row' = [row EXCEPT ![p] = Absent]
  /\ overlapped' = IF Busy(p) THEN overlapped \cup {p} ELSE overlapped
  /\ UNCHANGED <<wallet, ledger, external, pc, target, command, memory, cut, astray>>

-----------------------------------------------------------------------------
(* Stripe.                                                                 *)

(* The customer confirms the card with the client secret.                  *)
Authorize(p) ==
  /\ stripe[p] = "created"
  /\ row[p] # Absent
  /\ stripe' = [stripe EXCEPT ![p] = "authorized"]
  /\ UNCHANGED <<tables, refunded, sent, pc, target, command, memory, started, history>>

(* An authorization nobody captured lapses; the webhook that tells of it   *)
(* changes nothing.                                                        *)
Lapse(p) ==
  /\ stripe[p] \in {"created", "authorized"}
  /\ row[p] # Absent
  /\ stripe' = [stripe EXCEPT ![p] = "cancelled"]
  /\ UNCHANGED <<tables, refunded, sent, pc, target, command, memory, started, history>>

(* A call is possible or refused; if possible it is done and answered,     *)
(* lost on the way there, or lost on the way back.                         *)
Outcomes(possible) ==
  {x \in [done : BOOLEAN, heard : BOOLEAN] : (x.done => possible) /\ (x.heard => x.done)}

Capturable(p) == stripe[p] = "authorized"
Cancellable(p) == stripe[p] \in {"created", "authorized"}
Refundable(p) == stripe[p] = "captured" /\ refunded[p] < 2

(* Mutant: refund swallows a failed cancellation like fail.                *)
CancelSwallowed(r) ==
  /\ pc[r] = "cancel"
  /\ \E x \in Outcomes(Cancellable(target[r])) :
       /\ stripe' = IF x.done THEN [stripe EXCEPT ![target[r]] = "cancelled"] ELSE stripe
       /\ astray' = IF x.heard THEN astray ELSE astray \cup {target[r]}
  /\ ent' = [ent EXCEPT ![r] = AfterCommand(command[r], ent[r])]
  /\ GoTo(r, "select")
  /\ UNCHANGED <<tables, refunded, sent, base, role, purse, overlapped, cut>>

(* fail swallows a failed cancellation; refund of a held payment does not. *)
CancelIntent(r) ==
  /\ pc[r] = "cancel"
  /\ \E x \in Outcomes(Cancellable(target[r])) :
       /\ stripe' = IF x.done THEN [stripe EXCEPT ![target[r]] = "cancelled"] ELSE stripe
       /\ IF x.heard \/ command[r].op = "fail"
          THEN /\ ent' = [ent EXCEPT ![r] = AfterCommand(command[r], ent[r])]
               /\ GoTo(r, "select")
               /\ UNCHANGED <<base, role, purse>>
          ELSE Finish(r)
       /\ astray' = IF x.heard THEN astray ELSE astray \cup {target[r]}
  /\ UNCHANGED <<tables, refunded, sent, overlapped, cut>>

(* Without an amount the rest is refunded, with one that much.             *)
RefundIntent(r) ==
  /\ pc[r] = "refund"
  /\ \E x \in Outcomes(Refundable(target[r])) :
       /\ refunded' = IF ~x.done THEN refunded
                      ELSE IF command[r].op = "refund"
                           THEN [refunded EXCEPT ![target[r]] = 2]
                           ELSE [refunded EXCEPT ![target[r]] = @ + 1]
       /\ IF x.heard
          THEN /\ ent' = [ent EXCEPT ![r] = AfterCommand(command[r], ent[r])]
               /\ GoTo(r, "select")
               /\ UNCHANGED <<base, role, purse>>
          ELSE Finish(r)
       /\ astray' = IF x.heard THEN astray ELSE astray \cup {target[r]}
  /\ UNCHANGED <<tables, stripe, sent, overlapped, cut>>

-----------------------------------------------------------------------------
(* The split.                                                              *)

(* Mutants: the split goes on after any error of the capture, or after the *)
(* error that says the PaymentIntent was captured before.                  *)
CaptureUnchecked(r) ==
  /\ pc[r] = "capture"
  /\ \E x \in Outcomes(Capturable(target[r])) :
       stripe' = IF x.done THEN [stripe EXCEPT ![target[r]] = "captured"] ELSE stripe
  /\ GoTo(r, "transfer")
  /\ UNCHANGED <<tables, refunded, sent, memory, history>>

CaptureAgain(r) ==
  /\ pc[r] = "capture"
  /\ \E x \in Outcomes(Capturable(target[r])) :
       /\ stripe' = IF x.done THEN [stripe EXCEPT ![target[r]] = "captured"] ELSE stripe
       /\ IF x.heard \/ stripe[target[r]] = "captured"
          THEN GoTo(r, "transfer") /\ UNCHANGED memory ELSE Finish(r)
       /\ cut' = IF x.done /\ ~x.heard THEN cut \cup {target[r]} ELSE cut
  /\ UNCHANGED <<tables, refunded, sent, overlapped, astray>>

(* Capture first: an error ends the split.                                 *)
Capture(r) ==
  /\ pc[r] = "capture"
  /\ \E x \in Outcomes(Capturable(target[r])) :
       /\ stripe' = IF x.done THEN [stripe EXCEPT ![target[r]] = "captured"] ELSE stripe
       /\ IF x.heard THEN GoTo(r, "transfer") /\ UNCHANGED memory ELSE Finish(r)
       /\ cut' = IF x.done /\ ~x.heard THEN cut \cup {target[r]} ELSE cut
  /\ UNCHANGED <<tables, refunded, sent, overlapped, astray>>

(* A transfer to each account with a positive share; an error is logged    *)
(* and forgotten.                                                          *)
Transfer(r) ==
  /\ pc[r] = "transfer"
  /\ \E x \in Outcomes(Share(ent[r].amount, role[r]) > 0) :
       /\ sent' = IF x.done THEN [sent EXCEPT ![target[r]][role[r]] = @ + 1] ELSE sent
       /\ ent' = IF x.heard THEN [ent EXCEPT ![r].transfers = @ \cup {role[r]}] ELSE ent
  /\ IF role[r] = "merchant"
     THEN GoTo(r, "transfer") /\ role' = [role EXCEPT ![r] = "driver"]
     ELSE GoTo(r, "findWallet") /\ role' = [role EXCEPT ![r] = "merchant"]
  /\ UNCHANGED <<tables, stripe, refunded, base, purse, history>>

(* The split is over: splitAndComplete throws unless the payment in memory *)
(* is HELD.                                                                *)
CompleteSplit(r) ==
  IF ent[r].status = "HELD"
  THEN /\ GoTo(r, "select")
       /\ ent' = [ent EXCEPT ![r] = AfterCommand(command[r], ent[r])]
       /\ purse' = [purse EXCEPT ![r] = NoPurse]
       /\ UNCHANGED <<base, role, cut>>
  ELSE Finish(r) /\ cut' = cut \cup {target[r]}

(* A credit is written, or its error swallowed: on to the courier's, if    *)
(* the payment has a courier.                                              *)
NextCredit(r) ==
  IF role[r] = "merchant" /\ ent[r].driver # NoDriver
  THEN /\ GoTo(r, "findWallet")
       /\ role' = [role EXCEPT ![r] = "driver"]
       /\ purse' = [purse EXCEPT ![r] = NoPurse]
       /\ UNCHANGED <<ent, base, cut>>
  ELSE CompleteSplit(r)

CreditedOwner(r) == IF role[r] = "merchant" THEN Merchant ELSE ent[r].driver

(* Wallet.credit throws on an amount of zero, after the wallet was found.  *)
CreditPurse(r, w, holds) ==
  IF Share(ent[r].amount, role[r]) > 0
  THEN /\ purse' = [purse EXCEPT ![r] = [id |-> w, holds |-> holds \cup {target[r]}]]
       /\ GoTo(r, "saveWallet")
       /\ UNCHANGED <<ent, base, role, cut>>
  ELSE NextCredit(r)

(* findByOwnerIdOrCreate: any row of the owner, or a new one.              *)
FindWallet(r) ==
  /\ pc[r] = "findWallet"
  /\ LET rows == wallet[CreditedOwner(r)] IN
       \/ \E w \in DOMAIN rows : CreditPurse(r, w, rows[w])
       \/ /\ DOMAIN rows = {}
          /\ GoTo(r, "createWallet")
          /\ UNCHANGED <<memory, cut>>
       \/ NextCredit(r)
  /\ UNCHANGED <<tables, external, overlapped, astray>>

(* The new row is inserted, under the id of the payment that needs it.     *)
CreateWallet(r) ==
  /\ pc[r] = "createWallet"
  /\ \/ /\ wallet' = [wallet EXCEPT ![CreditedOwner(r)] =
                        [w \in DOMAIN @ \cup {target[r]} |->
                           IF w = target[r] THEN {} ELSE @[w]]]
        /\ CreditPurse(r, target[r], {})
     \/ wallet' = wallet /\ NextCredit(r)
  /\ UNCHANGED <<row, ledger, external, overlapped, astray>>

(* save writes the balance computed in memory.                             *)
SaveWallet(r) ==
  /\ pc[r] = "saveWallet"
  /\ \/ /\ wallet' = [wallet EXCEPT ![CreditedOwner(r)] =
                        [w \in DOMAIN @ |-> IF w = purse[r].id THEN purse[r].holds
                                            ELSE @[w]]]
        /\ GoTo(r, "record")
        /\ UNCHANGED <<memory, cut>>
     \/ wallet' = wallet /\ NextCredit(r)
  /\ UNCHANGED <<row, ledger, external, overlapped, astray>>

RecordTransaction(r) ==
  /\ pc[r] = "record"
  /\ \/ ledger' = [ledger EXCEPT ![target[r]][role[r]] = @ + 1]
     \/ ledger' = ledger
  /\ NextCredit(r)
  /\ UNCHANGED <<row, wallet, external, overlapped, astray>>

-----------------------------------------------------------------------------
(* PaymentRepository.save.                                                 *)

SaveSelect(r) ==
  /\ pc[r] = "select"
  /\ base' = [base EXCEPT ![r] = row[target[r]]]
  /\ GoTo(r, "update")
  /\ UNCHANGED <<tables, external, ent, role, purse, history>>

(* What is in the table after the save: a row that was not there is        *)
(* inserted, one that is gone is not updated, and otherwise the columns    *)
(* that differ from the selected row are written.                          *)
Saved(e, b, current) ==
  IF b = Absent THEN e
  ELSE IF current = Absent THEN Absent
  ELSE [current EXCEPT
          !.status = IF e.status # b.status THEN e.status ELSE @,
          !.driver = IF e.driver # b.driver THEN e.driver ELSE @,
          !.transfers = IF e.transfers # b.transfers THEN e.transfers ELSE @]

SaveUpdate(r) ==
  /\ pc[r] = "update"
  /\ row' = [row EXCEPT ![target[r]] = Saved(ent[r], base[r], row[target[r]])]
  /\ Finish(r)
  /\ UNCHANGED <<wallet, ledger, external, history>>

Splitting(r) ==
  command[r].op = "split" /\ pc[r] \notin {"idle", "capture"}

Returning(r) ==
  command[r].op \in {"fail", "refund", "refundHalf"} /\ ent[r].intent

(* The process dies or the database fails outside the swallowed parts.     *)
Abort(r) ==
  /\ pc[r] # "idle"
  /\ Finish(r)
  /\ cut' = IF Splitting(r) THEN cut \cup {target[r]} ELSE cut
  /\ astray' = IF pc[r] \in {"select", "update"} /\ Returning(r)
               THEN astray \cup {target[r]} ELSE astray
  /\ UNCHANGED <<tables, external, overlapped>>

Next ==
  \/ \E p \in Payment :
       \/ \E a \in Amount : CreatePayment(p, a)
       \/ DeletePayment(p)
       \/ Authorize(p)
       \/ Lapse(p)
  \/ \E r \in Request :
       \/ \E p \in Payment :
            \/ \E a \in Amount : CreateIntent(r, p, a)
            \/ \E c \in Command : FindPayment(r, p, c)
       \/ InsertHeld(r)
       \/ CancelIntent(r)
       \/ RefundIntent(r)
       \/ Capture(r)
       \/ Transfer(r)
       \/ FindWallet(r)
       \/ CreateWallet(r)
       \/ SaveWallet(r)
       \/ RecordTransaction(r)
       \/ SaveSelect(r)
       \/ SaveUpdate(r)
       \/ Abort(r)

Spec == Init /\ [][Next]_vars

-----------------------------------------------------------------------------
(* Properties.                                                             *)

Money(p) ==
  CASE stripe[p] = "none" -> "none"
    [] stripe[p] \in {"created", "authorized"} -> "held"
    [] stripe[p] = "cancelled" -> "returned"
    [] stripe[p] = "captured" -> IF refunded[p] = 0 THEN "taken" ELSE "returned"

Life == INSTANCE PaymentLife WITH
  status <- [p \in Payment |-> row[p].status],
  intent <- [p \in Payment |-> row[p].intent],
  money <- [p \in Payment |-> Money(p)]

(* A payment no two handlers worked on at once follows the status flow,    *)
(* crashes and lost answers of Stripe included.                            *)
UndisturbedFollowsLife ==
  [][\A p \in Payment :
       p \in overlapped' \/ row'[p].status = row[p].status \/ Life!Step(p)]_vars

(* However handlers interleave or die: a card payment that reads COMPLETED *)
(* was captured, one that reads REFUNDED gave the customer money back, and *)
(* a transfer id on record is of a transfer that was made.                 *)
StatusBacked ==
  \A p \in Payment :
    /\ row[p].status = "COMPLETED" /\ row[p].intent => stripe[p] = "captured"
    /\ row[p].status = "REFUNDED" /\ row[p].intent => Money(p) = "returned"
    /\ \A x \in row[p].transfers : sent[p][x] > 0

(* The split checks no status before it pays, yet nobody is paid twice for *)
(* a payment, and nobody before the customer: Stripe captures once.        *)
PaidOnce ==
  \A p \in Payment, x \in Role :
    /\ sent[p][x] <= 1 /\ ledger[p][x] <= 1
    /\ sent[p][x] + ledger[p][x] > 0 => stripe[p] = "captured"

(* A share is in at most one wallet row, and none is there for a payment   *)
(* that was not captured.                                                  *)
SharesHeldOnce ==
  \A o \in Owner, p \in Payment :
    LET holding == {w \in DOMAIN wallet[o] : p \in wallet[o][w]} IN
      /\ Cardinality(holding) <= 1
      /\ holding # {} => stripe[p] = "captured"

(* What the transfers of a payment sum up to is never more than is left of *)
(* it after Stripe's fee, roundings included.                              *)
NeverOverpaid ==
  \A p \in Payment :
    row[p] # Absent =>
      sent[p]["merchant"] * Share(row[p].amount, "merchant")
        + sent[p]["driver"] * Share(row[p].amount, "driver") <= Net(row[p].amount)

(* A split cut short between the capture and its save leaves the           *)
(* customer's money taken for good: no retry completes the payment and no  *)
(* refund returns a dong, because the row never gets past HELD or FAILED.  *)
CutSplitIsStuck ==
  \A p \in cut :
    /\ row[p].status \notin {"COMPLETED", "REFUNDED"}
    /\ stripe[p] = "captured" /\ refunded[p] = 0

(* A payment marked FAILED was not charged, unless the cancellation was    *)
(* answered by an error, which fail ignores; a payment that reads          *)
(* COMPLETED was not paid back, unless its refund was not answered or not  *)
(* saved, or handlers overlapped.                                          *)
RowTellsMoney ==
  \A p \in Payment :
    /\ row[p].status = "FAILED" /\ stripe[p] = "captured" => p \in astray
    /\ row[p].status = "COMPLETED" /\ refunded[p] > 0 /\ ~Busy(p) =>
         p \in astray \cup overlapped

-----------------------------------------------------------------------------
(* The inductive invariant behind the properties above.                    *)

(* What a status, in the table or in memory, says of Stripe.               *)
Backed(p, e) ==
  /\ e.intent =>
       /\ e.status # "PENDING"
       /\ e.status = "COMPLETED" => stripe[p] = "captured"
       /\ e.status = "REFUNDED" => Money(p) = "returned"
       /\ e.status = "FAILED" => stripe[p] = "cancelled" \/ p \in astray
  /\ \A x \in e.transfers : sent[p][x] > 0

(* Nobody but a split that is still running takes the payment to COMPLETED *)
(* or REFUNDED.                                                            *)
Uncompleted(p) ==
  /\ stripe[p] = "captured" /\ refunded[p] = 0
  /\ row[p].status \notin {"COMPLETED", "REFUNDED"}
  /\ \A s \in Request :
       target[s] = p => Splitting(s) \/ ent[s].status \notin {"COMPLETED", "REFUNDED"}

PaymentCoherent(p) ==
  /\ row[p] # Absent => (row[p].intent <=> stripe[p] # "none")
  /\ Backed(p, row[p])
  /\ refunded[p] > 0 => stripe[p] = "captured"
  /\ \A x \in Role : /\ sent[p][x] <= 1 /\ ledger[p][x] <= 1
                     /\ stripe[p] # "captured" => sent[p][x] = 0 /\ ledger[p][x] = 0
  /\ p \in cut => Uncompleted(p)

SplitStep == {"transfer", "findWallet", "createWallet", "saveWallet", "record"}

(* The step a handler is at fits its command.                              *)
StepFits(r) ==
  /\ pc[r] = "insert" => command[r].op = "create"
  /\ pc[r] = "cancel" => Returning(r) /\ ent[r].status = "HELD"
  /\ pc[r] = "refund" => /\ command[r].op \in {"refund", "refundHalf"}
                         /\ ent[r].intent /\ ent[r].status = "COMPLETED"
  /\ pc[r] \in SplitStep \cup {"capture"} => command[r].op = "split" /\ ent[r].intent
  /\ pc[r] \in {"select", "update"} => command[r].op # "create"

(* How far the split got with its transfers and credits.                   *)
Progress(r, p) ==
  /\ pc[r] = "transfer" => /\ sent[p]["driver"] = 0
                           /\ role[r] = "merchant" => sent[p]["merchant"] = 0
                           /\ \A x \in Role : ledger[p][x] = 0
  /\ pc[r] \in SplitStep => /\ ledger[p]["driver"] = 0
                            /\ role[r] = "merchant" => ledger[p]["merchant"] = 0

HandlerCoherent(r, p) ==
  /\ ent[r] # Absent
  /\ ent[r].intent <=> stripe[p] # "none"
  /\ Backed(p, ent[r])
  /\ StepFits(r)
  /\ Splitting(r) =>
       /\ Uncompleted(p) /\ p \notin cut
       /\ Progress(r, p)
       /\ \A s \in Request : target[s] = p /\ Splitting(s) => s = r

(* Capture is the lock of a payment: the one handler that got it pays, and *)
(* when that handler is gone the lock stays taken.                         *)
Coherent ==
  /\ \A r \in Request : pc[r] = "idle" => target[r] = NoPayment
  /\ \A p \in Payment : PaymentCoherent(p)
  /\ \A r \in Request, p \in Payment : target[r] = p => HandlerCoherent(r, p)

(* The invariants above but for PaidOnce, CutSplitIsStuck and RowTellsMoney. *)
Inv == TypeOK /\ Coherent /\ StatusBacked /\ SharesHeldOnce /\ NeverOverpaid
=============================================================================
