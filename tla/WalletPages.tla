----------------------------- MODULE WalletPages -----------------------------
(***************************************************************************)
(* The wallet page of the driver app or of the merchant app over           *)
(* wallet-service: topping up with its retry, withdrawing, and what the    *)
(* page tells its user.  A payment the user submits is one call or two; a  *)
(* call the page no longer waits for may still be at work in the service.  *)
(***************************************************************************)
EXTENDS Integers, FiniteSets

CONSTANTS
  Job,          \* slots for calls at work in wallet-service
  Amount,       \* what the user types
  Opening,      \* the balance the wallet has when the page is opened
  MinTopup,     \* 50000 on the driver's page
  MinWithdraw,  \* MIN_WITHDRAW, and the least a driver's page takes
  MinPayout,    \* 100000, the least a merchant's page takes
  MinCodBalance,\* MIN_COD_BALANCE
  MaxPayments   \* bound on the payments the user submits

VARIABLES
  owner,       \* DRIVER or MERCHANT
  account,     \* the wallet the page works on, "none" while it loads
  balance,     \* wallet-service: the user's own wallet and a stray one
  withdrawn,   \* ... and the withdrawals dated today from each
  shown,       \* walletBalance
  tab,         \* the half of the driver's page that is open
  field,       \* topupAmount
  showStripe,  \* the form for the card is asked for
  processing,  \* the payment the mounted form waits for, 0 for none
  job,         \* the calls
  paid,        \* history: of each payment, how often it was booked, what the
               \* user was told, and whether a call for it broke
  crossed,     \* history: two calls were at work at once
  cancelled    \* history: a form was left while it waited

pageVars == <<shown, tab, field, showStripe, processing>>
serviceVars == <<balance, withdrawn>>
vars == <<owner, account, balance, withdrawn, shown, tab, field, showStripe,
          processing, job, paid, crossed, cancelled>>

Payment == 1 .. MaxPayments

Request == [at : {"idle", "sent", "read", "saved", "done", "refused"},
         op : {"topup", "withdraw"}, amount : Amount \cup {0},
         payment : 0 .. MaxPayments, attempt : {1, 2}, waits : BOOLEAN, before : Int]
Idle == [at |-> "idle", op |-> "topup", amount |-> 0, payment |-> 0,
         attempt |-> 1, waits |-> FALSE, before |-> 0]

Unpaid == [booked |-> 0, told |-> "nothing", broke |-> FALSE]

TypeOK ==
  /\ owner \in {"DRIVER", "MERCHANT"}
  /\ account \in {"none", "own", "stray"}
  /\ balance \in [{"own", "stray"} -> Int]
  /\ withdrawn \in [{"own", "stray"} -> Nat]
  /\ shown \in Int
  /\ tab \in {"credit", "income"}
  /\ field \in Amount \cup {0}
  /\ showStripe \in BOOLEAN
  /\ processing \in 0 .. MaxPayments
  /\ job \in [Job -> Request]
  /\ paid \in [Payment -> [booked : Nat, told : {"nothing", "wait", "ok", "error"},
                           broke : BOOLEAN]]
  /\ crossed \in BOOLEAN
  /\ cancelled \in BOOLEAN

Init ==
  /\ owner \in {"DRIVER", "MERCHANT"}
  /\ account = "none"
  /\ balance = [own |-> Opening, stray |-> 0]
  /\ withdrawn = [own |-> 0, stray |-> 0]
  /\ shown = 0
  /\ tab = "credit"
  /\ field = 0
  /\ showStripe = FALSE
  /\ processing = 0
  /\ job = [j \in Job |-> Idle]
  /\ paid = [p \in Payment |-> Unpaid]
  /\ crossed = FALSE
  /\ cancelled = FALSE

-----------------------------------------------------------------------------
(* The page.                                                               *)

(* Without a profile the page works on the wallet of the user's own id,    *)
(* which is another one; a wallet that does not load shows as empty.       *)
Opened ==
  /\ account = "none"
  /\ \/ account' = "own" /\ shown' \in {balance.own, 0}
     \/ account' = "stray" /\ UNCHANGED shown
  /\ UNCHANGED <<owner, serviceVars, tab, field, showStripe, processing, job,
                 paid, crossed, cancelled>>

(* The driver's page asks for the profile, the merchant's page looks for   *)
(* its own among the first two hundred merchants.                          *)
LoadDriver == owner = "DRIVER" /\ Opened
LoadMerchant == owner = "MERCHANT" /\ Opened

FormVisible == tab = "credit" /\ showStripe /\ field >= MinTopup

(* The two halves of the driver's page; the half left forgets that its     *)
(* form waits, but not that it was asked for.                              *)
SwitchTab ==
  /\ account # "none" /\ owner = "DRIVER"
  /\ tab' = IF tab = "credit" THEN "income" ELSE "credit"
  /\ processing' = 0
  /\ cancelled' = (cancelled \/ processing # 0)
  /\ UNCHANGED <<owner, account, serviceVars, shown, field, showStripe, job,
                 paid, crossed>>

(* The quick amounts and the input are where the form is not.              *)
Type(a) ==
  /\ account # "none" /\ owner = "DRIVER" /\ tab = "credit" /\ ~FormVisible
  /\ field' = a
  /\ UNCHANGED <<owner, account, serviceVars, shown, tab, showStripe,
                 processing, job, paid, crossed, cancelled>>

OpenForm ==
  /\ account # "none" /\ owner = "DRIVER" /\ tab = "credit" /\ ~FormVisible
  /\ field >= MinTopup
  /\ showStripe' = TRUE
  /\ UNCHANGED <<owner, account, serviceVars, shown, tab, field, processing,
                 job, paid, crossed, cancelled>>

(* Cancel is not disabled while a payment runs, and does not stop it.      *)
Cancel ==
  /\ FormVisible
  /\ showStripe' = FALSE
  /\ processing' = 0
  /\ cancelled' = (cancelled \/ processing # 0)
  /\ UNCHANGED <<owner, account, serviceVars, shown, tab, field, job, paid,
                 crossed>>

NextPayment(p) == paid[p].told = "nothing" /\ \A q \in 1 .. p - 1 : paid[q].told # "nothing"

(* A call leaves the page.                                                 *)
Sent(j, op, a, p, attempt) ==
  /\ job[j].at = "idle"
  /\ job' = [job EXCEPT ![j] =
       [Idle EXCEPT !.at = "sent", !.op = op, !.amount = a, !.payment = p,
                    !.attempt = attempt, !.waits = TRUE]]
  /\ crossed' = (crossed \/ \E k \in Job : job[k].at # "idle")

(* The button of the form is disabled while it waits.                      *)
Enabled == FormVisible /\ processing = 0

(* handleSubmit; the card is not charged.                                  *)
Submit(j, p) ==
  /\ Enabled
  /\ NextPayment(p)
  /\ Sent(j, "topup", field, p, 1)
  /\ processing' = p
  /\ paid' = [paid EXCEPT ![p].told = "wait"]
  /\ UNCHANGED <<owner, account, serviceVars, shown, tab, field, showStripe,
                 cancelled>>

(* The button for a withdrawal, which nothing disables.                    *)
Withdraw(j, p, a) ==
  /\ account # "none"
  /\ NextPayment(p)
  /\ Sent(j, "withdraw", a, p, 1)
  /\ paid' = [paid EXCEPT ![p].told = "wait"]
  /\ UNCHANGED <<owner, account, serviceVars, pageVars, cancelled>>

DriverWithdraws(j, p, a) ==
  owner = "DRIVER" /\ tab = "income" /\ a >= MinWithdraw /\ Withdraw(j, p, a)
MerchantWithdraws(j, p, a) == owner = "MERCHANT" /\ a >= MinPayout /\ Withdraw(j, p, a)

-----------------------------------------------------------------------------
(* The service.                                                            *)

(* WalletService.debit.                                                    *)
Permitted(c) ==
  c.op = "withdraw" =>
    /\ c.amount >= MinWithdraw
    /\ owner = "DRIVER" =>
         /\ withdrawn[account] < 1
         /\ balance[account] - c.amount >= MinCodBalance

Read(j) ==
  /\ job[j].at = "sent"
  /\ job' = [job EXCEPT ![j] =
       CASE Permitted(@) -> [@ EXCEPT !.at = "read", !.before = balance[account]]
         [] ~Permitted(@) /\ @.waits -> [@ EXCEPT !.at = "refused"]
         [] OTHER -> Idle]
  /\ UNCHANGED <<owner, account, serviceVars, pageVars, paid, crossed, cancelled>>

Change(c) == IF c.op = "topup" THEN c.amount ELSE 0 - c.amount

Save(j) ==
  /\ job[j].at = "read"
  /\ job' = [job EXCEPT ![j].at = "saved"]
  /\ balance' = [balance EXCEPT ![account] = job[j].before + Change(job[j])]
  /\ paid' = [paid EXCEPT ![job[j].payment].booked = @ + 1]
  /\ UNCHANGED <<owner, account, withdrawn, pageVars, crossed, cancelled>>

(* The transaction is recorded; when nobody waits the call is over.        *)
Record(j) ==
  /\ job[j].at = "saved"
  /\ job' = [job EXCEPT ![j] = IF @.waits THEN [@ EXCEPT !.at = "done"] ELSE Idle]
  /\ withdrawn' = IF job[j].op = "withdraw" THEN [withdrawn EXCEPT ![account] = @ + 1]
                  ELSE withdrawn
  /\ UNCHANGED <<owner, account, balance, pageVars, paid, crossed, cancelled>>

-----------------------------------------------------------------------------
(* The answers.                                                            *)

Told(p, what) == [paid EXCEPT ![p].told = what]

(* Mutant: the page shows what it counts itself.                           *)
Counted(c) == shown + c.amount

(* The balance the page shows after an answer.                             *)
Answered(c) == c.before + Change(c)

Succeed(j) ==
  LET c == job[j] IN
  /\ c.at = "done" /\ c.waits
  /\ job' = [job EXCEPT ![j] = Idle]
  /\ shown' = Answered(c)
  /\ paid' = Told(c.payment, "ok")
  /\ IF c.op = "topup"
     THEN field' = 0 /\ showStripe' = FALSE /\ processing' = 0
     ELSE UNCHANGED <<field, showStripe, processing>>
  /\ UNCHANGED <<owner, account, serviceVars, tab, crossed, cancelled>>

(* The page hears an error.  A top-up is tried once more whatever the      *)
(* error was; then the form is closed.                                     *)
GiveUp(c) ==
  /\ paid' = [paid EXCEPT ![c.payment].told = "error"]
  /\ IF c.op = "topup" THEN showStripe' = FALSE /\ processing' = 0
     ELSE UNCHANGED <<showStripe, processing>>

(* Mutant: the page tries without end.                                     *)
EveryTime(c) == c.op = "topup"

(* The call that failed is tried again.                                    *)
Retries(c) == c.op = "topup" /\ c.attempt = 1

Refused(j) ==
  LET c == job[j] IN
  /\ c.at = "refused" /\ c.waits
  /\ job' = [job EXCEPT ![j] = Idle]
  /\ GiveUp(c)
  /\ UNCHANGED <<owner, account, serviceVars, shown, tab, field, crossed, cancelled>>

(* The service fails before it saved anything, and says so.                *)
Fail(j) ==
  LET c == job[j] IN
  /\ c.at \in {"sent", "read"} /\ c.waits
  /\ IF Retries(c)
     THEN /\ job' = [job EXCEPT ![j] = [c EXCEPT !.at = "sent", !.attempt = 2, !.before = 0]]
          /\ UNCHANGED <<paid, showStripe, processing>>
     ELSE job' = [job EXCEPT ![j] = Idle] /\ GiveUp(c)
  /\ UNCHANGED <<owner, account, serviceVars, shown, tab, field, crossed, cancelled>>

(* The connection breaks, or the transaction is not recorded after the     *)
(* balance was saved: the page hears an error, and the call it was for     *)
(* goes on in the service or is cut short there.                           *)
Broken(c, rest) == IF rest THEN [c EXCEPT !.waits = FALSE] ELSE Idle

Break(j, k, rest) ==
  LET c == job[j] IN
  /\ c.at \in {"sent", "read", "saved", "done"} /\ c.waits
  /\ c.at = "done" => ~rest
  /\ paid[c.payment].told = "wait"
  /\ IF Retries(c)
     THEN /\ IF rest THEN k # j /\ job[k].at = "idle" ELSE k = j
          /\ job' = [job EXCEPT
               ![j] = Broken(c, rest),
               ![k] = [c EXCEPT !.at = "sent", !.attempt = 2, !.before = 0]]
          /\ crossed' = (crossed \/ rest)
          /\ paid' = [paid EXCEPT ![c.payment].broke = TRUE]
          /\ UNCHANGED <<showStripe, processing>>
     ELSE /\ k = j
          /\ job' = [job EXCEPT ![j] = Broken(c, rest)]
          /\ paid' = [paid EXCEPT ![c.payment] = [@ EXCEPT !.broke = TRUE, !.told = "error"]]
          /\ IF c.op = "topup" THEN showStripe' = FALSE /\ processing' = 0
             ELSE UNCHANGED <<showStripe, processing>>
          /\ UNCHANGED crossed
  /\ UNCHANGED <<owner, account, serviceVars, shown, tab, field, cancelled>>

Serve(j) == Read(j) \/ Save(j) \/ Record(j) \/ Succeed(j) \/ Refused(j)

Next ==
  \/ LoadDriver
  \/ LoadMerchant
  \/ SwitchTab
  \/ OpenForm
  \/ Cancel
  \/ \E a \in Amount : Type(a)
  \/ \E j \in Job :
       \/ Serve(j)
       \/ Fail(j)
       \/ \E p \in Payment : 
            \/ Submit(j, p)
            \/ \E a \in Amount : DriverWithdraws(j, p, a) \/ MerchantWithdraws(j, p, a)
       \/ \E k \in Job, rest \in BOOLEAN : Break(j, k, rest)

(* The service answers what it was asked, unless the connection breaks.    *)
Fairness == \A j \in Job : WF_vars(Serve(j))

Spec == Init /\ [][Next]_vars
FairSpec == Spec /\ Fairness

-----------------------------------------------------------------------------
(* Properties.                                                             *)

(* What the user is told is what happened: a payment confirmed was booked, *)
(* a payment refused was not, and it was booked just once, unless a call   *)
(* for it broke: then it was booked twice at most.                         *)
ReceiptsAreTrue ==
  \A p \in Payment :
    LET b == paid[p].booked IN
    /\ paid[p].told = "ok" => b >= 1
    /\ ~paid[p].broke => b <= 1 /\ (paid[p].told = "error" => b = 0)
    /\ b <= 2

(* The balance on the page is the balance of the wallet whenever nothing   *)
(* is under way, if the user was told of some payment since the wallet was *)
(* loaded, no call broke and none crossed another.                         *)
ShownIsCurrent ==
  (/\ \A j \in Job : job[j].at = "idle"
   /\ \E p \in Payment : paid[p].told = "ok"
   /\ \A p \in Payment : ~paid[p].broke
   /\ ~crossed) => shown = balance[account]

(* The form lets one payment through at a time: two top-ups the page waits *)
(* for need a form that was left while it waited.                          *)
OneTopupAtATime ==
  ~cancelled =>
    \A j, k \in Job :
      job[j].op = "topup" /\ job[k].op = "topup" /\ job[j].waits /\ job[k].waits => j = k

(* A form that waits comes back: it is answered, closed or left.           *)
FormComesBack == processing # 0 ~> processing = 0
=============================================================================
