---------------------------- MODULE PaymentLife ----------------------------
(***************************************************************************)
(* What payment-service promises about a payment, seen by a reader of the  *)
(* payments table: the status flow of its domain rules, each arrow only    *)
(* after Stripe did what the new status says.  A payment without a         *)
(* PaymentIntent is paid outside Stripe.                                   *)
(***************************************************************************)
CONSTANT Payment

VARIABLES
  status,   \* the status column of each payment, "NONE" before it exists
  intent,   \* whether the payment has a PaymentIntent
  money     \* where the customer's money is: "none", "held", "taken",
            \* "returned"

vars == <<status, intent, money>>

Init ==
  /\ status = [p \in Payment |-> "NONE"]
  /\ intent \in [Payment -> BOOLEAN]
  /\ money = [p \in Payment |-> "none"]

Goes(p, old, new) == status[p] = old /\ status' = [status EXCEPT ![p] = new]

Created(p) ==
  \/ ~intent'[p] /\ Goes(p, "NONE", "PENDING")
  \/ intent'[p] /\ Goes(p, "NONE", "HELD")

(* Cash needs no proof; a card payment completes once it is captured.      *)
Completed(p) ==
  \/ ~intent[p] /\ Goes(p, "PENDING", "COMPLETED")
  \/ intent[p] /\ money[p] = "taken" /\ Goes(p, "HELD", "COMPLETED")

Failed(p) == Goes(p, "PENDING", "FAILED") \/ Goes(p, "HELD", "FAILED")

(* A card payment is marked refunded only once the money is back.          *)
Refunded(p) ==
  /\ Goes(p, "HELD", "REFUNDED") \/ Goes(p, "COMPLETED", "REFUNDED")
  /\ intent[p] => money[p] = "returned"

Deleted(p) == status[p] # "NONE" /\ status' = [status EXCEPT ![p] = "NONE"]

(* One step of the status column of payment p.                             *)
Step(p) == Created(p) \/ Completed(p) \/ Failed(p) \/ Refunded(p) \/ Deleted(p)
=============================================================================
