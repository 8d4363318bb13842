---------------------------- MODULE MerchantLife ----------------------------
(***************************************************************************)
(* What merchant-service promises about a restaurant: it registers, an     *)
(* admin decides once, and a closed account stays closed.                  *)
(***************************************************************************)
CONSTANTS Merchant

VARIABLES
  status,    \* "NONE" before registration, "PENDING", "APPROVED", "REJECTED"
  deleted    \* whether the account was closed

Registers(m) ==
  /\ status[m] = "NONE" /\ status'[m] = "PENDING"
  /\ ~deleted[m] /\ ~deleted'[m]

(* A decision is made once, of a restaurant that waits for it.             *)
Approved(m) ==
  /\ status[m] = "PENDING" /\ status'[m] = "APPROVED"
  /\ ~deleted[m] /\ ~deleted'[m]

Rejected(m) ==
  /\ status[m] = "PENDING" /\ status'[m] = "REJECTED"
  /\ ~deleted[m] /\ ~deleted'[m]

Closes(m) ==
  /\ status[m] # "NONE" /\ status'[m] = status[m]
  /\ deleted'[m]

Step(m) == Registers(m) \/ Approved(m) \/ Rejected(m) \/ Closes(m)

Same(m) == status'[m] = status[m] /\ deleted'[m] = deleted[m]
=============================================================================
