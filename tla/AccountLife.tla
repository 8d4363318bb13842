---------------------------- MODULE AccountLife ----------------------------
(***************************************************************************)
(* What identity-service promises about an account: it opens active, an    *)
(* admin takes it out of use and back, its owner changes the password, and *)
(* nothing else about it ever changes.                                     *)
(***************************************************************************)
CONSTANTS User

VARIABLES
  status,     \* "NONE" before registration, "ACTIVE", "INACTIVE", "SUSPENDED"
  phone,      \* the phone number it was opened with
  roles,      \* the roles it was opened with
  password    \* the current password

Identity(u) == phone'[u] = phone[u] /\ roles'[u] = roles[u]

Opens(u) == status[u] = "NONE" /\ status'[u] = "ACTIVE"

TakenOut(u) ==
  /\ status[u] = "ACTIVE" /\ status'[u] \in {"INACTIVE", "SUSPENDED"}
  /\ Identity(u) /\ password'[u] = password[u]

Restored(u) ==
  /\ status[u] \in {"INACTIVE", "SUSPENDED"} /\ status'[u] = "ACTIVE"
  /\ Identity(u) /\ password'[u] = password[u]

PasswordChanged(u) ==
  /\ status[u] # "NONE" /\ status'[u] = status[u]
  /\ Identity(u)

Same(u) == status'[u] = status[u] /\ Identity(u) /\ password'[u] = password[u]

Step(u) == Opens(u) \/ TakenOut(u) \/ Restored(u) \/ PasswordChanged(u)
=============================================================================
