----------------------------- MODULE AddressBook -----------------------------
(***************************************************************************)
(* What consumer-service promises about a list of addresses or payment     *)
(* methods: one of them is the default from the first on, and the default  *)
(* moves only when another is chosen or when it is taken out itself.       *)
(***************************************************************************)
CONSTANTS Entry, NoEntry

VARIABLES
  entries,   \* the entries of the list
  chosen     \* the default, or NoEntry in an empty list

Adds(e) ==
  /\ e \notin entries
  /\ entries' = entries \cup {e}
  /\ chosen' = IF entries = {} THEN e ELSE chosen

Removes(e) ==
  /\ e \in entries
  /\ entries' = entries \ {e}
  /\ IF chosen # e THEN chosen' = chosen
     ELSE IF entries' = {} THEN chosen' = NoEntry ELSE chosen' \in entries'

Chooses(e) == e \in entries /\ chosen' = e /\ entries' = entries

(* A payment method is changed by putting another in its place.            *)
Replaces(e, f) ==
  /\ e \in entries /\ f \notin entries
  /\ entries' = (entries \ {e}) \cup {f}
  /\ IF chosen # e THEN chosen' = chosen
     ELSE IF entries = {e} THEN chosen' = f ELSE chosen' \in entries \ {e}

Step == \E e \in Entry : Adds(e) \/ Removes(e) \/ Chooses(e) \/ \E f \in Entry : Replaces(e, f)

Same == entries' = entries /\ chosen' = chosen
=============================================================================
