---------------------------- MODULE MoneyProofs ----------------------------
(***************************************************************************)
(* Proofs about the services that move money, for any payments, owners,    *)
(* wallets, amounts, percentages and handlers.                             *)
(*                                                                         *)
(* Payments: a step touches one payment; Good is what is true of each: its *)
(* row and its handlers are backed by Stripe, its money moved once, and    *)
(* the handler that captured it holds it to the end.  A share is held by   *)
(* one wallet row, however many splits work on that row.                   *)
(*                                                                         *)
(* Wallets: a step of a handler touches the wallets of one owner, the      *)
(* owner of its current task; Untouched is what every other owner gets     *)
(* from it.                                                                *)
(***************************************************************************)
EXTENDS MCMoney, FiniteSetTheorems, SequenceTheorems, TLAPS

-----------------------------------------------------------------------------
(* Types.                                                                  *)

(* The constant values have their types.                                   *)
LEMMA ConstantsTyped ==
  /\ Absent \in Row /\ NoPurse \in Purse /\ Idle.op = "create"
  /\ NoRows \in Rows /\ "none" \in Intent
  /\ \A a \in Amount : NewPayment(a) \in Row /\ Hold(NewPayment(a)) \in Row
<1>1. Absent \in Row BY DEF Absent, Row, DriverOrNull
<1>2. \A a \in Amount : NewPayment(a) \in Row /\ Hold(NewPayment(a)) \in Row
  BY DEF Absent, Row, DriverOrNull, NewPayment, Hold, Status
<1>3. NoRows \in [{} -> SUBSET Payment] BY DEF NoRows
<1>4. NoRows \in Rows BY <1>3 DEF Rows
<1> QED BY <1>1, <1>2, <1>4 DEF NoPurse, Purse, Idle, Intent

(* A new payment is PENDING without a PaymentIntent, or HELD with one.     *)
LEMMA NewPaymentIs ==
  ASSUME NEW a \in Amount
  PROVE  /\ NewPayment(a).status = "PENDING" /\ ~NewPayment(a).intent
         /\ NewPayment(a).transfers = {}
         /\ Hold(NewPayment(a)).status = "HELD" /\ Hold(NewPayment(a)).intent
         /\ Hold(NewPayment(a)).transfers = {}
BY DEF NewPayment, Hold, Absent

(* What the table reads before a payment is created.                       *)
LEMMA AbsentIs == Absent.status = "NONE" /\ ~Absent.intent /\ Absent.transfers = {}
BY DEF Absent

(* The fields of a command.                                                *)
LEMMA CommandFields ==
  ASSUME NEW c \in Command
  PROVE  /\ c.op \in {"split", "complete", "fail", "refund", "refundHalf", "assignDriver"}
         /\ c.op = "assignDriver" => c.driver \in Driver
<1>1. CASE c \in [op : {"split", "complete", "fail", "refund", "refundHalf"},
                  driver : {NoDriver}]
  BY <1>1
<1>2. CASE c \in [op : {"assignDriver"}, driver : Driver] BY <1>2
<1> QED BY <1>1, <1>2 DEF Command

(* The status each command leaves, and that it leaves the rest alone.      *)
Ends(c, e, f) ==
  /\ f.intent = e.intent /\ f.transfers = e.transfers
  /\ c.op = "assignDriver" => f.status = e.status
  /\ c.op \in {"split", "complete"} => f.status = "COMPLETED"
  /\ c.op = "fail" => f.status = "FAILED"
  /\ c.op \in {"refund", "refundHalf"} => f.status = "REFUNDED"

(* A command keeps the PaymentIntent and the transfers.                    *)
LEMMA AfterCommandEnds ==
  ASSUME NEW c \in Command, NEW e \in Row
  PROVE  AfterCommand(c, e) \in Row /\ Ends(c, e, AfterCommand(c, e))
<1>1. CASE c.op = "assignDriver"
  <2>1. AfterCommand(c, e) = [e EXCEPT !.driver = c.driver] BY <1>1 DEF AfterCommand
  <2>2. c.driver \in Driver BY <1>1, CommandFields
  <2> QED BY <1>1, <2>1, <2>2 DEF Row, DriverOrNull, Ends
<1>2. CASE c.op \in {"split", "complete"}
  <2>1. AfterCommand(c, e) = [e EXCEPT !.status = "COMPLETED"] BY <1>2 DEF AfterCommand
  <2> QED BY <1>2, <2>1 DEF Row, Status, Ends
<1>3. CASE c.op = "fail"
  <2>1. AfterCommand(c, e) = [e EXCEPT !.status = "FAILED"] BY <1>3 DEF AfterCommand
  <2> QED BY <1>3, <2>1 DEF Row, Status, Ends
<1>4. CASE c.op \in {"refund", "refundHalf"}
  <2>1. AfterCommand(c, e) = [e EXCEPT !.status = "REFUNDED"] BY <1>4 DEF AfterCommand
  <2> QED BY <1>4, <2>1 DEF Row, Status, Ends
<1> QED BY <1>1, <1>2, <1>3, <1>4, CommandFields

(* The first step of a command is in the table of steps, and a command     *)
(* that goes straight to the save is one that Stripe has no part in.       *)
LEMMA FirstStepIs ==
  ASSUME NEW c \in Command, NEW e \in Row, FirstStep(c, e) # "reject"
  PROVE  /\ FirstStep(c, e) \in {"select", "capture", "cancel", "refund"}
         /\ FirstStep(c, e) = "capture" => c.op = "split" /\ e.intent
         /\ FirstStep(c, e) = "cancel" =>
              /\ c.op \in {"fail", "refund", "refundHalf"}
              /\ e.status = "HELD" /\ e.intent
         /\ FirstStep(c, e) = "refund" =>
              /\ c.op \in {"refund", "refundHalf"}
              /\ e.status = "COMPLETED" /\ e.intent
         /\ FirstStep(c, e) = "select" =>
              /\ c.op # "split"
              /\ c.op = "complete" => e.status = "PENDING"
              /\ c.op = "fail" => e.status = "PENDING" \/ (e.status = "HELD" /\ ~e.intent)
              /\ c.op \in {"refund", "refundHalf"} =>
                   e.status \in {"HELD", "COMPLETED"} /\ ~e.intent
<1>1. CASE c.op = "assignDriver" BY <1>1 DEF FirstStep
<1>2. CASE c.op = "split" BY <1>2 DEF FirstStep
<1>3. CASE c.op = "complete" BY <1>3 DEF FirstStep
<1>4. CASE c.op = "fail" BY <1>4 DEF FirstStep
<1>5. CASE c.op \in {"refund", "refundHalf"} BY <1>5 DEF FirstStep
<1> QED BY <1>1, <1>2, <1>3, <1>4, <1>5, CommandFields

(* A save writes the columns that changed over the row as it is now.       *)
LEMMA SavedIs ==
  ASSUME NEW e \in Row, NEW b \in Row, NEW c \in Row
  PROVE  /\ Saved(e, b, c) \in Row
         /\ \/ b = Absent /\ Saved(e, b, c) = e
            \/ c = Absent /\ Saved(e, b, c) = Absent
            \/ /\ b # Absent /\ c # Absent
               /\ Saved(e, b, c).intent = c.intent
               /\ Saved(e, b, c).status = IF e.status # b.status THEN e.status ELSE c.status
               /\ Saved(e, b, c).transfers \in {e.transfers, c.transfers}
<1>1. CASE b = Absent BY <1>1 DEF Saved
<1>2. CASE b # Absent /\ c = Absent BY <1>2 DEF Saved
<1>3. CASE b # Absent /\ c # Absent
  <2>1. PICK s, d, t : /\ s = IF e.status # b.status THEN e.status ELSE c.status
                       /\ d = IF e.driver # b.driver THEN e.driver ELSE c.driver
                       /\ t = IF e.transfers # b.transfers THEN e.transfers ELSE c.transfers
    OBVIOUS
  <2>2. Saved(e, b, c) = [c EXCEPT !.status = s, !.driver = d, !.transfers = t]
    BY <1>3, <2>1 DEF Saved
  <2>3. /\ s \in Status \cup {"NONE"} /\ d \in DriverOrNull /\ t \in SUBSET Role
        /\ t \in {e.transfers, c.transfers}
    BY <2>1 DEF Row
  <2>4. Saved(e, b, c) \in Row BY <2>2, <2>3 DEF Row
  <2>5. /\ Saved(e, b, c).intent = c.intent /\ Saved(e, b, c).status = s
        /\ Saved(e, b, c).transfers = t
    BY <2>2 DEF Row
  <2> QED BY <1>3, <2>1, <2>3, <2>4, <2>5
<1> QED BY <1>1, <1>2, <1>3

-----------------------------------------------------------------------------
(* TypeOK in two halves: what outlives a handler, and its memory.          *)
StoreTyped ==
  /\ row \in [Payment -> Row]
  /\ wallet \in [Owner -> Rows]
  /\ ledger \in [Payment -> [Role -> Nat]]
  /\ stripe \in [Payment -> Intent]
  /\ refunded \in [Payment -> 0..2]
  /\ sent \in [Payment -> [Role -> Nat]]
  /\ overlapped \in SUBSET Payment
  /\ cut \in SUBSET Payment
  /\ astray \in SUBSET Payment

MemoryTyped ==
  /\ pc \in [Request -> Step]
  /\ target \in [Request -> Payment \cup {NoPayment}]
  /\ \A r \in Request : pc[r] # "idle" => target[r] \in Payment
  /\ command \in [Request -> Command \cup {Idle}]
  /\ ent \in [Request -> Row]
  /\ base \in [Request -> Row]
  /\ role \in [Request -> Role]
  /\ purse \in [Request -> Purse]
  /\ started \in Nat

(* The types split into those of the tables and those of the handlers.     *)
LEMMA TypeHalves == (TypeOK <=> StoreTyped /\ MemoryTyped) /\ (TypeOK' <=> StoreTyped' /\ MemoryTyped')
BY DEF TypeOK, StoreTyped, MemoryTyped

(* A split that works on the courier's share knows the courier.            *)
CreditStep == {"findWallet", "createWallet", "saveWallet", "record"}
Paying == \A r \in Request : pc[r] \in CreditStep /\ role[r] = "driver" => ent[r].driver \in Driver

(* A handler with a command that is not a creation has one of Command.     *)
LEMMA CommandIs ==
  ASSUME MemoryTyped, NEW r \in Request, command[r].op # "create"
  PROVE  command[r] \in Command
BY ConstantsTyped DEF MemoryTyped

(* The end of a request keeps the handlers' types.                         *)
LEMMA FinishTyped ==
  ASSUME MemoryTyped, Paying, NEW r \in Request, Finish(r)
  PROVE  MemoryTyped' /\ Paying'
<1>1. MemoryTyped' BY ConstantsTyped DEF MemoryTyped, Finish, Step, Role
<1>2. \A s \in Request : s # r => pc'[s] = pc[s] /\ role'[s] = role[s] /\ ent'[s] = ent[s]
  BY DEF MemoryTyped, Finish
<1>3. pc'[r] = "idle" BY DEF MemoryTyped, Finish
<1> QED BY <1>1, <1>2, <1>3 DEF Paying, CreditStep

(* The next step of a handler keeps the handlers' types.                   *)
LEMMA GoToTyped ==
  ASSUME MemoryTyped, Paying, NEW r \in Request, pc[r] # "idle",
         NEW step \in Step, GoTo(r, step),
         NEW e \in Row, ent' = [ent EXCEPT ![r] = e],
         NEW b \in Row, base' = [base EXCEPT ![r] = b],
         NEW x \in Role, role' = [role EXCEPT ![r] = x],
         NEW w \in Purse, purse' = [purse EXCEPT ![r] = w],
         step \in CreditStep /\ x = "driver" => e.driver \in Driver
  PROVE  MemoryTyped' /\ Paying'
<1>1. MemoryTyped' BY DEF MemoryTyped, GoTo
<1>2. \A s \in Request : s # r => pc'[s] = pc[s] /\ role'[s] = role[s] /\ ent'[s] = ent[s]
  BY DEF MemoryTyped, GoTo
<1>3. pc'[r] = step /\ role'[r] = x /\ ent'[r] = e BY DEF MemoryTyped, GoTo
<1> QED BY <1>1, <1>2, <1>3 DEF Paying

(* The start of a request keeps the handlers' types.                       *)
LEMMA StartTyped ==
  ASSUME MemoryTyped, Paying, NEW r \in Request, NEW p \in Payment,
         NEW c \in Command \cup {Idle},
         NEW step \in {"insert", "select", "capture", "cancel", "refund"},
         Start(r, p, c, step), NEW e \in Row, ent' = [ent EXCEPT ![r] = e],
         UNCHANGED <<base, role, purse>>
  PROVE  MemoryTyped' /\ Paying'
<1>1. MemoryTyped' BY DEF MemoryTyped, Start, Step
<1>2. \A s \in Request : s # r => pc'[s] = pc[s] /\ role'[s] = role[s] /\ ent'[s] = ent[s]
  BY DEF MemoryTyped, Start
<1>3. pc'[r] = step BY DEF MemoryTyped, Start
<1> QED BY <1>1, <1>2, <1>3 DEF Paying, CreditStep

(* The ways a split goes on after a credit.                                *)
LEMMA CompleteSplitTyped ==
  ASSUME MemoryTyped, Paying, cut \in SUBSET Payment, NEW r \in Request,
         pc[r] # "idle", command[r].op = "split", CompleteSplit(r)
  PROVE  MemoryTyped' /\ Paying' /\ cut' \in SUBSET Payment
<1>1. target[r] \in Payment /\ command[r] \in Command /\ ent[r] \in Row
  BY CommandIs DEF MemoryTyped
<1>2. CASE ent[r].status = "HELD"
  <2>1. AfterCommand(command[r], ent[r]) \in Row BY <1>1, AfterCommandEnds
  <2>2. "select" \in Step /\ "select" \notin CreditStep BY DEF Step, CreditStep
  <2>3. role' = [role EXCEPT ![r] = role[r]] /\ base' = [base EXCEPT ![r] = base[r]]
        /\ role[r] \in Role /\ base[r] \in Row
    BY <1>2 DEF CompleteSplit, MemoryTyped
  <2> QED BY <1>2, <2>1, <2>2, <2>3, ConstantsTyped, GoToTyped DEF CompleteSplit
<1>3. CASE ent[r].status # "HELD" BY <1>1, <1>3, FinishTyped DEF CompleteSplit
<1> QED BY <1>2, <1>3

(* Going from the restaurant's share to the courier's, or to the end of the*)
(* split, keeps the types.                                                 *)
LEMMA NextCreditTyped ==
  ASSUME MemoryTyped, Paying, cut \in SUBSET Payment, NEW r \in Request,
         pc[r] # "idle", command[r].op = "split", NextCredit(r)
  PROVE  MemoryTyped' /\ Paying' /\ cut' \in SUBSET Payment
<1>1. CASE role[r] = "merchant" /\ ent[r].driver # NoDriver
  <2>1. ent[r] \in Row /\ ent[r].driver \in Driver /\ base[r] \in Row
    BY <1>1 DEF MemoryTyped, Row, DriverOrNull
  <2>2. ent' = [ent EXCEPT ![r] = ent[r]] /\ base' = [base EXCEPT ![r] = base[r]]
    BY <1>1 DEF NextCredit, MemoryTyped
  <2>3. "findWallet" \in Step /\ "driver" \in Role BY DEF Step, Role
  <2> QED BY <1>1, <2>1, <2>2, <2>3, ConstantsTyped, GoToTyped DEF NextCredit
<1>2. CASE ~(role[r] = "merchant" /\ ent[r].driver # NoDriver)
  BY <1>2, CompleteSplitTyped DEF NextCredit
<1> QED BY <1>1, <1>2

(* Crediting a wallet in memory keeps the types.                           *)
LEMMA CreditPurseTyped ==
  ASSUME MemoryTyped, Paying, cut \in SUBSET Payment, NEW r \in Request,
         pc[r] \in CreditStep, command[r].op = "split",
         NEW w \in Payment, NEW holds \in SUBSET Payment, CreditPurse(r, w, holds)
  PROVE  MemoryTyped' /\ Paying' /\ cut' \in SUBSET Payment
<1>1. pc[r] # "idle" BY DEF CreditStep
<1>2. CASE Share(ent[r].amount, role[r]) > 0
  <2>1. ent[r] \in Row /\ base[r] \in Row /\ role[r] \in Role /\ target[r] \in Payment
    BY <1>1 DEF MemoryTyped
  <2>2. /\ ent' = [ent EXCEPT ![r] = ent[r]] /\ base' = [base EXCEPT ![r] = base[r]]
        /\ role' = [role EXCEPT ![r] = role[r]]
    BY <1>2 DEF CreditPurse, MemoryTyped
  <2>3. [id |-> w, holds |-> holds \cup {target[r]}] \in Purse BY <2>1 DEF Purse
  <2>4. "saveWallet" \in Step /\ (role[r] = "driver" => ent[r].driver \in Driver)
    BY DEF Step, Paying
  <2> QED BY <1>1, <1>2, <2>1, <2>2, <2>3, <2>4, GoToTyped DEF CreditPurse
<1>3. CASE ~(Share(ent[r].amount, role[r]) > 0)
  BY <1>1, <1>3, NextCreditTyped DEF CreditPurse
<1> QED BY <1>2, <1>3

(* The owner a split credits, and the rows a credit leaves.                *)
LEMMA CreditedIs ==
  ASSUME MemoryTyped, Paying, NEW r \in Request, pc[r] \in CreditStep
  PROVE  CreditedOwner(r) \in Owner
BY DEF CreditedOwner, Owner, Paying, MemoryTyped, Role

(* A wallet saved among the rows of its owner keeps the types.             *)
LEMMA RowsTyped ==
  ASSUME NEW f \in Rows
  PROVE  /\ DOMAIN f \in SUBSET Payment /\ \A w \in DOMAIN f : f[w] \in SUBSET Payment
         /\ \A p \in Payment :
              [w \in DOMAIN f \cup {p} |-> IF w = p THEN {} ELSE f[w]] \in Rows
         /\ \A p, h : h \in SUBSET Payment =>
              [w \in DOMAIN f |-> IF w = p THEN h ELSE f[w]] \in Rows
<1>1. PICK W \in SUBSET Payment : f \in [W -> SUBSET Payment] BY DEF Rows
<1>2. ASSUME NEW p \in Payment
      PROVE  [w \in DOMAIN f \cup {p} |-> IF w = p THEN {} ELSE f[w]] \in Rows
  <2>1. [w \in W \cup {p} |-> IF w = p THEN {} ELSE f[w]] \in [W \cup {p} -> SUBSET Payment]
    BY <1>1
  <2>2. W \cup {p} \in SUBSET Payment /\ DOMAIN f = W BY <1>1
  <2> QED BY <2>1, <2>2 DEF Rows
<1>3. ASSUME NEW p, NEW h \in SUBSET Payment
      PROVE  [w \in DOMAIN f |-> IF w = p THEN h ELSE f[w]] \in Rows
  <2>1. [w \in W |-> IF w = p THEN h ELSE f[w]] \in [W -> SUBSET Payment]
    BY <1>1
  <2> QED BY <1>1, <2>1 DEF Rows
<1> QED BY <1>1, <1>2, <1>3

(* The empty tables are well typed.                                        *)
LEMMA InitTyped == Init => TypeOK /\ Paying
<1> SUFFICES ASSUME Init PROVE TypeOK /\ Paying
  OBVIOUS
<1>1. StoreTyped BY ConstantsTyped DEF Init, StoreTyped
<1>2. MemoryTyped BY ConstantsTyped DEF Init, MemoryTyped, Step, Role
<1>3. Paying BY DEF Init, Paying, CreditStep
<1> QED BY <1>1, <1>2, <1>3, TypeHalves

(* The memory stays as it is, but for where a handler goes next.           *)
LEMMA KeepTyped ==
  ASSUME MemoryTyped, Paying, NEW r \in Request, pc[r] # "idle",
         NEW step \in Step, GoTo(r, step), UNCHANGED memory,
         step \in CreditStep /\ role[r] = "driver" => ent[r].driver \in Driver
  PROVE  MemoryTyped' /\ Paying'
<1>1. /\ ent' = [ent EXCEPT ![r] = ent[r]] /\ base' = [base EXCEPT ![r] = base[r]]
      /\ role' = [role EXCEPT ![r] = role[r]] /\ purse' = [purse EXCEPT ![r] = purse[r]]
      /\ ent[r] \in Row /\ base[r] \in Row /\ role[r] \in Role /\ purse[r] \in Purse
  BY DEF MemoryTyped, memory
<1> QED BY <1>1, GoToTyped

(* The other memory fields of a handler that only changes its payment.     *)
LEMMA EntTyped ==
  ASSUME MemoryTyped, Paying, NEW r \in Request, pc[r] # "idle",
         NEW step \in Step \ CreditStep, GoTo(r, step),
         NEW e \in Row, ent' = [ent EXCEPT ![r] = e], UNCHANGED <<base, role, purse>>
  PROVE  MemoryTyped' /\ Paying'
<1>1. /\ base' = [base EXCEPT ![r] = base[r]] /\ role' = [role EXCEPT ![r] = role[r]]
      /\ purse' = [purse EXCEPT ![r] = purse[r]]
      /\ base[r] \in Row /\ role[r] \in Role /\ purse[r] \in Purse
  BY DEF MemoryTyped
<1> QED BY <1>1, GoToTyped

Fitting == \A r \in Request : pc[r] # "idle" => StepFits(r)

(* In a coherent state every handler's command fits its step.              *)
LEMMA CoherentFits == TypeOK /\ Coherent => Fitting
BY DEF TypeOK, Coherent, HandlerCoherent, Fitting

(* Cancelling at Stripe keeps the types.                                   *)
LEMMA CancelTyped ==
  ASSUME TypeOK, Paying, Fitting, NEW r \in Request, CancelIntent(r)
  PROVE  TypeOK' /\ Paying'
<1>1. pc[r] = "cancel" /\ UNCHANGED <<tables, refunded, sent, overlapped, cut>>
  BY DEF CancelIntent
<1>2. target[r] \in Payment /\ ent[r] \in Row BY <1>1 DEF TypeOK
<1>3. command[r] \in Command
  BY <1>1, TypeHalves, CommandIs DEF Fitting, StepFits, Returning
<1>4. StoreTyped'
  <2>1. /\ stripe' = [stripe EXCEPT ![target[r]] = "cancelled"] \/ stripe' = stripe
        /\ astray' \in {astray, astray \cup {target[r]}}
    BY DEF CancelIntent
  <2> QED BY <1>1, <1>2, <2>1, TypeHalves DEF StoreTyped, tables, Intent
<1>5. MemoryTyped' /\ Paying'
  <2>1. CASE Finish(r) BY <2>1, TypeHalves, FinishTyped
  <2>2. CASE ~Finish(r)
    <3>1. /\ ent' = [ent EXCEPT ![r] = AfterCommand(command[r], ent[r])]
          /\ GoTo(r, "select") /\ UNCHANGED <<base, role, purse>>
      BY <2>2 DEF CancelIntent
    <3>2. AfterCommand(command[r], ent[r]) \in Row BY <1>2, <1>3, AfterCommandEnds
    <3>3. "select" \in Step \ CreditStep BY DEF Step, CreditStep
    <3> QED BY <1>1, <3>1, <3>2, <3>3, TypeHalves, EntTyped
  <2> QED BY <2>1, <2>2
<1> QED BY <1>4, <1>5, TypeHalves

(* Refunding at Stripe keeps the types.                                    *)
LEMMA RefundTyped ==
  ASSUME TypeOK, Paying, Fitting, NEW r \in Request, RefundIntent(r)
  PROVE  TypeOK' /\ Paying'
<1>1. pc[r] = "refund" /\ UNCHANGED <<tables, stripe, sent, overlapped, cut>>
  BY DEF RefundIntent
<1>2. target[r] \in Payment /\ ent[r] \in Row BY <1>1 DEF TypeOK
<1>3. command[r] \in Command BY <1>1, TypeHalves, CommandIs DEF Fitting, StepFits
<1>4. StoreTyped'
  <2>1. PICK x \in Outcomes(Refundable(target[r])) :
          /\ refunded' = IF ~x.done THEN refunded
                         ELSE IF command[r].op = "refund"
                              THEN [refunded EXCEPT ![target[r]] = 2]
                              ELSE [refunded EXCEPT ![target[r]] = @ + 1]
          /\ astray' = IF x.heard THEN astray ELSE astray \cup {target[r]}
    BY DEF RefundIntent
  <2>2. x.done => refunded[target[r]] < 2 BY DEF Outcomes, Refundable
  <2>3. refunded[target[r]] \in 0..2 BY <1>2 DEF TypeOK
  <2>4. refunded' \in [Payment -> 0..2]
    <3>1. PICK k : k = refunded[target[r]] + 1 OBVIOUS
    <3>2. x.done => k \in 0..2 BY <2>2, <2>3, <3>1
    <3>3. \/ refunded' = refunded \/ refunded' = [refunded EXCEPT ![target[r]] = 2]
          \/ x.done /\ refunded' = [refunded EXCEPT ![target[r]] = k]
      BY <2>1, <3>1
    <3> QED BY <3>2, <3>3 DEF TypeOK
  <2> QED BY <1>1, <1>2, <2>1, <2>4, TypeHalves DEF StoreTyped, tables
<1>5. MemoryTyped' /\ Paying'
  <2>1. CASE Finish(r) BY <2>1, TypeHalves, FinishTyped
  <2>2. CASE ~Finish(r)
    <3>1. /\ ent' = [ent EXCEPT ![r] = AfterCommand(command[r], ent[r])]
          /\ GoTo(r, "select") /\ UNCHANGED <<base, role, purse>>
      BY <2>2 DEF RefundIntent
    <3>2. AfterCommand(command[r], ent[r]) \in Row BY <1>2, <1>3, AfterCommandEnds
    <3>3. "select" \in Step \ CreditStep BY DEF Step, CreditStep
    <3> QED BY <1>1, <3>1, <3>2, <3>3, TypeHalves, EntTyped
  <2> QED BY <2>1, <2>2
<1> QED BY <1>4, <1>5, TypeHalves

(* Capturing at Stripe keeps the types.                                    *)
LEMMA CaptureTyped ==
  ASSUME TypeOK, Paying, NEW r \in Request, Capture(r)
  PROVE  TypeOK' /\ Paying'
<1>1. pc[r] = "capture" /\ UNCHANGED <<tables, refunded, sent, overlapped, astray>>
  BY DEF Capture
<1>2. target[r] \in Payment BY <1>1 DEF TypeOK
<1>3. StoreTyped'
  <2>1. /\ stripe' = [stripe EXCEPT ![target[r]] = "captured"] \/ stripe' = stripe
        /\ cut' \in {cut, cut \cup {target[r]}}
    BY DEF Capture
  <2> QED BY <1>1, <1>2, <2>1, TypeHalves DEF StoreTyped, tables, Intent
<1>4. MemoryTyped' /\ Paying'
  <2>1. CASE Finish(r) BY <2>1, TypeHalves, FinishTyped
  <2>2. CASE ~Finish(r)
    <3>1. GoTo(r, "transfer") /\ UNCHANGED memory BY <2>2 DEF Capture
    <3>2. "transfer" \in Step \ CreditStep BY DEF Step, CreditStep
    <3> QED BY <1>1, <3>1, <3>2, TypeHalves, KeepTyped
  <2> QED BY <2>1, <2>2
<1> QED BY <1>3, <1>4, TypeHalves

(* A transfer adds to what was sent, and its id to the payment in memory.  *)
LEMMA TransferTyped ==
  ASSUME TypeOK, Paying, NEW r \in Request, Transfer(r)
  PROVE  TypeOK' /\ Paying'
<1>1. /\ pc[r] = "transfer"
      /\ UNCHANGED <<tables, stripe, refunded, base, purse, history>>
  BY DEF Transfer
<1>2. /\ target[r] \in Payment /\ ent[r] \in Row /\ role[r] \in Role
      /\ base[r] \in Row /\ purse[r] \in Purse
  BY <1>1 DEF TypeOK
<1>3. PICK x \in Outcomes(Share(ent[r].amount, role[r]) > 0) :
        /\ sent' = IF x.done THEN [sent EXCEPT ![target[r]][role[r]] = @ + 1] ELSE sent
        /\ ent' = IF x.heard THEN [ent EXCEPT ![r].transfers = @ \cup {role[r]}] ELSE ent
  BY DEF Transfer
<1>4. sent' \in [Payment -> [Role -> Nat]]
  <2>1. PICK k \in Nat : k = sent[target[r]][role[r]] + 1 BY <1>2 DEF TypeOK
  <2>2. sent' = sent \/ sent' = [sent EXCEPT ![target[r]][role[r]] = k] BY <1>3, <2>1
  <2> QED BY <1>2, <2>2 DEF TypeOK
<1>5. StoreTyped' BY <1>1, <1>4, TypeHalves DEF StoreTyped, tables, history
<1>6. PICK e \in Row : ent' = [ent EXCEPT ![r] = e]
  <2>1. PICK t \in SUBSET Role : t = ent[r].transfers \cup {role[r]} BY <1>2 DEF Row
  <2>2. [ent[r] EXCEPT !.transfers = t] \in Row BY <1>2 DEF Row
  <2>3. CASE x.heard
    <3>1. ent' = [ent EXCEPT ![r] = [ent[r] EXCEPT !.transfers = t]] BY <1>3, <2>1, <2>3
    <3> QED BY <2>2, <3>1
  <2>4. CASE ~x.heard
    <3>1. ent' = [ent EXCEPT ![r] = ent[r]] BY <1>3, <2>4 DEF TypeOK
    <3> QED BY <1>2, <3>1
  <2> QED BY <2>3, <2>4
<1>7. base' = [base EXCEPT ![r] = base[r]] /\ purse' = [purse EXCEPT ![r] = purse[r]]
  BY <1>1 DEF TypeOK
<1>8. {"transfer", "findWallet"} \subseteq Step /\ {"merchant", "driver"} \subseteq Role
      /\ "transfer" \notin CreditStep
  BY DEF Step, Role, CreditStep
<1>9. CASE role[r] = "merchant"
  <2>1. GoTo(r, "transfer") /\ role' = [role EXCEPT ![r] = "driver"]
    BY <1>9 DEF Transfer
  <2> QED BY <1>1, <1>2, <1>5, <1>6, <1>7, <1>8, <2>1, TypeHalves, GoToTyped
<1>10. CASE role[r] # "merchant"
  <2>1. GoTo(r, "findWallet") /\ role' = [role EXCEPT ![r] = "merchant"]
    BY <1>10 DEF Transfer
  <2>2. "merchant" # "driver" /\ "findWallet" \in Step /\ "merchant" \in Role BY <1>8
  <2>3. MemoryTyped /\ pc[r] # "idle" BY <1>1, TypeHalves
  <2>4. MemoryTyped' /\ Paying'
    BY <1>2, <1>6, <1>7, <2>1, <2>2, <2>3, GoToTyped
  <2> QED BY <1>5, <2>4, TypeHalves
<1> QED BY <1>9, <1>10

(* The credits of a split.                                                 *)
LEMMA CreditsTyped ==
  ASSUME TypeOK, Paying, Fitting, NEW r \in Request,
         FindWallet(r) \/ CreateWallet(r) \/ SaveWallet(r) \/ RecordTransaction(r)
  PROVE  TypeOK' /\ Paying'
<1>1. pc[r] \in CreditStep
  BY DEF CreditStep, FindWallet, CreateWallet, SaveWallet, RecordTransaction
<1>2. pc[r] # "idle" /\ target[r] \in Payment /\ role[r] \in Role /\ cut \in SUBSET Payment
  BY <1>1 DEF CreditStep, TypeOK
<1>3. command[r].op = "split"
  BY <1>1, <1>2 DEF Fitting, StepFits, SplitStep, CreditStep
<1>4. CreditedOwner(r) \in Owner BY <1>1, TypeHalves, CreditedIs
<1> DEFINE o == CreditedOwner(r)
<1>5. wallet[o] \in Rows BY <1>4 DEF TypeOK
<1>6. CASE FindWallet(r)
  <2>1. UNCHANGED <<tables, external, overlapped, astray>> BY <1>6 DEF FindWallet
  <2>2. MemoryTyped' /\ Paying' /\ cut' \in SUBSET Payment
    <3>1. CASE \E w \in DOMAIN wallet[o] : CreditPurse(r, w, wallet[o][w])
      <4>1. PICK w \in DOMAIN wallet[o] : CreditPurse(r, w, wallet[o][w]) BY <3>1
      <4>2. w \in Payment /\ wallet[o][w] \in SUBSET Payment BY <1>5, RowsTyped
      <4> QED BY <1>1, <1>2, <1>3, <4>1, <4>2, TypeHalves, CreditPurseTyped
    <3>2. CASE GoTo(r, "createWallet") /\ UNCHANGED <<memory, cut>>
      <4>1. "createWallet" \in Step /\ (role[r] = "driver" => ent[r].driver \in Driver)
        BY <1>1 DEF Step, Paying
      <4> QED BY <1>2, <3>2, <4>1, TypeHalves, KeepTyped
    <3>3. CASE NextCredit(r) BY <1>2, <1>3, <3>3, TypeHalves, NextCreditTyped
    <3> QED BY <1>6, <3>1, <3>2, <3>3 DEF FindWallet
  <2> QED BY <2>1, <2>2, TypeHalves DEF StoreTyped, tables, external
<1>7. CASE CreateWallet(r)
  <2>1. UNCHANGED <<row, ledger, external, overlapped, astray>> BY <1>7 DEF CreateWallet
  <2>2. CASE wallet' = wallet /\ NextCredit(r)
    <3>1. MemoryTyped' /\ Paying' /\ cut' \in SUBSET Payment
      BY <1>2, <1>3, <2>2, TypeHalves, NextCreditTyped
    <3> QED BY <2>1, <2>2, <3>1, TypeHalves DEF StoreTyped, external
  <2>3. CASE ~(wallet' = wallet /\ NextCredit(r))
    <3>1. PICK f : f = [w \in DOMAIN wallet[o] \cup {target[r]} |->
                          IF w = target[r] THEN {} ELSE wallet[o][w]]
      OBVIOUS
    <3>2. f \in Rows BY <1>2, <1>5, <3>1, RowsTyped
    <3>3. wallet' = [wallet EXCEPT ![o] = f] /\ CreditPurse(r, target[r], {})
      BY <1>7, <2>3, <3>1 DEF CreateWallet
    <3>4. wallet' \in [Owner -> Rows] BY <1>4, <3>2, <3>3 DEF TypeOK
    <3>5. MemoryTyped' /\ Paying' /\ cut' \in SUBSET Payment
      BY <1>1, <1>2, <1>3, <3>3, TypeHalves, CreditPurseTyped
    <3> QED BY <2>1, <3>4, <3>5, TypeHalves DEF StoreTyped, external
  <2> QED BY <2>2, <2>3
<1>8. CASE SaveWallet(r)
  <2>1. UNCHANGED <<row, ledger, external, overlapped, astray>> BY <1>8 DEF SaveWallet
  <2>2. CASE wallet' = wallet /\ NextCredit(r)
    <3>1. MemoryTyped' /\ Paying' /\ cut' \in SUBSET Payment
      BY <1>2, <1>3, <2>2, TypeHalves, NextCreditTyped
    <3> QED BY <2>1, <2>2, <3>1, TypeHalves DEF StoreTyped, external
  <2>3. CASE ~(wallet' = wallet /\ NextCredit(r))
    <3>1. PICK f : f = [w \in DOMAIN wallet[o] |->
                          IF w = purse[r].id THEN purse[r].holds ELSE wallet[o][w]]
      OBVIOUS
    <3>2. purse[r].holds \in SUBSET Payment BY DEF TypeOK, Purse
    <3>3. f \in Rows BY <1>5, <3>1, <3>2, RowsTyped
    <3>4. /\ wallet' = [wallet EXCEPT ![o] = f]
          /\ GoTo(r, "record") /\ UNCHANGED <<memory, cut>>
      BY <1>8, <2>3, <3>1 DEF SaveWallet
    <3>5. wallet' \in [Owner -> Rows] BY <1>4, <3>3, <3>4 DEF TypeOK
    <3>6. "record" \in Step /\ (role[r] = "driver" => ent[r].driver \in Driver)
      BY <1>1 DEF Step, Paying
    <3>7. MemoryTyped' /\ Paying' BY <1>2, <3>4, <3>6, TypeHalves, KeepTyped
    <3> QED BY <2>1, <3>4, <3>5, <3>7, TypeHalves DEF StoreTyped, external
  <2> QED BY <2>2, <2>3
<1>9. CASE RecordTransaction(r)
  <2>1. UNCHANGED <<row, wallet, external, overlapped, astray>> /\ NextCredit(r)
    BY <1>9 DEF RecordTransaction
  <2>2. ledger' \in [Payment -> [Role -> Nat]]
    <3>1. PICK k \in Nat : k = ledger[target[r]][role[r]] + 1 BY <1>2 DEF TypeOK
    <3>2. ledger' = ledger \/ ledger' = [ledger EXCEPT ![target[r]][role[r]] = k]
      BY <1>9, <3>1 DEF RecordTransaction
    <3>3. ledger \in [Payment -> [Role -> Nat]] BY DEF TypeOK
    <3>4. [ledger[target[r]] EXCEPT ![role[r]] = k] \in [Role -> Nat] BY <1>2, <3>3
    <3> QED BY <1>2, <3>2, <3>3, <3>4
  <2>3. MemoryTyped' /\ Paying' /\ cut' \in SUBSET Payment
    BY <1>2, <1>3, <2>1, TypeHalves, NextCreditTyped
  <2> QED BY <2>1, <2>2, <2>3, TypeHalves DEF StoreTyped, external
<1> QED BY <1>6, <1>7, <1>8, <1>9

(* Every statement of the service keeps the types.                         *)
LEMMA StepTyped == TypeOK /\ Paying /\ Coherent /\ [Next]_vars => TypeOK' /\ Paying'
<1> SUFFICES ASSUME TypeOK, Paying, Fitting, [Next]_vars PROVE TypeOK' /\ Paying'
  BY CoherentFits
<1>1. ASSUME NEW p \in Payment, NEW a \in Amount, CreatePayment(p, a)
      PROVE  TypeOK' /\ Paying'
  <2>1. StoreTyped' BY <1>1, ConstantsTyped, TypeHalves DEF CreatePayment, StoreTyped, external, history
  <2>2. MemoryTyped' /\ Paying'
    BY <1>1, TypeHalves DEF CreatePayment, MemoryTyped, memory, Paying
  <2> QED BY <2>1, <2>2, TypeHalves
<1>2. ASSUME NEW p \in Payment, DeletePayment(p) PROVE TypeOK' /\ Paying'
  <2>1. StoreTyped' BY <1>2, ConstantsTyped, TypeHalves DEF DeletePayment, StoreTyped, external
  <2>2. MemoryTyped' /\ Paying'
    BY <1>2, TypeHalves DEF DeletePayment, MemoryTyped, memory, Paying
  <2> QED BY <2>1, <2>2, TypeHalves
<1>3. ASSUME NEW p \in Payment, Authorize(p) \/ Lapse(p) PROVE TypeOK' /\ Paying'
  <2>1. StoreTyped'
    BY <1>3, TypeHalves DEF Authorize, Lapse, StoreTyped, tables, history, Intent
  <2>2. MemoryTyped' /\ Paying'
    BY <1>3, TypeHalves DEF Authorize, Lapse, MemoryTyped, memory, Paying
  <2> QED BY <2>1, <2>2, TypeHalves
<1>4. ASSUME NEW r \in Request, NEW p \in Payment, NEW a \in Amount, CreateIntent(r, p, a)
      PROVE  TypeOK' /\ Paying'
  <2>1. /\ Start(r, p, Idle, "insert") /\ ent' = [ent EXCEPT ![r] = Hold(NewPayment(a))]
        /\ stripe' = [stripe EXCEPT ![p] = "created"]
        /\ UNCHANGED <<tables, refunded, sent, base, role, purse, cut, astray>>
    BY <1>4 DEF CreateIntent
  <2>2. StoreTyped'
    BY <2>1, TypeHalves DEF Start, StoreTyped, tables, Intent
  <2> QED BY <2>1, <2>2, ConstantsTyped, StartTyped, TypeHalves
<1>5. ASSUME NEW r \in Request, NEW p \in Payment, NEW c \in Command, FindPayment(r, p, c)
      PROVE  TypeOK' /\ Paying'
  <2>1. PICK step, e : /\ step = FirstStep(c, row[p]) /\ step # "reject"
                       /\ e = IF step = "select" THEN AfterCommand(c, row[p]) ELSE row[p]
    BY <1>5 DEF FindPayment
  <2>2. row[p] \in Row BY DEF TypeOK
  <2>3. step \in {"select", "capture", "cancel", "refund"} /\ e \in Row
    BY <2>1, <2>2, FirstStepIs, AfterCommandEnds
  <2>4. /\ Start(r, p, c, step) /\ ent' = [ent EXCEPT ![r] = e]
        /\ UNCHANGED <<tables, external, base, role, purse, cut, astray>>
    BY <1>5, <2>1 DEF FindPayment
  <2>5. StoreTyped' BY <2>4, TypeHalves DEF Start, StoreTyped, tables, external
  <2> QED BY <2>3, <2>4, <2>5, StartTyped, TypeHalves
<1>6. ASSUME NEW r \in Request, InsertHeld(r) PROVE TypeOK' /\ Paying'
  <2>1. /\ row' = [row EXCEPT ![target[r]] = ent[r]] /\ Finish(r)
        /\ UNCHANGED <<wallet, ledger, external, history>>
    BY <1>6 DEF InsertHeld
  <2>2. StoreTyped' BY <2>1, TypeHalves DEF StoreTyped, MemoryTyped, external, history
  <2> QED BY <2>1, <2>2, FinishTyped, TypeHalves
<1>7. ASSUME NEW r \in Request, SaveSelect(r) PROVE TypeOK' /\ Paying'
  <2>1. /\ pc[r] = "select" /\ base' = [base EXCEPT ![r] = row[target[r]]]
        /\ GoTo(r, "update") /\ UNCHANGED <<tables, external, ent, role, purse, history>>
    BY <1>7 DEF SaveSelect
  <2>2. StoreTyped' BY <2>1, TypeHalves DEF StoreTyped, tables, external, history
  <2>3. /\ row[target[r]] \in Row /\ ent[r] \in Row /\ role[r] \in Role /\ purse[r] \in Purse
        /\ ent' = [ent EXCEPT ![r] = ent[r]] /\ role' = [role EXCEPT ![r] = role[r]]
        /\ purse' = [purse EXCEPT ![r] = purse[r]]
    BY <2>1 DEF TypeOK
  <2>4. "update" \in Step /\ "update" \notin CreditStep BY DEF Step, CreditStep
  <2> QED BY <2>1, <2>2, <2>3, <2>4, GoToTyped, TypeHalves
<1>8. ASSUME NEW r \in Request, SaveUpdate(r) PROVE TypeOK' /\ Paying'
  <2>1. PICK e : e = Saved(ent[r], base[r], row[target[r]]) OBVIOUS
  <2>2. /\ row' = [row EXCEPT ![target[r]] = e] /\ Finish(r) /\ pc[r] = "update"
        /\ UNCHANGED <<wallet, ledger, external, history>>
    BY <1>8, <2>1 DEF SaveUpdate
  <2>3. e \in Row BY <2>1, <2>2, SavedIs DEF TypeOK
  <2>4. StoreTyped' BY <2>2, <2>3, TypeHalves DEF StoreTyped, external, history
  <2> QED BY <2>2, <2>4, FinishTyped, TypeHalves
<1>9. ASSUME NEW r \in Request, Abort(r) PROVE TypeOK' /\ Paying'
  <2>1. /\ Finish(r) /\ pc[r] # "idle" /\ UNCHANGED <<tables, external, overlapped>>
        /\ cut' \in {cut, cut \cup {target[r]}} /\ astray' \in {astray, astray \cup {target[r]}}
    BY <1>9 DEF Abort
  <2>2. StoreTyped' BY <2>1, TypeHalves DEF StoreTyped, MemoryTyped, tables, external
  <2> QED BY <2>1, <2>2, FinishTyped, TypeHalves
<1>10. CASE UNCHANGED vars
  BY <1>10 DEF vars, tables, external, memory, history, TypeOK, Paying
<1> QED BY <1>1, <1>2, <1>3, <1>4, <1>5, <1>6, <1>7, <1>8, <1>9, <1>10, CancelTyped,
           RefundTyped, CaptureTyped, TransferTyped, CreditsTyped DEF Next

-----------------------------------------------------------------------------
(* Coherent, payment by payment, in three parts.                           *)

HandlerBasics(r, p) ==
  /\ ent[r] # Absent
  /\ ent[r].intent <=> stripe[p] # "none"
  /\ Backed(p, ent[r])
  /\ StepFits(r)

(* Every status is backed by Stripe, and every step fits its command.      *)
Basics(p) ==
  /\ row[p] # Absent => (row[p].intent <=> stripe[p] # "none")
  /\ Backed(p, row[p])
  /\ \A r \in Request : target[r] = p => HandlerBasics(r, p)

MovedOnce(p) ==
  /\ refunded[p] > 0 => stripe[p] = "captured"
  /\ \A x \in Role : /\ sent[p][x] <= 1 /\ ledger[p][x] <= 1
                     /\ stripe[p] # "captured" => sent[p][x] = 0 /\ ledger[p][x] = 0

(* Each share moves once, however far the split has got.                   *)
Counts(p) ==
  /\ MovedOnce(p)
  /\ \A r \in Request : target[r] = p /\ Splitting(r) => Progress(r, p)

(* One split holds the payment, or it was cut short and nobody does.       *)
Lock(p) ==
  /\ p \in cut => Uncompleted(p)
  /\ \A r \in Request : target[r] = p /\ Splitting(r) =>
       /\ Uncompleted(p) /\ p \notin cut
       /\ \A s \in Request : target[s] = p /\ Splitting(s) => s = r

Resting == \A r \in Request : pc[r] = "idle" => target[r] = NoPayment

(* Coherent holds payment by payment, in three parts: what the row and the *)
(* handlers are backed by, how often money moved, and who holds the        *)
(* payment.                                                                *)
LEMMA CoherentParts ==
  /\ Coherent <=> Resting /\ \A p \in Payment : Basics(p) /\ Counts(p) /\ Lock(p)
  /\ Coherent' <=> Resting' /\ \A p \in Payment : Basics(p)' /\ Counts(p)' /\ Lock(p)'
BY DEF Coherent, PaymentCoherent, HandlerCoherent, Resting, Basics, HandlerBasics, Counts,
       MovedOnce, Lock

SameMemory(s) ==
  /\ pc'[s] = pc[s] /\ target'[s] = target[s] /\ command'[s] = command[s]
  /\ ent'[s] = ent[s] /\ base'[s] = base[s] /\ role'[s] = role[s]

SameStore(q) ==
  /\ row'[q] = row[q] /\ stripe'[q] = stripe[q] /\ refunded'[q] = refunded[q]
  /\ sent'[q] = sent[q] /\ ledger'[q] = ledger[q]
  /\ q \in cut' <=> q \in cut
  /\ q \in astray' <=> q \in astray
  /\ q \in overlapped' <=> q \in overlapped

(* What Stripe has done stays done.                                        *)
Advances(p) ==
  /\ stripe'[p] = "none" <=> stripe[p] = "none"
  /\ stripe[p] = "captured" => stripe'[p] = "captured"
  /\ stripe[p] = "cancelled" => stripe'[p] = "cancelled"
  /\ Money(p) = "returned" => Money(p)' = "returned"
  /\ p \in astray => p \in astray'
  /\ \A x \in Role : sent[p][x] > 0 => sent'[p][x] > 0

(* A payment that stays as it is has gone no step back at Stripe.          *)
LEMMA SameAdvances == ASSUME NEW p, SameStore(p) PROVE Advances(p)
BY DEF SameStore, Advances, Money

(* What Stripe backs it goes on backing as long as it takes no step back.  *)
LEMMA BackedStays ==
  ASSUME NEW p, Advances(p), NEW e \in Row, Backed(p, e) PROVE Backed(p, e)'
BY DEF Advances, Backed, Row

(* A handler whose memory is kept is at the same step of the same command. *)
LEMMA SameFits ==
  ASSUME NEW s, SameMemory(s)
  PROVE  (StepFits(s)' <=> StepFits(s)) /\ (Splitting(s)' <=> Splitting(s))
BY DEF SameMemory, StepFits, Splitting, Returning

(* Frame of the first part: a step that takes nothing back at Stripe keeps *)
(* it when the row and the handlers it changes are backed.                 *)
LEMMA BasicsKept ==
  ASSUME TypeOK, NEW p \in Payment, Basics(p), Advances(p),
         \/ row'[p] = row[p]
         \/ (row'[p] # Absent => (row'[p].intent <=> stripe'[p] # "none")) /\ Backed(p, row[p])',
         \A s \in Request : target'[s] = p => SameMemory(s) \/ HandlerBasics(s, p)'
  PROVE  Basics(p)'
<1>1. ASSUME row'[p] = row[p]
      PROVE  (row'[p] # Absent => (row'[p].intent <=> stripe'[p] # "none")) /\ Backed(p, row[p])'
  <2>1. PICK e \in Row : e = row[p] BY DEF TypeOK
  <2>2. Backed(p, e)' BY <2>1, BackedStays DEF Basics
  <2> QED BY <1>1, <2>1, <2>2 DEF Basics, Advances
<1>2. ASSUME NEW s \in Request, target'[s] = p, SameMemory(s) PROVE HandlerBasics(s, p)'
  <2>1. PICK e \in Row : e = ent[s] BY DEF TypeOK
  <2>2. HandlerBasics(s, p) BY <1>2 DEF Basics, SameMemory
  <2>3. Backed(p, e)' BY <2>1, <2>2, BackedStays DEF HandlerBasics
  <2>4. StepFits(s)' BY <1>2, <2>2, SameFits DEF HandlerBasics
  <2>5. ent'[s] = e BY <1>2, <2>1 DEF SameMemory
  <2> QED BY <2>1, <2>2, <2>3, <2>4, <2>5 DEF HandlerBasics, Advances
<1> QED BY <1>1, <1>2 DEF Basics

(* Frame of the second part: a step keeps it when the splits it does not   *)
(* advance see the same transfers and transactions.                        *)
LEMMA CountsKept ==
  ASSUME NEW p \in Payment, Counts(p), MovedOnce(p)',
         \A s \in Request : target'[s] = p /\ Splitting(s)' =>
           \/ SameMemory(s) /\ sent'[p] = sent[p] /\ ledger'[p] = ledger[p]
           \/ Progress(s, p)'
  PROVE  Counts(p)'
<1>1. ASSUME NEW s \in Request, target'[s] = p, Splitting(s)',
             SameMemory(s), sent'[p] = sent[p], ledger'[p] = ledger[p]
      PROVE  Progress(s, p)'
  <2>1. Progress(s, p) BY <1>1, SameFits DEF Counts, SameMemory
  <2> QED BY <1>1, <2>1 DEF Progress, SameMemory
<1> QED BY <1>1 DEF Counts

Locked(p) == p \in cut \/ \E s \in Request : target[s] = p /\ Splitting(s)

NotOver(e) == e.status \notin {"COMPLETED", "REFUNDED"}

(* The handler is in a split after the step.                               *)
WillSplit(s) == Splitting(s)'

(* Frame of the third part: a step keeps it when it ends no captured       *)
(* payment whose split is still on its way.                                *)
LEMMA LockKept ==
  ASSUME NEW p \in Payment, Lock(p), p \in cut' <=> p \in cut,
         Locked(p) => stripe'[p] = "captured" /\ refunded'[p] = 0,
         \/ Locked(p) => NotOver(row'[p])
         \/ /\ p \notin cut'
            /\ \A s \in Request : target'[s] = p => ~WillSplit(s),
         \A s \in Request : target'[s] = p =>
           \/ SameMemory(s)
           \/ /\ WillSplit(s) => target[s] = p /\ Splitting(s)
              /\ Locked(p) => WillSplit(s) \/ NotOver(ent'[s])
  PROVE  Lock(p)'
<1>1. ASSUME NEW s \in Request, target'[s] = p, Splitting(s)'
      PROVE  target[s] = p /\ Splitting(s)
  BY <1>1, SameFits DEF SameMemory, WillSplit
<1>2. ASSUME Locked(p), NEW s \in Request, target'[s] = p
      PROVE  Splitting(s)' \/ NotOver(ent'[s])
  <2>1. Uncompleted(p) BY <1>2 DEF Locked, Lock
  <2> QED BY <1>2, <2>1, SameFits DEF Uncompleted, SameMemory, NotOver, WillSplit
<1>3. ASSUME Locked(p), NotOver(row'[p]) PROVE Uncompleted(p)'
  BY <1>2, <1>3 DEF Uncompleted, NotOver, WillSplit
<1>4. ASSUME p \in cut' PROVE Uncompleted(p)' BY <1>3, <1>4 DEF Locked
<1>5. ASSUME NEW r \in Request, target'[r] = p, Splitting(r)'
      PROVE  /\ Uncompleted(p)' /\ p \notin cut'
             /\ \A s \in Request : target'[s] = p /\ Splitting(s)' => s = r
  <2>1. target[r] = p /\ Splitting(r) /\ Locked(p) BY <1>1, <1>5 DEF Locked
  <2>2. Uncompleted(p)' BY <1>3, <1>5, <2>1 DEF WillSplit
  <2> QED BY <1>1, <2>1, <2>2 DEF Lock
<1> QED BY <1>4, <1>5 DEF Lock

-----------------------------------------------------------------------------
(* The shape of the steps: all but one payment, and all but one handler,   *)
(* stay as they are.                                                       *)

OnlyHandler(r) == \A s \in Request : s # r => SameMemory(s)
OnlyPayment(p) == \A q \in Payment : q # p => SameStore(q)

(* The handler is gone.                                                    *)
Gone(r) == pc'[r] = "idle" /\ target'[r] = NoPayment

(* The end of a request touches one handler, which goes away.              *)
LEMMA FinishShape ==
  ASSUME TypeOK, NEW r \in Request, Finish(r)
  PROVE  OnlyHandler(r) /\ Gone(r) /\ ~Splitting(r)'
<1>1. OnlyHandler(r) BY DEF Finish, TypeOK, OnlyHandler, SameMemory
<1>2. Gone(r) BY DEF Finish, TypeOK, Gone
<1>3. command'[r] = Idle BY DEF Finish, TypeOK
<1> QED BY <1>1, <1>2, <1>3 DEF Splitting, Idle

(* The handler goes on with what it has in memory.                         *)
GoesOn(r, step, e) ==
  /\ pc'[r] = step /\ target'[r] = target[r] /\ command'[r] = command[r] /\ ent'[r] = e

(* The next step of a request touches one handler, which goes on with the  *)
(* payment it has in memory.                                               *)
LEMMA GoToShape ==
  ASSUME TypeOK, NEW r \in Request, NEW step, GoTo(r, step),
         NEW e, ent' = [ent EXCEPT ![r] = e],
         base' = base \/ (\E b : base' = [base EXCEPT ![r] = b]),
         role' = role \/ (\E x : role' = [role EXCEPT ![r] = x])
  PROVE  OnlyHandler(r) /\ GoesOn(r, step, e)
<1>1. \A s \in Request : s # r => base'[s] = base[s] /\ role'[s] = role[s]
  BY DEF TypeOK
<1>2. OnlyHandler(r) BY <1>1 DEF GoTo, TypeOK, OnlyHandler, SameMemory
<1>3. GoesOn(r, step, e) BY DEF GoTo, TypeOK, GoesOn
<1> QED BY <1>2, <1>3

(* The same when the payment in memory is left as it is.                   *)
LEMMA KeepShape ==
  ASSUME TypeOK, NEW r \in Request, NEW step, GoTo(r, step), UNCHANGED <<ent, base>>,
         role' = role \/ (\E x : role' = [role EXCEPT ![r] = x])
  PROVE  OnlyHandler(r) /\ GoesOn(r, step, ent[r])
<1>1. ent' = [ent EXCEPT ![r] = ent[r]] BY DEF TypeOK
<1> QED BY <1>1, GoToShape

(* The start of a request touches one handler, and marks a payment on which*)
(* another one works.                                                      *)
LEMMA StartShape ==
  ASSUME TypeOK, NEW r \in Request, NEW p \in Payment, NEW c, NEW step, Start(r, p, c,
         step),
         NEW e, ent' = [ent EXCEPT ![r] = e], UNCHANGED <<base, role>>
  PROVE  /\ OnlyHandler(r) /\ pc[r] = "idle" /\ pc'[r] = step /\ target'[r] = p
         /\ command'[r] = c /\ ent'[r] = e
         /\ overlapped' = IF Busy(p) THEN overlapped \cup {p} ELSE overlapped
BY DEF Start, TypeOK, OnlyHandler, SameMemory

(* The handler of another payment and the payment itself have nothing to   *)
(* fear from a step.                                                       *)
LEMMA OthersGood ==
  ASSUME TypeOK, NEW q \in Payment, Basics(q), Counts(q), Lock(q), SameStore(q),
         \A s \in Request : target'[s] = q => SameMemory(s)
  PROVE  Basics(q)' /\ Counts(q)' /\ Lock(q)'
<1>1. Basics(q)' BY SameAdvances, BasicsKept DEF SameStore
<1>2. MovedOnce(q)' BY DEF SameStore, MovedOnce, Counts
<1>3. Counts(q)' BY <1>2, CountsKept DEF SameStore
<1>4. Locked(q) => Uncompleted(q) BY DEF Locked, Lock
<1>5. /\ Locked(q) => stripe'[q] = "captured" /\ refunded'[q] = 0 /\ NotOver(row'[q])
      /\ q \in cut' <=> q \in cut
  BY <1>4 DEF SameStore, Uncompleted, NotOver
<1>6. Lock(q)' BY <1>5, LockKept
<1> QED BY <1>1, <1>3, <1>6

(* A step of one handler on one payment keeps Coherent when it keeps the   *)
(* three parts for that payment.                                           *)
LEMMA HandlerGood ==
  ASSUME TypeOK, Coherent, NEW r \in Request, NEW p \in Payment,
         OnlyHandler(r), OnlyPayment(p), Gone(r) \/ target'[r] = p,
         Basics(p)', Counts(p)', Lock(p)', pc'[r] = "idle" => target'[r] = NoPayment
  PROVE  Coherent'
<1>1. Resting'
  BY CoherentParts DEF Resting, OnlyHandler, SameMemory
<1>2. ASSUME NEW q \in Payment, q # p PROVE Basics(q)' /\ Counts(q)' /\ Lock(q)'
  <2>1. \A s \in Request : target'[s] = q => SameMemory(s)
    BY <1>2, NullAssumption DEF OnlyHandler, Gone
  <2> QED BY <1>2, <2>1, CoherentParts, OthersGood DEF OnlyPayment
<1> QED BY <1>1, <1>2, CoherentParts

(* A step of Stripe on one payment keeps Coherent when it keeps the three  *)
(* parts for that payment.                                                 *)
LEMMA StripeGood ==
  ASSUME TypeOK, Coherent, NEW p \in Payment, OnlyPayment(p),
         \A s \in Request : SameMemory(s), Basics(p)', Counts(p)', Lock(p)'
  PROVE  Coherent'
<1>1. Resting' BY CoherentParts DEF Resting, SameMemory
<1>2. ASSUME NEW q \in Payment, q # p PROVE Basics(q)' /\ Counts(q)' /\ Lock(q)'
  BY <1>2, CoherentParts, OthersGood DEF OnlyPayment
<1> QED BY <1>1, <1>2, CoherentParts

(* What is known of the payment a handler works on.                        *)
LEMMA WorksOn ==
  ASSUME TypeOK, Coherent, NEW r \in Request, pc[r] # "idle"
  PROVE  \E p \in Payment :
           /\ p = target[r] /\ Basics(p) /\ Counts(p) /\ Lock(p) /\ HandlerBasics(r, p)
           /\ ent[r] \in Row /\ row[p] \in Row
           /\ command[r].op # "create" => command[r] \in Command
<1>1. target[r] \in Payment /\ ent[r] \in Row BY DEF TypeOK
<1>2. row[target[r]] \in Row BY <1>1 DEF TypeOK
<1>3. Basics(target[r]) /\ Counts(target[r]) /\ Lock(target[r]) BY <1>1, CoherentParts
<1>4. command[r].op # "create" => command[r] \in Command BY TypeHalves, CommandIs
<1> QED BY <1>1, <1>2, <1>3, <1>4 DEF Basics

(* A handler outside a split, working on a payment whose row stays.        *)
LEMMA OutsiderGood ==
  ASSUME TypeOK, Coherent, NEW r \in Request, NEW p \in Payment, p = target[r],
         Basics(p), Counts(p), Lock(p), OnlyHandler(r), OnlyPayment(p),
         Gone(r) \/ (target'[r] = p /\ pc'[r] # "idle"), command'[r].op # "split" \/ Gone(r),
         row'[p] = row[p], p \in cut' <=> p \in cut, Advances(p), MovedOnce(p)',
         command[r].op # "split" \/ pc[r] = "capture",
         sent'[p] = sent[p] /\ ledger'[p] = ledger[p],
         Locked(p) => refunded'[p] = refunded[p],
         target'[r] = p => HandlerBasics(r, p)' /\ (Locked(p) => NotOver(ent'[r]))
  PROVE  Coherent'
<1>1. Gone(r) => target'[r] # p BY NullAssumption DEF Gone
<1>2. \A s \in Request : target'[s] = p => SameMemory(s) \/ HandlerBasics(s, p)'
  BY DEF OnlyHandler
<1>3. Basics(p)' BY <1>2, BasicsKept
<1>4. target'[r] = p => ~WillSplit(r) BY <1>1 DEF Splitting, WillSplit
<1>5. Counts(p)'
  <2>1. \A s \in Request : target'[s] = p /\ Splitting(s)' => SameMemory(s)
    BY <1>4 DEF OnlyHandler, WillSplit
  <2> QED BY <2>1, CountsKept
<1>6. Locked(p) => Uncompleted(p) BY DEF Locked, Lock
<1>7. Lock(p)'
  <2>1. /\ Locked(p) => stripe'[p] = "captured" /\ refunded'[p] = 0
        /\ Locked(p) => NotOver(row'[p])
    BY <1>6 DEF Uncompleted, Advances, NotOver
  <2>2. ASSUME NEW s \in Request, target'[s] = p
        PROVE  \/ SameMemory(s)
               \/ ~WillSplit(s) /\ (Locked(p) => NotOver(ent'[s]))
    BY <1>4, <2>2 DEF OnlyHandler
  <2> QED BY <2>1, <2>2, LockKept
<1> QED BY <1>3, <1>5, <1>7, HandlerGood DEF Gone

(* Cancelling at Stripe keeps Coherent.                                    *)
LEMMA CancelGood ==
  ASSUME TypeOK, Coherent, NEW r \in Request, CancelIntent(r)
  PROVE  Coherent'
<1>1. pc[r] = "cancel" BY DEF CancelIntent
<1>2. PICK p \in Payment :
        /\ p = target[r] /\ Basics(p) /\ Counts(p) /\ Lock(p) /\ HandlerBasics(r, p)
        /\ ent[r] \in Row /\ row[p] \in Row
        /\ command[r].op # "create" => command[r] \in Command
  BY <1>1, WorksOn
<1>3. /\ command[r].op \in {"fail", "refund", "refundHalf"} /\ ent[r].intent
      /\ command[r] \in Command
  BY <1>1, <1>2 DEF HandlerBasics, StepFits, Returning
<1>4. PICK x \in Outcomes(Cancellable(p)) :
        /\ stripe' = IF x.done THEN [stripe EXCEPT ![p] = "cancelled"] ELSE stripe
        /\ IF x.heard \/ command[r].op = "fail"
           THEN /\ ent' = [ent EXCEPT ![r] = AfterCommand(command[r], ent[r])]
                /\ GoTo(r, "select") /\ UNCHANGED <<base, role, purse>>
           ELSE Finish(r)
        /\ astray' = IF x.heard THEN astray ELSE astray \cup {p}
  BY <1>2 DEF CancelIntent
<1>5. UNCHANGED <<tables, refunded, sent, overlapped, cut>> BY DEF CancelIntent
<1>6. /\ x.done => stripe[p] \in {"created", "authorized"} /\ stripe'[p] = "cancelled"
      /\ ~x.done => stripe'[p] = stripe[p]
      /\ x.heard => x.done
      /\ ~x.heard => p \in astray'
      /\ p \in astray => p \in astray'
  BY <1>4 DEF Outcomes, Cancellable, TypeOK
<1>7. OnlyPayment(p)
  BY <1>4, <1>5 DEF OnlyPayment, SameStore, tables, TypeOK
<1>8. /\ row'[p] = row[p] /\ sent'[p] = sent[p] /\ ledger'[p] = ledger[p]
      /\ refunded'[p] = refunded[p] /\ cut' = cut
  BY <1>5 DEF tables
<1>9. Advances(p) BY <1>6, <1>8 DEF Advances, Money
<1>10. MovedOnce(p)' BY <1>2, <1>6, <1>8 DEF Counts, MovedOnce
<1>11. CASE ~(x.heard \/ command[r].op = "fail")
  <2>1. OnlyHandler(r) /\ Gone(r) BY <1>4, <1>11, FinishShape
  <2>2. target'[r] # p BY <2>1, NullAssumption DEF Gone
  <2> QED BY <1>2, <1>3, <1>7, <1>8, <1>9, <1>10, <2>1, <2>2, OutsiderGood
<1>12. CASE x.heard \/ command[r].op = "fail"
  <2>1. PICK e : e = AfterCommand(command[r], ent[r]) OBVIOUS
  <2>2. e \in Row /\ Ends(command[r], ent[r], e) BY <1>2, <1>3, <2>1, AfterCommandEnds
  <2>3. OnlyHandler(r) /\ GoesOn(r, "select", e) BY <1>4, <1>12, <2>1, GoToShape
  <2>4. e # Absent /\ (e.intent <=> stripe'[p] # "none")
    BY <1>2, <1>3, <1>9, <2>2, AbsentIs DEF Ends, HandlerBasics, Advances
  <2>5. Backed(p, e)'
    <3>1. e.status \in {"FAILED", "REFUNDED"} /\ (e.status = "REFUNDED" => x.heard)
      BY <1>3, <1>12, <2>2 DEF Ends
    <3>2. e.status = "FAILED" => stripe'[p] = "cancelled" \/ p \in astray'
      BY <1>6
    <3>3. e.status = "REFUNDED" => Money(p)' = "returned"
      BY <1>6, <3>1 DEF Money
    <3>4. \A y \in e.transfers : sent'[p][y] > 0
      BY <1>2, <1>8, <2>2 DEF Ends, HandlerBasics, Backed
    <3> QED BY <3>1, <3>2, <3>3, <3>4 DEF Backed
  <2>6. HandlerBasics(r, p)'
    <3>1. StepFits(r)' BY <1>3, <2>3 DEF GoesOn, StepFits, SplitStep
    <3> QED BY <2>3, <2>4, <2>5, <3>1 DEF HandlerBasics, GoesOn
  <2>7. Locked(p) => NotOver(e)
    <3>1. Locked(p) => stripe[p] = "captured" BY <1>2 DEF Locked, Lock, Uncompleted
    <3> QED BY <1>3, <1>6, <1>12, <2>2, <3>1 DEF Ends, NotOver
  <2>8. command'[r].op # "split" /\ target'[r] = p /\ pc'[r] # "idle" /\ ent'[r] = e
    BY <1>2, <1>3, <2>3 DEF GoesOn
  <2> QED BY <1>2, <1>3, <1>7, <1>8, <1>9, <1>10, <2>3, <2>6, <2>7, <2>8, OutsiderGood
<1> QED BY <1>11, <1>12

(* Refunding at Stripe keeps Coherent.                                     *)
LEMMA RefundGood ==
  ASSUME TypeOK, Coherent, NEW r \in Request, RefundIntent(r)
  PROVE  Coherent'
<1>1. pc[r] = "refund" BY DEF RefundIntent
<1>2. PICK p \in Payment :
        /\ p = target[r] /\ Basics(p) /\ Counts(p) /\ Lock(p) /\ HandlerBasics(r, p)
        /\ ent[r] \in Row /\ row[p] \in Row
        /\ command[r].op # "create" => command[r] \in Command
  BY <1>1, WorksOn
<1>3. /\ command[r].op \in {"refund", "refundHalf"} /\ ent[r].intent
      /\ ent[r].status = "COMPLETED" /\ command[r] \in Command /\ stripe[p] = "captured"
  BY <1>1, <1>2 DEF HandlerBasics, StepFits, Backed
<1>4. PICK x \in Outcomes(Refundable(p)) :
        /\ refunded' = IF ~x.done THEN refunded
                       ELSE IF command[r].op = "refund" THEN [refunded EXCEPT ![p] = 2]
                            ELSE [refunded EXCEPT ![p] = @ + 1]
        /\ IF x.heard
           THEN /\ ent' = [ent EXCEPT ![r] = AfterCommand(command[r], ent[r])]
                /\ GoTo(r, "select") /\ UNCHANGED <<base, role, purse>>
           ELSE Finish(r)
        /\ astray' = IF x.heard THEN astray ELSE astray \cup {p}
  BY <1>2 DEF RefundIntent
<1>5. UNCHANGED <<tables, stripe, sent, overlapped, cut>> BY DEF RefundIntent
<1>6. /\ x.done => refunded'[p] > 0
      /\ ~x.done => refunded'[p] = refunded[p]
      /\ x.heard => x.done
      /\ p \in astray => p \in astray'
      /\ refunded'[p] >= refunded[p]
      /\ \A q \in Payment : q # p => refunded'[q] = refunded[q]
  <2>1. PICK k : k = refunded[p] + 1 OBVIOUS
  <2>2. refunded[p] \in 0..2 /\ k > 0 /\ k >= refunded[p] BY <2>1 DEF TypeOK
  <2>3. \/ ~x.done /\ refunded' = refunded
        \/ x.done /\ refunded' = [refunded EXCEPT ![p] = 2]
        \/ x.done /\ refunded' = [refunded EXCEPT ![p] = k]
    BY <1>4, <2>1
  <2> QED BY <1>4, <2>2, <2>3 DEF Outcomes, TypeOK
<1>7. OnlyPayment(p)
  BY <1>4, <1>5, <1>6 DEF OnlyPayment, SameStore, tables
<1>8. /\ row'[p] = row[p] /\ sent'[p] = sent[p] /\ ledger'[p] = ledger[p]
      /\ stripe'[p] = stripe[p] /\ cut' = cut
  BY <1>5 DEF tables
<1>9. Advances(p)
  <2>1. refunded[p] \in 0..2 BY DEF TypeOK
  <2>2. refunded[p] # 0 => refunded'[p] # 0 BY <1>6, <2>1
  <2> QED BY <1>3, <1>6, <1>8, <2>2 DEF Advances, Money
<1>10. MovedOnce(p)' BY <1>2, <1>3, <1>8 DEF Counts, MovedOnce
<1>11. ~Locked(p)
  <2>1. ~Splitting(r) BY <1>3 DEF Splitting
  <2>2. Locked(p) => Uncompleted(p) BY <1>2 DEF Locked, Lock
  <2> QED BY <1>2, <1>3, <2>1, <2>2 DEF Uncompleted
<1>12. CASE ~x.heard
  <2>1. OnlyHandler(r) /\ Gone(r) BY <1>4, <1>12, FinishShape
  <2>2. target'[r] # p BY <2>1, NullAssumption DEF Gone
  <2> QED BY <1>2, <1>3, <1>7, <1>8, <1>9, <1>10, <1>11, <2>1, <2>2, OutsiderGood
<1>13. CASE x.heard
  <2>1. PICK e : e = AfterCommand(command[r], ent[r]) OBVIOUS
  <2>2. e \in Row /\ Ends(command[r], ent[r], e) BY <1>2, <1>3, <2>1, AfterCommandEnds
  <2>3. OnlyHandler(r) /\ GoesOn(r, "select", e) BY <1>4, <1>13, <2>1, GoToShape
  <2>4. e # Absent /\ (e.intent <=> stripe'[p] # "none")
    BY <1>2, <1>3, <1>9, <2>2, AbsentIs DEF Ends, HandlerBasics, Advances
  <2>5. Backed(p, e)'
    <3>1. e.status = "REFUNDED" /\ e.transfers = ent[r].transfers BY <1>3, <2>2 DEF Ends
    <3>2. Money(p)' = "returned"
      <4>1. refunded'[p] > 0 /\ stripe'[p] = "captured" BY <1>3, <1>6, <1>8, <1>13
      <4> QED BY <4>1 DEF Money
    <3>3. \A y \in e.transfers : sent'[p][y] > 0
      BY <1>2, <1>8, <3>1 DEF HandlerBasics, Backed
    <3> QED BY <3>1, <3>2, <3>3 DEF Backed
  <2>6. HandlerBasics(r, p)'
    <3>1. StepFits(r)' BY <1>3, <2>3 DEF GoesOn, StepFits, SplitStep
    <3> QED BY <2>3, <2>4, <2>5, <3>1 DEF HandlerBasics, GoesOn
  <2>7. command'[r].op # "split" /\ target'[r] = p /\ pc'[r] # "idle"
    BY <1>2, <1>3, <2>3 DEF GoesOn
  <2> QED BY <1>2, <1>3, <1>7, <1>8, <1>9, <1>10, <1>11, <2>3, <2>6, <2>7, OutsiderGood
<1> QED BY <1>12, <1>13

(* The handler that holds the payment goes on.                             *)
LEMMA SplitGoesOn ==
  ASSUME TypeOK, Coherent, NEW r \in Request, NEW p \in Payment, p = target[r],
         Basics(p), Counts(p), Lock(p), OnlyHandler(r), OnlyPayment(p),
         Splitting(r), target'[r] = p, pc'[r] # "idle", row'[p] = row[p],
         p \in cut' <=> p \in cut, stripe'[p] = stripe[p], refunded'[p] = refunded[p],
         Advances(p), MovedOnce(p)', HandlerBasics(r, p)', Splitting(r)', Progress(r, p)'
  PROVE  Coherent'
<1>1. \A s \in Request : target'[s] = p => SameMemory(s) \/ HandlerBasics(s, p)'
  BY DEF OnlyHandler
<1>2. Basics(p)' BY <1>1, BasicsKept
<1>3. Counts(p)'
  <2>1. ASSUME NEW s \in Request, target'[s] = p, Splitting(s)', s # r PROVE FALSE
    <3>1. target[s] = p /\ Splitting(s) BY <2>1, SameFits DEF OnlyHandler, SameMemory
    <3> QED BY <2>1, <3>1 DEF Lock
  <2> QED BY <2>1, CountsKept
<1>4. Uncompleted(p) BY DEF Lock
<1>5. Lock(p)'
  <2>1. stripe'[p] = "captured" /\ refunded'[p] = 0 /\ NotOver(row'[p])
    BY <1>4 DEF Uncompleted, NotOver
  <2>2. ASSUME NEW s \in Request, target'[s] = p
        PROVE  SameMemory(s) \/ (s = r /\ WillSplit(s))
    BY <2>2 DEF OnlyHandler, WillSplit
  <2> QED BY <2>1, <2>2, LockKept
<1> QED BY <1>2, <1>3, <1>5, HandlerGood

(* The handler that holds the payment is gone without saving it: nobody    *)
(* will hold it again.                                                     *)
LEMMA SplitCut ==
  ASSUME TypeOK, Coherent, NEW r \in Request, NEW p \in Payment, p = target[r],
         Basics(p), Counts(p), Lock(p), OnlyHandler(r), OnlyPayment(p),
         Splitting(r), Gone(r), row'[p] = row[p], p \in cut',
         stripe'[p] = stripe[p], refunded'[p] = refunded[p], Advances(p), MovedOnce(p)'
  PROVE  Coherent'
<1>1. target'[r] # p BY NullAssumption DEF Gone
<1>2. \A s \in Request : target'[s] = p => SameMemory(s) BY <1>1 DEF OnlyHandler
<1>3. Basics(p)' BY <1>2, BasicsKept
<1>4. ASSUME NEW s \in Request, target'[s] = p
      PROVE  ~Splitting(s)' /\ NotOver(ent'[s])
  <2>1. s # r /\ SameMemory(s) /\ target[s] = p BY <1>1, <1>2, <1>4 DEF SameMemory
  <2>2. ~Splitting(s) BY <2>1 DEF Lock
  <2>3. NotOver(ent[s]) BY <2>1, <2>2 DEF Lock, Uncompleted, NotOver
  <2> QED BY <2>1, <2>2, <2>3, SameFits DEF SameMemory
<1>5. Counts(p)' BY <1>4 DEF Counts
<1>6. Uncompleted(p)'
  <2>1. Uncompleted(p) BY DEF Lock
  <2> QED BY <1>4, <2>1 DEF Uncompleted, NotOver
<1>7. Lock(p)' BY <1>4, <1>6 DEF Lock
<1> QED BY <1>3, <1>5, <1>7, HandlerGood DEF Gone

(* A handler that saves: the row is backed, and does not end a payment     *)
(* another handler holds.                                                  *)
LEMMA SaverGood ==
  ASSUME TypeOK, Coherent, NEW r \in Request, NEW p \in Payment, p = target[r],
         Basics(p), Counts(p), Lock(p), OnlyHandler(r), OnlyPayment(p), Gone(r),
         row'[p] # Absent => (row'[p].intent <=> stripe'[p] # "none"), Backed(p, row[p])',
         p \in cut' <=> p \in cut, stripe'[p] = stripe[p], refunded'[p] = refunded[p],
         sent'[p] = sent[p], ledger'[p] = ledger[p], p \in astray' <=> p \in astray,
         Locked(p) /\ ~Splitting(r) => NotOver(row'[p])
  PROVE  Coherent'
<1>1. target'[r] # p BY NullAssumption DEF Gone
<1>2. \A s \in Request : target'[s] = p => SameMemory(s) /\ s # r
  BY <1>1 DEF OnlyHandler
<1>3. Advances(p) BY DEF Advances, Money
<1>4. Basics(p)' BY <1>2, <1>3, BasicsKept
<1>5. MovedOnce(p)' BY DEF Counts, MovedOnce
<1>6. Counts(p)' BY <1>2, <1>5, CountsKept
<1>7. Locked(p) => Uncompleted(p) BY DEF Locked, Lock
<1>8. Locked(p) => stripe'[p] = "captured" /\ refunded'[p] = 0 BY <1>7 DEF Uncompleted
<1>9. CASE ~Splitting(r)
  <2>1. Locked(p) => NotOver(row'[p]) BY <1>9
  <2>2. Lock(p)' BY <1>2, <1>8, <2>1, LockKept
  <2> QED BY <1>4, <1>6, <2>2, HandlerGood DEF Gone
<1>10. CASE Splitting(r)
  <2>1. p \notin cut' BY <1>10 DEF Lock
  <2>2. ASSUME NEW s \in Request, target'[s] = p PROVE ~Splitting(s)'
    <3>1. SameMemory(s) /\ s # r /\ target[s] = p BY <1>2, <2>2 DEF SameMemory
    <3>2. ~Splitting(s) BY <1>10, <3>1 DEF Lock
    <3> QED BY <3>1, <3>2, SameFits
  <2>3. Lock(p)' BY <2>1, <2>2 DEF Lock
  <2> QED BY <1>4, <1>6, <2>3, HandlerGood DEF Gone
<1> QED BY <1>9, <1>10

(* Capturing at Stripe keeps Coherent: Stripe captures once, so one handler*)
(* at most holds the payment.                                              *)
LEMMA CaptureGood ==
  ASSUME TypeOK, Coherent, NEW r \in Request, Capture(r)
  PROVE  Coherent'
<1>1. pc[r] = "capture" BY DEF Capture
<1>2. PICK p \in Payment :
        /\ p = target[r] /\ Basics(p) /\ Counts(p) /\ Lock(p) /\ HandlerBasics(r, p)
        /\ ent[r] \in Row /\ row[p] \in Row
  BY <1>1, WorksOn
<1>3. command[r].op = "split" /\ ent[r].intent /\ ~Splitting(r)
  BY <1>1, <1>2 DEF HandlerBasics, StepFits, Splitting
<1>4. PICK x \in Outcomes(Capturable(p)) :
        /\ stripe' = IF x.done THEN [stripe EXCEPT ![p] = "captured"] ELSE stripe
        /\ IF x.heard THEN GoTo(r, "transfer") /\ UNCHANGED memory ELSE Finish(r)
        /\ cut' = IF x.done /\ ~x.heard THEN cut \cup {p} ELSE cut
  BY <1>2 DEF Capture
<1>5. UNCHANGED <<tables, refunded, sent, overlapped, astray>> BY DEF Capture
<1>6. /\ x.done => stripe[p] = "authorized" /\ stripe'[p] = "captured"
      /\ ~x.done => stripe' = stripe
      /\ x.heard => x.done
  BY <1>4 DEF Outcomes, Capturable, TypeOK
<1>7. OnlyPayment(p) BY <1>4, <1>5 DEF OnlyPayment, SameStore, tables, TypeOK
<1>8. /\ row'[p] = row[p] /\ sent'[p] = sent[p] /\ ledger'[p] = ledger[p]
      /\ refunded'[p] = refunded[p] /\ astray' = astray
  BY <1>5 DEF tables
<1>9. Advances(p) BY <1>6, <1>8 DEF Advances, Money
<1>10. MovedOnce(p)' BY <1>2, <1>6, <1>8 DEF Counts, MovedOnce
<1>11. CASE ~x.done
  <2>1. OnlyHandler(r) /\ Gone(r) /\ cut' = cut BY <1>4, <1>6, <1>11, FinishShape
  <2>2. target'[r] # p BY <2>1, NullAssumption DEF Gone
  <2> QED BY <1>1, <1>2, <1>7, <1>8, <1>9, <1>10, <2>1, <2>2, OutsiderGood
<1>12. CASE x.done
  <2>1. ~Locked(p)
    <3>1. Locked(p) => Uncompleted(p) BY <1>2 DEF Locked, Lock
    <3> QED BY <1>6, <1>12, <3>1 DEF Uncompleted
  <2>2. stripe[p] = "authorized" /\ stripe'[p] = "captured" /\ OnlyHandler(r)
    BY <1>4, <1>6, <1>12, FinishShape, KeepShape DEF memory
  <2>3. NotOver(row'[p]) /\ refunded'[p] = 0
    <3>1. Money(p) = "held" BY <2>2 DEF Money
    <3>2. row[p] # Absent => row[p].intent /\ Backed(p, row[p])
      BY <1>2, <2>2 DEF Basics
    <3>3. NotOver(row[p]) BY <2>2, <3>1, <3>2, AbsentIs DEF Backed, NotOver
    <3>4. refunded[p] = 0
      <4>1. refunded[p] \in 0..2 BY DEF TypeOK
      <4> QED BY <1>2, <2>2, <4>1 DEF Counts, MovedOnce
    <3> QED BY <1>8, <3>3, <3>4
  <2>4. ASSUME NEW s \in Request, target[s] = p
        PROVE  NotOver(ent[s]) /\ ~Splitting(s)
    <3>1. Money(p) = "held" BY <2>2 DEF Money
    <3>2. ent[s].intent /\ Backed(p, ent[s]) BY <1>2, <2>2, <2>4 DEF Basics, HandlerBasics
    <3> QED BY <2>1, <2>2, <2>4, <3>1, <3>2 DEF Backed, NotOver, Locked
  <2>5. CASE x.heard
    <3>1. GoesOn(r, "transfer", ent[r]) /\ cut' = cut BY <1>4, <2>5, KeepShape DEF memory
    <3>2. /\ target'[r] = p /\ pc'[r] = "transfer" /\ command'[r] = command[r]
          /\ ent'[r] = ent[r]
      BY <1>2, <3>1 DEF GoesOn
    <3>3. PICK e \in Row : e = ent[r] BY <1>2
    <3>4. Backed(p, e)' BY <1>2, <1>9, <3>3, BackedStays DEF HandlerBasics
    <3>5. StepFits(r)' BY <1>3, <3>2 DEF StepFits, SplitStep
    <3>6. HandlerBasics(r, p)'
      BY <1>2, <1>9, <3>2, <3>3, <3>4, <3>5 DEF HandlerBasics, Advances
    <3>7. \A s \in Request : target'[s] = p => SameMemory(s) \/ HandlerBasics(s, p)'
      BY <2>2, <3>6 DEF OnlyHandler
    <3>8. Basics(p)' BY <1>2, <1>8, <1>9, <3>7, BasicsKept
    <3>9. ASSUME NEW s \in Request, target'[s] = p, s # r
          PROVE  NotOver(ent'[s]) /\ ~Splitting(s)'
      <4>1. SameMemory(s) BY <2>2, <3>9 DEF OnlyHandler
      <4>2. target[s] = p BY <3>9, <4>1 DEF SameMemory
      <4> QED BY <2>4, <4>1, <4>2, SameFits DEF SameMemory
    <3>10. Splitting(r)' BY <1>3, <3>2 DEF Splitting
    <3>11. Progress(r, p)'
      BY <1>2, <1>8, <2>2, <3>2 DEF Progress, Counts, MovedOnce, Role
    <3>12. Counts(p)' BY <1>10, <3>9, <3>11 DEF Counts
    <3>13. Uncompleted(p)'
      BY <2>2, <2>3, <3>9, <3>10 DEF Uncompleted, NotOver
    <3>14. p \notin cut' BY <2>1, <3>1 DEF Locked
    <3>15. Lock(p)' BY <3>9, <3>13, <3>14 DEF Lock
    <3> QED BY <1>7, <2>2, <3>2, <3>8, <3>12, <3>15, HandlerGood
  <2>6. CASE ~x.heard
    <3>1. Gone(r) /\ cut' = cut \cup {p} BY <1>4, <1>12, <2>6, FinishShape
    <3>2. target'[r] # p BY <3>1, NullAssumption DEF Gone
    <3>3. \A s \in Request : target'[s] = p => SameMemory(s)
      BY <2>2, <3>2 DEF OnlyHandler
    <3>4. Basics(p)' BY <1>2, <1>8, <1>9, <3>3, BasicsKept
    <3>5. ASSUME NEW s \in Request, target'[s] = p
          PROVE  NotOver(ent'[s]) /\ ~Splitting(s)'
      <4>1. SameMemory(s) /\ target[s] = p BY <3>3, <3>5 DEF SameMemory
      <4> QED BY <2>4, <4>1, SameFits DEF SameMemory
    <3>6. Counts(p)' BY <1>10, <3>5 DEF Counts
    <3>7. Uncompleted(p)' BY <2>2, <2>3, <3>5 DEF Uncompleted, NotOver
    <3>8. Lock(p)' BY <3>5, <3>7 DEF Lock
    <3> QED BY <1>7, <2>2, <3>1, <3>4, <3>6, <3>8, HandlerGood DEF Gone
  <2> QED BY <2>5, <2>6
<1> QED BY <1>11, <1>12

(* Transferring a share at Stripe keeps Coherent.                          *)
LEMMA TransferGood ==
  ASSUME TypeOK, Coherent, NEW r \in Request, Transfer(r)
  PROVE  Coherent'
<1>1. pc[r] = "transfer" BY DEF Transfer
<1>2. PICK p \in Payment :
        /\ p = target[r] /\ Basics(p) /\ Counts(p) /\ Lock(p) /\ HandlerBasics(r, p)
        /\ ent[r] \in Row /\ row[p] \in Row
  BY <1>1, WorksOn
<1>3. command[r].op = "split" /\ ent[r].intent /\ Splitting(r) /\ stripe[p] = "captured"
  <2>1. command[r].op = "split" /\ ent[r].intent
    BY <1>1, <1>2 DEF HandlerBasics, StepFits, SplitStep
  <2>2. Splitting(r) BY <1>1, <2>1 DEF Splitting
  <2> QED BY <1>2, <2>1, <2>2 DEF Lock, Uncompleted
<1>4. Progress(r, p) BY <1>2, <1>3 DEF Counts
<1>5. UNCHANGED <<tables, stripe, refunded, base, purse, history>> BY DEF Transfer
<1>6. PICK x \in [done : BOOLEAN, heard : BOOLEAN] :
        /\ x.heard => x.done
        /\ sent' = IF x.done THEN [sent EXCEPT ![p][role[r]] = @ + 1] ELSE sent
        /\ ent' = IF x.heard THEN [ent EXCEPT ![r].transfers = @ \cup {role[r]}] ELSE ent
  BY <1>2 DEF Transfer, Outcomes
<1>7. role[r] \in Role /\ sent[p][role[r]] = 0
  <2>1. role[r] \in Role BY DEF TypeOK
  <2> QED BY <1>1, <1>4, <2>1 DEF Progress, Role
<1>8. /\ \A q \in Payment : q # p => sent'[q] = sent[q]
      /\ \A y \in Role : y # role[r] => sent'[p][y] = sent[p][y]
      /\ sent'[p][role[r]] = IF x.done THEN 1 ELSE 0
  <2>1. PICK k : k = sent[p][role[r]] + 1 OBVIOUS
  <2>2. k = 1 BY <1>7, <2>1
  <2>3. sent' = IF x.done THEN [sent EXCEPT ![p][role[r]] = k] ELSE sent
    BY <1>6, <2>1
  <2>4. sent \in [Payment -> [Role -> Nat]] BY DEF TypeOK
  <2> QED BY <1>7, <2>2, <2>3, <2>4
<1>9. PICK e : /\ ent' = [ent EXCEPT ![r] = e] /\ e \in Row /\ e.intent = ent[r].intent
               /\ e.status = ent[r].status
               /\ e.transfers = IF x.heard THEN ent[r].transfers \cup {role[r]}
                                ELSE ent[r].transfers
  <2>1. PICK t \in SUBSET Role :
          t = IF x.heard THEN ent[r].transfers \cup {role[r]} ELSE ent[r].transfers
    BY <1>2, <1>7 DEF Row
  <2>2. PICK f : f = [ent[r] EXCEPT !.transfers = t] OBVIOUS
  <2>3. /\ f \in Row /\ f.intent = ent[r].intent /\ f.status = ent[r].status
        /\ f.transfers = t
    BY <1>2, <2>2 DEF Row
  <2>4. ~x.heard => f = ent[r] BY <1>2, <2>1, <2>2 DEF Row
  <2>5. ent' = [ent EXCEPT ![r] = f]
    <3>1. CASE x.heard BY <1>6, <2>1, <2>2, <3>1
    <3>2. CASE ~x.heard BY <1>6, <2>4, <3>2 DEF TypeOK
    <3> QED BY <3>1, <3>2
  <2> QED BY <2>1, <2>3, <2>5
<1>10. PICK step \in {"transfer", "findWallet"} :
        /\ GoTo(r, step)
        /\ IF role[r] = "merchant"
           THEN step = "transfer" /\ role' = [role EXCEPT ![r] = "driver"]
           ELSE step = "findWallet" /\ role' = [role EXCEPT ![r] = "merchant"]
  BY DEF Transfer
<1>11. OnlyHandler(r) /\ GoesOn(r, step, e) BY <1>5, <1>9, <1>10, GoToShape
<1>12. /\ target'[r] = p /\ command'[r] = command[r] /\ pc'[r] = step /\ ent'[r] = e
       /\ role'[r] = IF role[r] = "merchant" THEN "driver" ELSE "merchant"
  BY <1>2, <1>10, <1>11 DEF GoesOn, TypeOK
<1>13. OnlyPayment(p) BY <1>5, <1>8 DEF OnlyPayment, SameStore, tables, history
<1>14. /\ row'[p] = row[p] /\ stripe'[p] = stripe[p] /\ refunded'[p] = refunded[p]
       /\ ledger'[p] = ledger[p] /\ cut' = cut /\ astray' = astray
  BY <1>5 DEF tables, history
<1>15. \A y \in Role : sent[p][y] > 0 => sent'[p][y] > 0 BY <1>7, <1>8
<1>16. Advances(p) BY <1>14, <1>15 DEF Advances, Money
<1>17. MovedOnce(p)' BY <1>2, <1>3, <1>8, <1>14 DEF Counts, MovedOnce
<1>18. Progress(r, p)'
  BY <1>1, <1>4, <1>7, <1>8, <1>10, <1>12, <1>14 DEF Progress, Role, SplitStep
<1>19. HandlerBasics(r, p)'
  <2>2. \A y \in e.transfers : sent'[p][y] > 0
    <3>1. \A y \in ent[r].transfers : y \in Role /\ sent[p][y] > 0
      BY <1>2 DEF HandlerBasics, Backed, Row
    <3> QED BY <1>6, <1>8, <1>9, <1>15, <3>1
  <2>3. PICK f \in Row : f = ent[r] BY <1>2
  <2>4. Backed(p, f)' BY <1>2, <1>16, <2>3, BackedStays DEF HandlerBasics
  <2>5. Backed(p, e)' BY <1>9, <2>2, <2>3, <2>4 DEF Backed
  <2>6. StepFits(r)' BY <1>3, <1>9, <1>12 DEF StepFits, SplitStep
  <2>7. e # Absent BY <1>3, <1>9, AbsentIs
  <2> QED BY <1>2, <1>9, <1>12, <1>14, <2>5, <2>6, <2>7 DEF HandlerBasics
<1>20. Splitting(r)' BY <1>3, <1>12 DEF Splitting
<1> QED BY <1>2, <1>3, <1>12, <1>11, <1>13, <1>14, <1>16, <1>17, <1>18, <1>19, <1>20,
           SplitGoesOn

(* What a split does after a credit: the courier's credit, the save, or    *)
(* nothing more because the payment in memory is not HELD.                 *)
NextMove(r) ==
  \/ /\ GoesOn(r, "findWallet", ent[r]) /\ cut' = cut
     /\ role[r] = "merchant" /\ role'[r] = "driver"
  \/ /\ GoesOn(r, "select", AfterCommand(command[r], ent[r])) /\ cut' = cut
     /\ ent[r].status = "HELD"
  \/ Gone(r) /\ cut' = cut \cup {target[r]}

Stays(r) ==
  /\ \E step \in CreditStep : GoesOn(r, step, ent[r])
  /\ role'[r] = role[r] /\ cut' = cut

(* Going to the courier's share or to the end of the split touches one     *)
(* handler.                                                                *)
LEMMA NextCreditShape ==
  ASSUME TypeOK, NEW r \in Request, NextCredit(r)
  PROVE  OnlyHandler(r) /\ NextMove(r)
<1>1. CASE role[r] = "merchant" /\ ent[r].driver # NoDriver
  <2>1. /\ GoTo(r, "findWallet") /\ role' = [role EXCEPT ![r] = "driver"]
        /\ UNCHANGED <<ent, base, cut>>
    BY <1>1 DEF NextCredit
  <2> QED BY <1>1, <2>1, KeepShape DEF NextMove, TypeOK
<1>2. CASE ~(role[r] = "merchant" /\ ent[r].driver # NoDriver)
  <2>1. CompleteSplit(r) BY <1>2 DEF NextCredit
  <2>2. CASE ent[r].status = "HELD"
    <3>1. /\ GoTo(r, "select") /\ UNCHANGED <<base, role, cut>>
          /\ ent' = [ent EXCEPT ![r] = AfterCommand(command[r], ent[r])]
      BY <2>1, <2>2 DEF CompleteSplit
    <3> QED BY <2>2, <3>1, GoToShape DEF NextMove
  <2>3. CASE ent[r].status # "HELD"
    BY <2>1, <2>3, FinishShape DEF CompleteSplit, NextMove
  <2> QED BY <2>2, <2>3
<1> QED BY <1>1, <1>2

(* A step from one credit statement to the next touches one handler.       *)
LEMMA StaysShape ==
  ASSUME TypeOK, NEW r \in Request, NEW step \in CreditStep, GoTo(r, step),
         UNCHANGED <<ent, base, role, cut>>
  PROVE  OnlyHandler(r) /\ Stays(r)
BY KeepShape DEF Stays

(* Crediting a wallet in memory touches one handler.                       *)
LEMMA CreditPurseShape ==
  ASSUME TypeOK, NEW r \in Request, NEW w, NEW holds, CreditPurse(r, w, holds)
  PROVE  OnlyHandler(r) /\ (NextMove(r) \/ Stays(r))
<1>1. CASE Share(ent[r].amount, role[r]) > 0
  <2>1. GoTo(r, "saveWallet") /\ UNCHANGED <<ent, base, role, cut>>
    BY <1>1 DEF CreditPurse
  <2> QED BY <2>1, StaysShape DEF CreditStep
<1>2. CASE ~(Share(ent[r].amount, role[r]) > 0)
  BY <1>2, NextCreditShape DEF CreditPurse
<1> QED BY <1>1, <1>2

(* A credit keeps everything but the wallets, and at its end the ledger    *)
(* has one entry more.                                                     *)
LEMMA CreditShape ==
  ASSUME TypeOK, NEW r \in Request,
         FindWallet(r) \/ CreateWallet(r) \/ SaveWallet(r) \/ RecordTransaction(r)
  PROVE  /\ pc[r] \in CreditStep /\ OnlyHandler(r)
         /\ UNCHANGED <<row, external, overlapped, astray>>
         /\ \/ ledger' = ledger /\ (NextMove(r) \/ Stays(r))
            \/ /\ ledger' = [ledger EXCEPT ![target[r]][role[r]] = @ + 1]
               /\ NextMove(r)
<1>1. CASE FindWallet(r)
  <2>1. /\ pc[r] = "findWallet" /\ UNCHANGED <<tables, external, overlapped, astray>>
        /\ \/ \E w, h : CreditPurse(r, w, h)
           \/ GoTo(r, "createWallet") /\ UNCHANGED <<memory, cut>>
           \/ NextCredit(r)
    BY <1>1 DEF FindWallet
  <2> QED BY <2>1, CreditPurseShape, StaysShape, NextCreditShape DEF CreditStep, memory,
     tables
<1>2. CASE CreateWallet(r)
  <2>1. /\ pc[r] = "createWallet" /\ UNCHANGED <<row, ledger, external, overlapped, astray>>
        /\ (\E w, h : CreditPurse(r, w, h)) \/ NextCredit(r)
    BY <1>2 DEF CreateWallet
  <2> QED BY <2>1, CreditPurseShape, NextCreditShape DEF CreditStep
<1>3. CASE SaveWallet(r)
  <2>1. /\ pc[r] = "saveWallet" /\ UNCHANGED <<row, ledger, external, overlapped, astray>>
        /\ \/ GoTo(r, "record") /\ UNCHANGED <<memory, cut>>
           \/ NextCredit(r)
    BY <1>3 DEF SaveWallet
  <2> QED BY <2>1, StaysShape, NextCreditShape DEF CreditStep, memory
<1>4. CASE RecordTransaction(r)
  BY <1>4, NextCreditShape DEF RecordTransaction, CreditStep
<1> QED BY <1>1, <1>2, <1>3, <1>4

(* The statements that credit a wallet keep Coherent.                      *)
LEMMA CreditGood ==
  ASSUME TypeOK, Coherent, NEW r \in Request,
         FindWallet(r) \/ CreateWallet(r) \/ SaveWallet(r) \/ RecordTransaction(r)
  PROVE  Coherent'
<1>1. /\ pc[r] \in CreditStep /\ OnlyHandler(r)
      /\ UNCHANGED <<row, external, overlapped, astray>>
      /\ \/ ledger' = ledger /\ (NextMove(r) \/ Stays(r))
         \/ /\ ledger' = [ledger EXCEPT ![target[r]][role[r]] = @ + 1]
            /\ NextMove(r)
  BY CreditShape
<1>2. PICK p \in Payment :
        /\ p = target[r] /\ Basics(p) /\ Counts(p) /\ Lock(p) /\ HandlerBasics(r, p)
        /\ ent[r] \in Row /\ row[p] \in Row
        /\ command[r].op # "create" => command[r] \in Command
  BY <1>1, WorksOn DEF CreditStep
<1>3. /\ command[r].op = "split" /\ ent[r].intent /\ Splitting(r) /\ command[r] \in Command
      /\ stripe[p] = "captured"
  <2>1. command[r].op = "split" /\ ent[r].intent
    BY <1>1, <1>2 DEF HandlerBasics, StepFits, SplitStep, CreditStep
  <2>2. Splitting(r) BY <1>1, <2>1 DEF Splitting, CreditStep
  <2> QED BY <1>2, <2>1, <2>2 DEF Lock, Uncompleted
<1>4. /\ ledger[p]["driver"] = 0 /\ role[r] \in Role
      /\ role[r] = "merchant" => ledger[p]["merchant"] = 0
  <2>1. Progress(r, p) BY <1>2, <1>3 DEF Counts
  <2> QED BY <1>1, <2>1 DEF Progress, SplitStep, CreditStep, TypeOK
<1>5. /\ \A q \in Payment : q # p => ledger'[q] = ledger[q]
      /\ \A x \in Role : x # role[r] => ledger'[p][x] = ledger[p][x]
      /\ ledger'[p][role[r]] <= 1
      /\ Stays(r) /\ ~NextMove(r) => ledger' = ledger
  <2>1. PICK k : k = ledger[p][role[r]] + 1 OBVIOUS
  <2>2. k = 1 /\ ledger[p][role[r]] = 0 BY <1>4, <2>1 DEF Role
  <2>3. ledger' = ledger \/ ledger' = [ledger EXCEPT ![p][role[r]] = k]
    BY <1>1, <1>2, <2>1
  <2>4. ledger \in [Payment -> [Role -> Nat]] BY DEF TypeOK
  <2> QED BY <1>1, <1>4, <2>2, <2>3, <2>4
<1>6. /\ row' = row /\ stripe' = stripe /\ refunded' = refunded /\ sent' = sent
      /\ astray' = astray /\ overlapped' = overlapped
  BY <1>1 DEF external
<1>7. OnlyPayment(p)
  BY <1>1, <1>2, <1>5, <1>6 DEF OnlyPayment, SameStore, NextMove, Stays
<1>8. Advances(p) BY <1>6 DEF Advances, Money
<1>9. MovedOnce(p)'
  BY <1>2, <1>3, <1>4, <1>5, <1>6 DEF Counts, MovedOnce
<1>10. ASSUME NEW e \in Row, Backed(p, e)', e # Absent, e.intent, ent'[r] = e,
              pc'[r] \in CreditStep \cup {"select"}, command'[r] = command[r]
       PROVE  HandlerBasics(r, p)' /\ Splitting(r)'
  <2>1. StepFits(r)' BY <1>3, <1>10 DEF StepFits, SplitStep, CreditStep
  <2>2. Splitting(r)' BY <1>3, <1>10 DEF Splitting, CreditStep
  <2> QED BY <1>2, <1>3, <1>6, <1>10, <2>1, <2>2 DEF HandlerBasics
<1>11. PICK f \in Row : f = ent[r] /\ f # Absent /\ f.intent /\ Backed(p, f)'
  <2>1. PICK f \in Row : f = ent[r] BY <1>2
  <2> QED BY <1>2, <1>3, <1>8, <2>1, BackedStays DEF HandlerBasics
<1>12. CASE Stays(r) /\ ~NextMove(r)
  <2>1. /\ pc'[r] \in CreditStep /\ target'[r] = p /\ command'[r] = command[r]
        /\ ent'[r] = f /\ role'[r] = role[r] /\ cut' = cut /\ ledger' = ledger
    BY <1>2, <1>5, <1>11, <1>12 DEF Stays, GoesOn
  <2>2. HandlerBasics(r, p)' /\ Splitting(r)' BY <1>10, <1>11, <2>1
  <2>3. Progress(r, p)' BY <1>4, <2>1 DEF Progress, CreditStep, SplitStep
  <2>4. pc'[r] # "idle" BY <2>1 DEF CreditStep
  <2> QED BY <1>1, <1>2, <1>3, <1>6, <1>7, <1>8, <1>9, <2>1, <2>2, <2>3, <2>4, SplitGoesOn
<1>13. CASE /\ GoesOn(r, "findWallet", ent[r]) /\ cut' = cut
            /\ role[r] = "merchant" /\ role'[r] = "driver"
  <2>1. /\ pc'[r] = "findWallet" /\ target'[r] = p /\ command'[r] = command[r]
        /\ ent'[r] = f
    BY <1>2, <1>11, <1>13 DEF GoesOn
  <2>2. HandlerBasics(r, p)' /\ Splitting(r)' BY <1>10, <1>11, <2>1 DEF CreditStep
  <2>3. Progress(r, p)' BY <1>4, <1>5, <1>13, <2>1 DEF Progress, SplitStep, Role
  <2> QED BY <1>1, <1>2, <1>3, <1>6, <1>7, <1>8, <1>9, <1>13, <2>1, <2>2, <2>3,
     SplitGoesOn
<1>14. CASE GoesOn(r, "select", AfterCommand(command[r], ent[r])) /\ cut' = cut
  <2>1. PICK e : e = AfterCommand(command[r], ent[r]) OBVIOUS
  <2>2. e \in Row /\ Ends(command[r], ent[r], e) BY <1>2, <1>3, <2>1, AfterCommandEnds
  <2>3. /\ pc'[r] = "select" /\ target'[r] = p /\ command'[r] = command[r] /\ ent'[r] = e
    BY <1>2, <1>14, <2>1 DEF GoesOn
  <2>4. e.status = "COMPLETED" /\ e.intent /\ e.transfers = f.transfers
    BY <1>3, <1>11, <2>2 DEF Ends
  <2>5. Backed(p, e)' BY <1>3, <1>6, <1>11, <2>4 DEF Backed
  <2>6. HandlerBasics(r, p)' /\ Splitting(r)' BY <1>10, <2>2, <2>3, <2>4, <2>5, AbsentIs
  <2>7. Progress(r, p)' BY <2>3 DEF Progress, SplitStep
  <2> QED BY <1>1, <1>2, <1>3, <1>6, <1>7, <1>8, <1>9, <1>14, <2>3, <2>6, <2>7,
     SplitGoesOn
<1>15. CASE Gone(r) /\ cut' = cut \cup {target[r]}
  BY <1>1, <1>2, <1>3, <1>6, <1>7, <1>8, <1>9, <1>15, SplitCut
<1> QED BY <1>1, <1>12, <1>13, <1>14, <1>15 DEF NextMove

(* A request that is cut off keeps Coherent: a split cut short leaves the  *)
(* payment marked.                                                         *)
LEMMA AbortGood ==
  ASSUME TypeOK, Coherent, NEW r \in Request, Abort(r)
  PROVE  Coherent'
<1>1. /\ pc[r] # "idle" /\ Finish(r) /\ UNCHANGED <<tables, external, overlapped>>
      /\ cut' = IF Splitting(r) THEN cut \cup {target[r]} ELSE cut
      /\ astray' \in {astray, astray \cup {target[r]}}
  BY DEF Abort
<1>2. PICK p \in Payment :
        /\ p = target[r] /\ Basics(p) /\ Counts(p) /\ Lock(p) /\ HandlerBasics(r, p)
  BY <1>1, WorksOn
<1>3. OnlyHandler(r) /\ Gone(r) BY <1>1, FinishShape
<1>4. OnlyPayment(p) BY <1>1, <1>2 DEF OnlyPayment, SameStore, tables, external
<1>5. /\ row'[p] = row[p] /\ stripe'[p] = stripe[p] /\ refunded'[p] = refunded[p]
      /\ sent'[p] = sent[p] /\ ledger'[p] = ledger[p] /\ (p \in astray => p \in astray')
  BY <1>1 DEF tables, external
<1>6. Advances(p) BY <1>5 DEF Advances, Money
<1>7. MovedOnce(p)' BY <1>2, <1>5 DEF Counts, MovedOnce
<1>8. CASE Splitting(r)
  BY <1>1, <1>2, <1>3, <1>4, <1>5, <1>6, <1>7, <1>8, SplitCut
<1>9. CASE ~Splitting(r)
  <2>1. command[r].op # "split" \/ pc[r] = "capture" BY <1>1, <1>9 DEF Splitting
  <2>2. target'[r] # p BY <1>3, NullAssumption DEF Gone
  <2> QED BY <1>1, <1>2, <1>3, <1>4, <1>5, <1>6, <1>7, <1>9, <2>1, <2>2, OutsiderGood
<1> QED BY <1>8, <1>9

(* Inserting a payment that is held keeps Coherent.                        *)
LEMMA InsertGood ==
  ASSUME TypeOK, Coherent, NEW r \in Request, InsertHeld(r)
  PROVE  Coherent'
<1>1. /\ pc[r] = "insert" /\ row' = [row EXCEPT ![target[r]] = ent[r]] /\ Finish(r)
      /\ UNCHANGED <<wallet, ledger, external, history>>
  BY DEF InsertHeld
<1>2. PICK p \in Payment :
        /\ p = target[r] /\ Basics(p) /\ Counts(p) /\ Lock(p) /\ HandlerBasics(r, p)
        /\ ent[r] \in Row
  BY <1>1, WorksOn
<1>3. OnlyHandler(r) /\ Gone(r) BY <1>1, FinishShape
<1>4. OnlyPayment(p) BY <1>1, <1>2 DEF OnlyPayment, SameStore, external, history, TypeOK
<1>5. /\ stripe' = stripe /\ refunded' = refunded /\ sent' = sent /\ ledger' = ledger
      /\ cut' = cut /\ astray' = astray /\ row'[p] = ent[r]
  BY <1>1, <1>2 DEF external, history, TypeOK
<1>6. Advances(p) BY <1>5 DEF Advances, Money
<1>7. PICK e \in Row : e = ent[r] BY <1>2
<1>8. Backed(p, e)' BY <1>2, <1>6, <1>7, BackedStays DEF HandlerBasics
<1>9. /\ row'[p] # Absent => (row'[p].intent <=> stripe'[p] # "none")
      /\ Backed(p, row[p])'
  BY <1>2, <1>5, <1>7, <1>8 DEF HandlerBasics
<1>10. ~Splitting(r) BY <1>1, <1>2 DEF HandlerBasics, StepFits, Splitting
<1>11. Locked(p) => NotOver(row'[p])
  <2>1. Locked(p) => Uncompleted(p) BY <1>2 DEF Locked, Lock
  <2> QED BY <1>2, <1>5, <1>10, <2>1 DEF Uncompleted, NotOver
<1> QED BY <1>2, <1>3, <1>4, <1>5, <1>9, <1>11, SaverGood

(* The select of a save keeps Coherent.                                    *)
LEMMA SelectGood ==
  ASSUME TypeOK, Coherent, NEW r \in Request, SaveSelect(r)
  PROVE  Coherent'
<1>1. /\ pc[r] = "select" /\ base' = [base EXCEPT ![r] = row[target[r]]]
      /\ GoTo(r, "update") /\ UNCHANGED <<tables, external, ent, role, purse, history>>
  BY DEF SaveSelect
<1>2. PICK p \in Payment :
        /\ p = target[r] /\ Basics(p) /\ Counts(p) /\ Lock(p) /\ HandlerBasics(r, p)
        /\ ent[r] \in Row
  BY <1>1, WorksOn
<1>3. OnlyHandler(r) /\ GoesOn(r, "update", ent[r])
  <2>1. ent' = [ent EXCEPT ![r] = ent[r]] BY <1>1 DEF TypeOK
  <2> QED BY <1>1, <2>1, GoToShape
<1>4. /\ pc'[r] = "update" /\ target'[r] = p /\ command'[r] = command[r] /\ ent'[r] = ent[r]
  BY <1>2, <1>3 DEF GoesOn
<1>5. /\ row' = row /\ stripe' = stripe /\ refunded' = refunded /\ sent' = sent
      /\ ledger' = ledger /\ cut' = cut /\ astray' = astray /\ overlapped' = overlapped
  BY <1>1 DEF tables, external, history
<1>6. OnlyPayment(p) BY <1>5 DEF OnlyPayment, SameStore
<1>7. Advances(p) BY <1>5 DEF Advances, Money
<1>8. MovedOnce(p)' BY <1>2, <1>5 DEF Counts, MovedOnce
<1>9. PICK e \in Row : e = ent[r] BY <1>2
<1>10. Backed(p, e)' BY <1>2, <1>7, <1>9, BackedStays DEF HandlerBasics
<1>11. StepFits(r)'
  <2>1. command[r].op # "create" BY <1>1, <1>2 DEF HandlerBasics, StepFits
  <2> QED BY <1>4, <2>1 DEF StepFits, SplitStep
<1>12. HandlerBasics(r, p)'
  BY <1>2, <1>4, <1>5, <1>9, <1>10, <1>11 DEF HandlerBasics
<1>13. CASE Splitting(r)
  <2>1. Splitting(r)' BY <1>4, <1>13 DEF Splitting
  <2>2. Progress(r, p)' BY <1>4 DEF Progress, SplitStep
  <2> QED BY <1>2, <1>3, <1>4, <1>5, <1>6, <1>7, <1>8, <1>12, <1>13, <2>1, <2>2,
     SplitGoesOn
<1>14. CASE ~Splitting(r)
  <2>1. command[r].op # "split" BY <1>1, <1>14 DEF Splitting
  <2>2. Locked(p) => NotOver(ent'[r])
    <3>1. Locked(p) => Uncompleted(p) BY <1>2 DEF Locked, Lock
    <3> QED BY <1>2, <1>4, <1>14, <3>1 DEF Uncompleted, NotOver
  <2> QED BY <1>2, <1>3, <1>4, <1>5, <1>6, <1>7, <1>8, <1>12, <2>1, <2>2, OutsiderGood
<1> QED BY <1>13, <1>14

(* The update of a save keeps Coherent.                                    *)
LEMMA UpdateGood ==
  ASSUME TypeOK, Coherent, NEW r \in Request, SaveUpdate(r)
  PROVE  Coherent'
<1>1. /\ pc[r] = "update" /\ Finish(r)
      /\ row' = [row EXCEPT ![target[r]] = Saved(ent[r], base[r], row[target[r]])]
      /\ UNCHANGED <<wallet, ledger, external, history>>
  BY DEF SaveUpdate
<1>2. PICK p \in Payment :
        /\ p = target[r] /\ Basics(p) /\ Counts(p) /\ Lock(p) /\ HandlerBasics(r, p)
        /\ ent[r] \in Row /\ row[p] \in Row
  BY <1>1, WorksOn
<1>3. OnlyHandler(r) /\ Gone(r) BY <1>1, FinishShape
<1>4. OnlyPayment(p) BY <1>1, <1>2 DEF OnlyPayment, SameStore, external, history, TypeOK
<1>5. /\ stripe' = stripe /\ refunded' = refunded /\ sent' = sent /\ ledger' = ledger
      /\ cut' = cut /\ astray' = astray
  BY <1>1 DEF external, history
<1>6. Advances(p) BY <1>5 DEF Advances, Money
<1>7. PICK e \in Row, b \in Row, c \in Row, f \in Row :
        e = ent[r] /\ b = base[r] /\ c = row[p] /\ f = Saved(e, b, c)
  BY <1>2, SavedIs DEF TypeOK
<1>8. row'[p] = f BY <1>1, <1>2, <1>7 DEF TypeOK
<1>9. \/ b = Absent /\ f = e
      \/ c = Absent /\ f = Absent
      \/ /\ b # Absent /\ c # Absent /\ f.intent = c.intent
         /\ f.status \in {e.status, c.status} /\ f.transfers \in {e.transfers, c.transfers}
  BY <1>7, SavedIs
<1>10. Backed(p, e)' /\ Backed(p, c)'
  BY <1>2, <1>6, <1>7, BackedStays DEF HandlerBasics, Basics
<1>11. e.intent <=> stripe[p] # "none" BY <1>2, <1>7 DEF HandlerBasics
<1>12. Backed(p, f)' /\ (f # Absent => (f.intent <=> stripe'[p] # "none"))
  <2>1. CASE b = Absent /\ f = e BY <1>5, <1>10, <1>11, <2>1
  <2>2. CASE c = Absent /\ f = Absent BY <1>10, <2>2
  <2>3. CASE /\ b # Absent /\ c # Absent /\ f.intent = c.intent
             /\ f.status \in {e.status, c.status} /\ f.transfers \in {e.transfers, c.transfers}
    <3>1. c.intent <=> stripe[p] # "none" BY <1>2, <1>7, <2>3 DEF Basics
    <3>2. e.intent <=> c.intent BY <1>11, <3>1
    <3>3. Backed(p, f)' BY <1>10, <2>3, <3>2 DEF Backed
    <3> QED BY <1>5, <2>3, <3>1, <3>3
  <2> QED BY <1>9, <2>1, <2>2, <2>3
<1>13. /\ row'[p] # Absent => (row'[p].intent <=> stripe'[p] # "none")
       /\ Backed(p, row[p])'
  BY <1>8, <1>12
<1>14. Locked(p) /\ ~Splitting(r) => NotOver(row'[p])
  <2>1. Locked(p) => Uncompleted(p) BY <1>2 DEF Locked, Lock
  <2>2. Locked(p) /\ ~Splitting(r) => NotOver(e) /\ NotOver(c)
    BY <1>2, <1>7, <2>1 DEF Uncompleted, NotOver
  <2>3. NotOver(Absent) BY AbsentIs DEF NotOver
  <2> QED BY <1>8, <1>9, <2>2, <2>3 DEF NotOver
<1> QED BY <1>2, <1>3, <1>4, <1>5, <1>13, <1>14, SaverGood

(* Loading a payment and applying a command keeps Coherent.                *)
LEMMA FindGood ==
  ASSUME TypeOK, Coherent, NEW r \in Request, NEW p \in Payment, NEW c \in Command,
         FindPayment(r, p, c)
  PROVE  Coherent'
<1>1. PICK e \in Row, b \in Row :
        /\ b = row[p] /\ b # Absent
        /\ e = IF FirstStep(c, b) = "select" THEN AfterCommand(c, b) ELSE b
        /\ FirstStep(c, b) # "reject" /\ Start(r, p, c, FirstStep(c, b))
        /\ ent' = [ent EXCEPT ![r] = e]
  BY AfterCommandEnds DEF FindPayment, TypeOK
<1>2. PICK step \in {"select", "capture", "cancel", "refund"} : step = FirstStep(c, b)
  BY <1>1, FirstStepIs
<1>3. UNCHANGED <<tables, external, base, role, purse, cut, astray>> BY DEF FindPayment
<1>4. /\ OnlyHandler(r) /\ pc[r] = "idle" /\ pc'[r] = step /\ target'[r] = p
      /\ command'[r] = c /\ ent'[r] = e
      /\ overlapped' = IF Busy(p) THEN overlapped \cup {p} ELSE overlapped
  BY <1>1, <1>2, <1>3, StartShape
<1>5. Basics(p) /\ Counts(p) /\ Lock(p) /\ target[r] = NoPayment
  BY <1>4, CoherentParts DEF Resting
<1>6. /\ row' = row /\ stripe' = stripe /\ refunded' = refunded /\ sent' = sent
      /\ ledger' = ledger /\ cut' = cut /\ astray' = astray
  BY <1>3 DEF tables, external
<1>7. OnlyPayment(p) BY <1>4, <1>6 DEF OnlyPayment, SameStore
<1>8. Advances(p) BY <1>6 DEF Advances, Money
<1>9. MovedOnce(p)' BY <1>5, <1>6 DEF Counts, MovedOnce
<1>10. (b.intent <=> stripe[p] # "none") /\ Backed(p, b) BY <1>1, <1>5 DEF Basics
<1>11. Backed(p, b)' BY <1>8, <1>10, BackedStays
<1>12. step # "select" => e = b BY <1>1, <1>2
<1>13. step = "select" => Ends(c, b, e) BY <1>1, <1>2, AfterCommandEnds
<1>14. Backed(p, e)' /\ e.intent = b.intent
  <2>1. CASE step # "select" BY <1>11, <1>12, <2>1
  <2>2. CASE step = "select"
    <3>1. /\ e.intent = b.intent /\ e.transfers = b.transfers
          /\ c.op = "assignDriver" => e.status = b.status
          /\ c.op # "assignDriver" => ~b.intent
      BY <1>1, <1>2, <1>10, <1>13, <2>2, FirstStepIs, CommandFields DEF Ends, Backed
    <3> QED BY <1>11, <3>1, CommandFields DEF Backed
  <2> QED BY <2>1, <2>2
<1>15. e # Absent
  <2>1. CASE step # "select" BY <1>1, <1>12, <2>1
  <2>2. CASE step = "select" /\ c.op # "assignDriver"
    BY <1>13, <2>2, CommandFields, AbsentIs DEF Ends
  <2>3. CASE step = "select" /\ c.op = "assignDriver"
    <3>1. c.driver \in Driver /\ e.driver = c.driver
      BY <1>1, <1>2, <2>3, CommandFields DEF AfterCommand, Row
    <3> QED BY <3>1, NullAssumption DEF Absent
  <2> QED BY <2>1, <2>2, <2>3
<1>16. StepFits(r)'
  <2>1. /\ c.op # "create"
        /\ step = "capture" => c.op = "split" /\ e.intent
        /\ step = "cancel" => /\ c.op \in {"fail", "refund", "refundHalf"}
                              /\ e.status = "HELD" /\ e.intent
        /\ step = "refund" => /\ c.op \in {"refund", "refundHalf"}
                              /\ e.status = "COMPLETED" /\ e.intent
    BY <1>1, <1>2, <1>12, FirstStepIs, CommandFields
  <2> QED BY <1>4, <2>1 DEF StepFits, Returning, SplitStep
<1>17. HandlerBasics(r, p)' BY <1>4, <1>6, <1>10, <1>14, <1>15, <1>16 DEF HandlerBasics
<1>18. \A s \in Request : target'[s] = p => SameMemory(s) \/ HandlerBasics(s, p)'
  BY <1>4, <1>17 DEF OnlyHandler
<1>19. Basics(p)' BY <1>5, <1>6, <1>8, <1>18, BasicsKept
<1>20. ~Splitting(r)'
  <2>1. step # "capture" => c.op # "split" BY <1>1, <1>2, FirstStepIs, CommandFields
  <2> QED BY <1>4, <2>1 DEF Splitting
<1>21. Counts(p)'
  <2>1. \A s \in Request : target'[s] = p /\ Splitting(s)' => SameMemory(s)
    BY <1>4, <1>20 DEF OnlyHandler
  <2> QED BY <1>5, <1>6, <1>9, <2>1, CountsKept
<1>22. Locked(p) => Uncompleted(p) BY <1>5 DEF Locked, Lock
<1>23. Locked(p) => NotOver(e)
  <2>1. ASSUME Locked(p) PROVE NotOver(e)
    <3>1. b.intent /\ NotOver(b) BY <1>1, <1>10, <1>22, <2>1 DEF Uncompleted, NotOver
    <3>2. CASE step # "select" BY <1>12, <3>1, <3>2
    <3>3. CASE step = "select"
      <4>1. c.op \in {"assignDriver", "fail"}
        BY <1>1, <1>2, <1>10, <3>1, <3>3, FirstStepIs, CommandFields DEF Backed
      <4> QED BY <1>13, <3>1, <3>3, <4>1 DEF Ends, NotOver
    <3> QED BY <3>2, <3>3
  <2> QED BY <2>1
<1>24. Lock(p)'
  <2>1. /\ Locked(p) => stripe'[p] = "captured" /\ refunded'[p] = 0
        /\ Locked(p) => NotOver(row'[p])
    BY <1>6, <1>22 DEF Uncompleted, NotOver
  <2>2. ASSUME NEW s \in Request, target'[s] = p
        PROVE  \/ SameMemory(s)
               \/ ~WillSplit(s) /\ (Locked(p) => NotOver(ent'[s]))
    BY <1>4, <1>20, <1>23, <2>2 DEF OnlyHandler, WillSplit
  <2> QED BY <1>5, <1>6, <2>1, <2>2, LockKept
<1> QED BY <1>4, <1>7, <1>19, <1>21, <1>24, HandlerGood

(* A payment nobody has begun: no handler, no row, nothing at Stripe.      *)
LEMMA FreshIs ==
  ASSUME TypeOK, Coherent, NEW p \in Payment, Fresh(p)
  PROVE  /\ Basics(p) /\ Counts(p) /\ Lock(p)
         /\ row[p] = Absent /\ stripe[p] = "none" /\ p \notin cut
         /\ \A s \in Request : target[s] # p
<1>1. Basics(p) /\ Counts(p) /\ Lock(p) BY CoherentParts
<1>2. stripe[p] = "none" BY DEF Fresh
<1>3. p \notin cut BY <1>1, <1>2 DEF Lock, Uncompleted
<1> QED BY <1>1, <1>2, <1>3 DEF Fresh, Busy

(* Creating a PaymentIntent keeps Coherent.                                *)
LEMMA IntentGood ==
  ASSUME TypeOK, Coherent, NEW r \in Request, NEW p \in Payment, NEW a \in Amount,
         CreateIntent(r, p, a)
  PROVE  Coherent'
<1>1. PICK e : e = Hold(NewPayment(a)) OBVIOUS
<1>2. /\ Fresh(p) /\ Start(r, p, Idle, "insert") /\ ent' = [ent EXCEPT ![r] = e]
      /\ stripe' = [stripe EXCEPT ![p] = "created"]
      /\ UNCHANGED <<tables, refunded, sent, base, role, purse, cut, astray>>
  BY <1>1 DEF CreateIntent
<1>3. /\ OnlyHandler(r) /\ pc'[r] = "insert" /\ target'[r] = p
      /\ command'[r] = Idle /\ ent'[r] = e /\ pc[r] = "idle"
      /\ overlapped' = IF Busy(p) THEN overlapped \cup {p} ELSE overlapped
  BY <1>2, StartShape
<1>4. /\ Basics(p) /\ Counts(p) /\ Lock(p)
      /\ row[p] = Absent /\ stripe[p] = "none" /\ p \notin cut
      /\ \A s \in Request : target[s] # p
  BY <1>2, FreshIs
<1>5. /\ row' = row /\ refunded' = refunded /\ sent' = sent /\ ledger' = ledger
      /\ cut' = cut /\ astray' = astray /\ stripe'[p] = "created"
  BY <1>2 DEF tables, TypeOK
<1>6. OnlyPayment(p) BY <1>2, <1>3, <1>5 DEF OnlyPayment, SameStore, TypeOK
<1>7. \A s \in Request : target'[s] = p => s = r
  BY <1>3, <1>4 DEF OnlyHandler, SameMemory
<1>8. e.intent /\ e.status = "HELD" /\ e.transfers = {} BY <1>1, NewPaymentIs
<1>9. HandlerBasics(r, p)'
  <2>1. StepFits(r)' BY <1>3, ConstantsTyped DEF StepFits, SplitStep
  <2>2. Backed(p, e)' BY <1>8 DEF Backed
  <2> QED BY <1>3, <1>5, <1>8, <2>1, <2>2, AbsentIs DEF HandlerBasics
<1>10. Basics(p)'
  <2>1. Backed(p, row[p])' BY <1>4, <1>5, AbsentIs DEF Backed
  <2> QED BY <1>4, <1>5, <1>7, <1>9, <2>1 DEF Basics
<1>11. ~Splitting(r)' BY <1>3, ConstantsTyped DEF Splitting
<1>12. Counts(p)' BY <1>4, <1>5, <1>7, <1>11 DEF Counts, MovedOnce
<1>13. Lock(p)' BY <1>4, <1>5, <1>7, <1>11 DEF Lock
<1> QED BY <1>3, <1>6, <1>10, <1>12, <1>13, HandlerGood

(* Creating a payment without Stripe keeps Coherent.                       *)
LEMMA CreateGood ==
  ASSUME TypeOK, Coherent, NEW p \in Payment, NEW a \in Amount, CreatePayment(p, a)
  PROVE  Coherent'
<1>1. PICK e : e = NewPayment(a) OBVIOUS
<1>2. /\ Fresh(p) /\ row' = [row EXCEPT ![p] = e]
      /\ UNCHANGED <<wallet, ledger, external, pc, target, command, memory, history>>
  BY <1>1 DEF CreatePayment
<1>3. /\ Basics(p) /\ Counts(p) /\ Lock(p)
      /\ row[p] = Absent /\ stripe[p] = "none" /\ p \notin cut
      /\ \A s \in Request : target[s] # p
  BY <1>2, FreshIs
<1>4. /\ stripe' = stripe /\ refunded' = refunded /\ sent' = sent /\ ledger' = ledger
      /\ cut' = cut /\ astray' = astray /\ overlapped' = overlapped /\ row'[p] = e
      /\ target' = target
  BY <1>2 DEF external, history, TypeOK
<1>5. OnlyPayment(p) BY <1>2, <1>4 DEF OnlyPayment, SameStore, TypeOK
<1>6. \A s \in Request : SameMemory(s) BY <1>2 DEF SameMemory, memory
<1>7. ~e.intent /\ e.transfers = {} BY <1>1, NewPaymentIs
<1>8. Basics(p)'
  <2>1. Backed(p, row[p])' BY <1>4, <1>7 DEF Backed
  <2> QED BY <1>3, <1>4, <1>7, <2>1 DEF Basics
<1>9. Counts(p)' BY <1>3, <1>4 DEF Counts, MovedOnce
<1>10. Lock(p)' BY <1>3, <1>4 DEF Lock
<1> QED BY <1>5, <1>6, <1>8, <1>9, <1>10, StripeGood

(* Deleting a payment keeps Coherent.                                      *)
LEMMA DeleteGood ==
  ASSUME TypeOK, Coherent, NEW p \in Payment, DeletePayment(p)
  PROVE  Coherent'
<1>1. /\ row' = [row EXCEPT ![p] = Absent]
      /\ overlapped' = IF Busy(p) THEN overlapped \cup {p} ELSE overlapped
      /\ UNCHANGED <<wallet, ledger, external, pc, target, command, memory, cut, astray>>
  BY DEF DeletePayment
<1>2. Basics(p) /\ Counts(p) /\ Lock(p) BY CoherentParts
<1>3. /\ stripe' = stripe /\ refunded' = refunded /\ sent' = sent /\ ledger' = ledger
      /\ cut' = cut /\ astray' = astray /\ row'[p] = Absent
  BY <1>1 DEF external, TypeOK
<1>4. OnlyPayment(p) BY <1>1, <1>3 DEF OnlyPayment, SameStore, TypeOK
<1>5. \A s \in Request : SameMemory(s) BY <1>1 DEF SameMemory, memory
<1>6. Advances(p) BY <1>3 DEF Advances, Money
<1>7. Basics(p)'
  <2>1. Backed(p, row[p])' BY <1>3, AbsentIs DEF Backed
  <2> QED BY <1>2, <1>3, <1>5, <1>6, <2>1, BasicsKept
<1>8. MovedOnce(p)' BY <1>2, <1>3 DEF Counts, MovedOnce
<1>9. Counts(p)' BY <1>2, <1>3, <1>5, <1>8, CountsKept
<1>10. Lock(p)'
  <2>1. Locked(p) => Uncompleted(p) BY <1>2 DEF Locked, Lock
  <2>2. Locked(p) => stripe'[p] = "captured" /\ refunded'[p] = 0
    BY <1>3, <2>1 DEF Uncompleted
  <2>3. NotOver(row'[p]) BY <1>3, AbsentIs DEF NotOver
  <2> QED BY <1>2, <1>3, <1>5, <2>2, <2>3, LockKept
<1> QED BY <1>4, <1>5, <1>7, <1>9, <1>10, StripeGood

(* The customer's card, and the authorization that lapses.                 *)
LEMMA CardGood ==
  ASSUME TypeOK, Coherent, NEW p \in Payment, Authorize(p) \/ Lapse(p)
  PROVE  Coherent'
<1>1. /\ stripe[p] \in {"created", "authorized"}
      /\ stripe' = [stripe EXCEPT ![p] = "authorized"]
           \/ stripe' = [stripe EXCEPT ![p] = "cancelled"]
      /\ UNCHANGED <<tables, refunded, sent, pc, target, command, memory, started, history>>
  BY DEF Authorize, Lapse
<1>2. Basics(p) /\ Counts(p) /\ Lock(p) BY CoherentParts
<1>3. /\ row' = row /\ refunded' = refunded /\ sent' = sent /\ ledger' = ledger
      /\ cut' = cut /\ astray' = astray /\ overlapped' = overlapped
      /\ stripe'[p] \in {"authorized", "cancelled"}
  BY <1>1 DEF tables, history, TypeOK
<1>4. OnlyPayment(p) BY <1>1, <1>3 DEF OnlyPayment, SameStore, TypeOK
<1>5. \A s \in Request : SameMemory(s) BY <1>1 DEF SameMemory, memory
<1>6. Advances(p) BY <1>1, <1>3 DEF Advances, Money
<1>7. Basics(p)' BY <1>2, <1>3, <1>5, <1>6, BasicsKept
<1>8. MovedOnce(p)' BY <1>1, <1>2, <1>3 DEF Counts, MovedOnce
<1>9. Counts(p)' BY <1>2, <1>3, <1>5, <1>8, CountsKept
<1>10. Lock(p)'
  <2>1. Locked(p) => Uncompleted(p) BY <1>2 DEF Locked, Lock
  <2>2. ~Locked(p) BY <1>1, <2>1 DEF Uncompleted
  <2> QED BY <1>2, <1>3, <1>5, <2>2, LockKept
<1> QED BY <1>4, <1>5, <1>7, <1>9, <1>10, StripeGood

(* A step that changes nothing keeps Coherent.                             *)
LEMMA StutterGood ==
  ASSUME TypeOK, Coherent, UNCHANGED vars
  PROVE  Coherent'
<1>1. \A s \in Request : SameMemory(s) BY DEF vars, SameMemory
<1>2. \A q \in Payment : SameStore(q) BY DEF vars, SameStore
<1>3. Resting' BY CoherentParts DEF Resting, vars
<1> QED BY <1>1, <1>2, <1>3, CoherentParts, OthersGood

(* Every step keeps Coherent.                                              *)
LEMMA StepCoherent == TypeOK /\ Coherent /\ [Next]_vars => Coherent'
BY CreateGood, DeleteGood, CardGood, IntentGood, FindGood, InsertGood, CancelGood,
   RefundGood, CaptureGood, TransferGood, CreditGood, SelectGood, UpdateGood, AbortGood,
   StutterGood DEF Next

(* The empty tables are coherent.                                          *)
LEMMA InitCoherent == Init => Coherent
<1> SUFFICES ASSUME Init PROVE Coherent
  OBVIOUS
<1>1. Resting BY DEF Init, Resting
<1>2. ASSUME NEW p \in Payment PROVE Basics(p) /\ Counts(p) /\ Lock(p)
  <2>1. \A s \in Request : target[s] # p BY NullAssumption DEF Init
  <2>2. Backed(p, row[p]) BY AbsentIs DEF Init, Backed
  <2>3. row[p] = Absent /\ refunded[p] = 0 /\ p \notin cut
        /\ \A x \in Role : sent[p][x] = 0 /\ ledger[p][x] = 0
    BY DEF Init
  <2> QED BY <2>1, <2>2, <2>3 DEF Basics, Counts, MovedOnce, Lock
<1> QED BY <1>1, <1>2, CoherentParts

-----------------------------------------------------------------------------
(* A payment no two handlers worked on at once.                            *)

(* The status flow of PaymentLife, as a relation.                          *)
Arrow(intent, money, old, new) ==
  \/ old = new
  \/ ~intent /\ old = "PENDING" /\ new = "COMPLETED"
  \/ intent /\ money = "taken" /\ old = "HELD" /\ new = "COMPLETED"
  \/ old \in {"PENDING", "HELD"} /\ new = "FAILED"
  \/ old \in {"HELD", "COMPLETED"} /\ new = "REFUNDED" /\ (intent => money = "returned")

(* What the handler alone on a payment has in memory is the row, or what   *)
(* its command makes of it.                                                *)
Sees(s, p) ==
  /\ pc[s] = "insert" => row[p] = Absent /\ ent[s].status = "HELD" /\ ent[s].intent
  /\ pc[s] # "insert" => row[p] # Absent
  /\ pc[s] \in {"cancel", "refund", "capture"} \cup SplitStep =>
       ent[s].status = row[p].status
  /\ pc[s] \in {"select", "update"} =>
       Arrow(row[p].intent, Money(p), row[p].status, ent[s].status)
  /\ pc[s] = "update" => base[s] = row[p]

(* A refund the row does not tell of yet is in the memory of its handler.  *)
WillTell(s) ==
  /\ pc[s] \in {"select", "update"} /\ ent[s].status = "REFUNDED"
  /\ Returning(s)

Told(p) ==
  row[p].status = "COMPLETED" /\ refunded[p] > 0 /\ p \notin astray =>
    \E s \in Request : target[s] = p /\ WillTell(s)

Alone(p) ==
  p \notin overlapped =>
    /\ \A s, t \in Request : target[s] = p /\ target[t] = p => s = t
    /\ \A s \in Request : target[s] = p => Sees(s, p)
    /\ Told(p)

(* What a handler alone on its payment sees of it stays true while the     *)
(* payment stays as it is.                                                 *)
LEMMA SeesStays ==
  ASSUME NEW s, NEW p, Sees(s, p), SameMemory(s), row'[p] = row[p],
         Money(p) \in {"taken", "returned"} => Money(p)' = Money(p)
  PROVE  Sees(s, p)'
<1>1. PICK e : e = row[p] OBVIOUS
<1>2. PICK m, n : m = Money(p) /\ n = Money(p)' OBVIOUS
<1>3. \A o : Arrow(e.intent, m, e.status, o) => Arrow(e.intent, n, e.status, o)
  BY <1>2 DEF Arrow
<1>4. row'[p] = e BY <1>1
<1> QED BY <1>1, <1>2, <1>3, <1>4 DEF Sees, SameMemory

(* A handler whose memory is kept will tell the same of its payment.       *)
LEMMA TellStays ==
  ASSUME NEW s, SameMemory(s) PROVE WillTell(s)' <=> WillTell(s)
BY DEF WillTell, SameMemory, Returning

(* A payment the step does not touch, or that only Stripe moves.           *)
LEMMA AloneStays ==
  ASSUME NEW q \in Payment, Alone(q), row'[q] = row[q],
         q \in overlapped => q \in overlapped',
         refunded'[q] = refunded[q], q \in astray => q \in astray',
         Money(q) \in {"taken", "returned"} => Money(q)' = Money(q),
         \A s \in Request : target'[s] = q \/ target[s] = q => SameMemory(s)
  PROVE  Alone(q)'
<1> SUFFICES ASSUME q \notin overlapped'
             PROVE  /\ \A s, t \in Request : target'[s] = q /\ target'[t] = q => s = t
                    /\ \A s \in Request : target'[s] = q => Sees(s, q)'
                    /\ Told(q)'
  BY DEF Alone
<1>1. /\ \A s, t \in Request : target[s] = q /\ target[t] = q => s = t
      /\ \A s \in Request : target[s] = q => Sees(s, q)
      /\ Told(q)
  BY DEF Alone
<1>2. \A s \in Request : target'[s] = q => SameMemory(s) /\ target[s] = q
  BY DEF SameMemory
<1>3. ASSUME NEW s \in Request, target'[s] = q PROVE Sees(s, q)'
  BY <1>1, <1>2, <1>3, SeesStays
<1>4. Told(q)'
  <2>1. SUFFICES ASSUME row'[q].status = "COMPLETED", refunded'[q] > 0, q \notin astray'
                 PROVE  \E s \in Request : target'[s] = q /\ WillTell(s)'
    BY DEF Told
  <2>2. PICK s \in Request : target[s] = q /\ WillTell(s) BY <1>1, <2>1 DEF Told
  <2>3. target'[s] = q /\ WillTell(s)' BY <2>2, TellStays DEF SameMemory
  <2> QED BY <2>3
<1> QED BY <1>1, <1>2, <1>3, <1>4

(* A step of one handler on one payment leaves the handlers of the others  *)
(* alone.                                                                  *)
LEMMA OthersAlone ==
  ASSUME TypeOK, NEW r \in Request, NEW p \in Payment, OnlyHandler(r), OnlyPayment(p),
         target[r] \in {p, NoPayment}, Gone(r) \/ target'[r] = p,
         \A q \in Payment : Alone(q), Alone(p)'
  PROVE  \A q \in Payment : Alone(q)'
<1> SUFFICES ASSUME NEW q \in Payment, q # p PROVE Alone(q)'
  OBVIOUS
<1>1. SameStore(q) BY DEF OnlyPayment
<1>2. \A s \in Request : target'[s] = q \/ target[s] = q => SameMemory(s)
  BY NullAssumption DEF OnlyHandler, Gone
<1>3. Money(q)' = Money(q) BY <1>1 DEF SameStore, Money
<1> QED BY <1>1, <1>2, <1>3, AloneStays DEF SameStore

(* The handler that moves is the only one of its payment.                  *)
OnlyHere(r, p) ==
  /\ p \notin overlapped /\ Sees(r, p) /\ Told(p)
  /\ \A s \in Request : target[s] = p => s = r

(* A step of a handler with nothing to tell leaves the row as true or as   *)
(* untrue to Stripe as it was.                                             *)
LEMMA ToldSame ==
  ASSUME NEW r \in Request, NEW p \in Payment, OnlyHere(r, p), ~WillTell(r),
         row'[p] = row[p], refunded'[p] = refunded[p], p \in astray => p \in astray'
  PROVE  Told(p)'
BY DEF OnlyHere, Told

(* A step of a handler keeps Alone when, wherever that handler is alone,   *)
(* its row and its memory stay true to Stripe.                             *)
LEMMA HandlerAlone ==
  ASSUME TypeOK, NEW r \in Request, NEW p \in Payment, p = target[r], OnlyHandler(r),
         OnlyPayment(p), \A q \in Payment : Alone(q), Gone(r) \/ target'[r] = p,
         p \in overlapped => p \in overlapped',
         OnlyHere(r, p) => Told(p)' /\ (target'[r] = p => Sees(r, p)')
  PROVE  \A q \in Payment : Alone(q)'
<1>1. ASSUME p \notin overlapped'
      PROVE  /\ \A s, t \in Request : target'[s] = p /\ target'[t] = p => s = t
             /\ \A s \in Request : target'[s] = p => Sees(s, p)'
             /\ Told(p)'
  <2>1. OnlyHere(r, p) BY <1>1 DEF Alone, OnlyHere
  <2>2. \A s \in Request : target'[s] = p => s = r
    BY <2>1 DEF OnlyHandler, SameMemory, OnlyHere
  <2> QED BY <1>1, <2>1, <2>2
<1>2. Alone(p)' BY <1>1 DEF Alone
<1> QED BY <1>2, OthersAlone

(* A handler that starts alone finds no other.                             *)
LEMMA StartAlone ==
  ASSUME TypeOK, NEW r \in Request, NEW p \in Payment, target[r] = NoPayment,
         OnlyHandler(r),
         OnlyPayment(p), \A q \in Payment : Alone(q), target'[r] = p,
         overlapped' = IF Busy(p) THEN overlapped \cup {p} ELSE overlapped,
         row'[p] = row[p], refunded'[p] = refunded[p], p \in astray => p \in astray',
         p \notin overlapped => Sees(r, p)'
  PROVE  \A q \in Payment : Alone(q)'
<1>1. ASSUME p \notin overlapped'
      PROVE  /\ \A s, t \in Request : target'[s] = p /\ target'[t] = p => s = t
             /\ \A s \in Request : target'[s] = p => Sees(s, p)'
             /\ Told(p)'
  <2>1. p \notin overlapped /\ \A s \in Request : target[s] # p BY <1>1 DEF Busy
  <2>2. \A s \in Request : target'[s] = p => s = r
    BY <2>1 DEF OnlyHandler, SameMemory
  <2>3. Told(p)' BY <2>1 DEF Alone, Told
  <2> QED BY <2>1, <2>2, <2>3
<1>2. Alone(p)' BY <1>1 DEF Alone
<1> QED BY <1>2, OthersAlone

(* Cancelling at Stripe keeps Alone.                                       *)
LEMMA CancelAlone ==
  ASSUME TypeOK, Coherent, \A q \in Payment : Alone(q), NEW r \in Request, CancelIntent(r)
  PROVE  \A q \in Payment : Alone(q)'
<1>1. pc[r] = "cancel" BY DEF CancelIntent
<1>2. PICK p \in Payment :
        /\ p = target[r] /\ HandlerBasics(r, p) /\ ent[r] \in Row
        /\ command[r].op # "create" => command[r] \in Command
  BY <1>1, WorksOn
<1>3. /\ command[r].op \in {"fail", "refund", "refundHalf"} /\ command[r] \in Command
      /\ ent[r].status = "HELD"
  BY <1>1, <1>2 DEF HandlerBasics, StepFits, Returning
<1>4. PICK x \in Outcomes(Cancellable(p)) :
        /\ stripe' = IF x.done THEN [stripe EXCEPT ![p] = "cancelled"] ELSE stripe
        /\ IF x.heard \/ command[r].op = "fail"
           THEN /\ ent' = [ent EXCEPT ![r] = AfterCommand(command[r], ent[r])]
                /\ GoTo(r, "select") /\ UNCHANGED <<base, role, purse>>
           ELSE Finish(r)
        /\ astray' = IF x.heard THEN astray ELSE astray \cup {p}
  BY <1>2 DEF CancelIntent
<1>5. UNCHANGED <<tables, refunded, sent, overlapped, cut>> BY DEF CancelIntent
<1>6. x.heard => stripe'[p] = "cancelled" BY <1>4 DEF Outcomes, TypeOK
<1>7. OnlyPayment(p) BY <1>4, <1>5 DEF OnlyPayment, SameStore, tables, TypeOK
<1>8. row'[p] = row[p] /\ refunded' = refunded /\ overlapped' = overlapped
  BY <1>5 DEF tables
<1>9. OnlyHere(r, p) => row[p].status = "HELD" /\ row[p] # Absent
  BY <1>1, <1>3 DEF OnlyHere, Sees
<1>10. OnlyHere(r, p) => Told(p)' BY <1>8, <1>9 DEF Told
<1>11. CASE ~(x.heard \/ command[r].op = "fail")
  <2>1. OnlyHandler(r) /\ Gone(r) BY <1>4, <1>11, FinishShape
  <2>2. target'[r] # p BY <2>1, NullAssumption DEF Gone
  <2> QED BY <1>2, <1>7, <1>8, <1>10, <2>1, <2>2, HandlerAlone
<1>12. CASE x.heard \/ command[r].op = "fail"
  <2>1. PICK e : e = AfterCommand(command[r], ent[r]) OBVIOUS
  <2>2. Ends(command[r], ent[r], e) BY <1>2, <1>3, <2>1, AfterCommandEnds
  <2>3. OnlyHandler(r) /\ GoesOn(r, "select", e) BY <1>4, <1>12, <2>1, GoToShape
  <2>4. target'[r] = p /\ pc'[r] = "select" /\ ent'[r] = e BY <1>2, <2>3 DEF GoesOn
  <2>5. PICK m : m = Money(p)' OBVIOUS
  <2>6. x.heard => m = "returned" BY <1>6, <2>5 DEF Money
  <2>7. OnlyHere(r, p) => Arrow(row[p].intent, m, row[p].status, e.status)
    BY <1>3, <1>9, <1>12, <2>2, <2>6 DEF Ends, Arrow
  <2>8. OnlyHere(r, p) => Sees(r, p)'
    BY <1>8, <1>9, <2>4, <2>5, <2>7 DEF Sees, SplitStep
  <2> QED BY <1>2, <1>7, <1>8, <1>10, <2>3, <2>4, <2>8, HandlerAlone
<1> QED BY <1>11, <1>12

(* Refunding at Stripe keeps Alone.                                        *)
LEMMA RefundAlone ==
  ASSUME TypeOK, Coherent, \A q \in Payment : Alone(q), NEW r \in Request, RefundIntent(r)
  PROVE  \A q \in Payment : Alone(q)'
<1>1. pc[r] = "refund" BY DEF RefundIntent
<1>2. PICK p \in Payment :
        /\ p = target[r] /\ HandlerBasics(r, p) /\ ent[r] \in Row
        /\ command[r].op # "create" => command[r] \in Command
  BY <1>1, WorksOn
<1>3. /\ command[r].op \in {"refund", "refundHalf"} /\ command[r] \in Command
      /\ ent[r].status = "COMPLETED" /\ ent[r].intent /\ stripe[p] = "captured"
  BY <1>1, <1>2 DEF HandlerBasics, StepFits, Backed
<1>4. PICK x \in Outcomes(Refundable(p)) :
        /\ refunded' = IF ~x.done THEN refunded
                       ELSE IF command[r].op = "refund" THEN [refunded EXCEPT ![p] = 2]
                            ELSE [refunded EXCEPT ![p] = @ + 1]
        /\ IF x.heard
           THEN /\ ent' = [ent EXCEPT ![r] = AfterCommand(command[r], ent[r])]
                /\ GoTo(r, "select") /\ UNCHANGED <<base, role, purse>>
           ELSE Finish(r)
        /\ astray' = IF x.heard THEN astray ELSE astray \cup {p}
  BY <1>2 DEF RefundIntent
<1>5. UNCHANGED <<tables, stripe, sent, overlapped, cut>> BY DEF RefundIntent
<1>6. x.heard => refunded'[p] > 0
  <2>0. refunded[p] \in 0..2 BY <1>2 DEF TypeOK
  <2>1. PICK k : k = refunded[p] + 1 OBVIOUS
  <2>3. k \in Nat /\ k > 0 BY <2>0, <2>1
  <2>2. \/ ~x.done \/ refunded' = [refunded EXCEPT ![p] = 2]
        \/ refunded' = [refunded EXCEPT ![p] = k]
    BY <1>4, <2>1
  <2>4. x.heard => x.done BY DEF Outcomes
  <2> QED BY <1>2, <2>2, <2>3, <2>4 DEF TypeOK
<1>7. OnlyPayment(p)
  <2>1. PICK k : k = refunded[p] + 1 OBVIOUS
  <2>2. \/ refunded' = refunded \/ refunded' = [refunded EXCEPT ![p] = 2]
        \/ refunded' = [refunded EXCEPT ![p] = k]
    BY <1>4, <2>1
  <2> QED BY <1>4, <1>5, <2>2 DEF OnlyPayment, SameStore, tables, TypeOK
<1>8. row'[p] = row[p] /\ stripe' = stripe /\ overlapped' = overlapped
  BY <1>5 DEF tables
<1>9. OnlyHere(r, p) => row[p].status = "COMPLETED" /\ row[p] # Absent
  BY <1>1, <1>3 DEF OnlyHere, Sees
<1>10. CASE ~x.heard
  <2>1. OnlyHandler(r) /\ Gone(r) BY <1>4, <1>10, FinishShape
  <2>2. target'[r] # p BY <2>1, NullAssumption DEF Gone
  <2>3. Told(p)' BY <1>4, <1>10 DEF Told
  <2> QED BY <1>2, <1>7, <1>8, <2>1, <2>2, <2>3, HandlerAlone
<1>11. CASE x.heard
  <2>1. PICK e : e = AfterCommand(command[r], ent[r]) OBVIOUS
  <2>2. Ends(command[r], ent[r], e) BY <1>2, <1>3, <2>1, AfterCommandEnds
  <2>3. OnlyHandler(r) /\ GoesOn(r, "select", e) BY <1>4, <1>11, <2>1, GoToShape
  <2>4. /\ target'[r] = p /\ pc'[r] = "select" /\ ent'[r] = e
        /\ command'[r] = command[r]
    BY <1>2, <2>3 DEF GoesOn
  <2>5. PICK m : m = Money(p)' OBVIOUS
  <2>6. m = "returned" BY <1>3, <1>6, <1>8, <1>11, <2>5 DEF Money
  <2>7. e.status = "REFUNDED" /\ e.intent BY <1>3, <2>2 DEF Ends
  <2>8. OnlyHere(r, p) => Arrow(row[p].intent, m, row[p].status, e.status)
    BY <1>9, <2>6, <2>7 DEF Arrow
  <2>9. OnlyHere(r, p) => Sees(r, p)'
    BY <1>8, <1>9, <2>4, <2>5, <2>8 DEF Sees, SplitStep
  <2>10. WillTell(r)' BY <1>3, <2>4, <2>7 DEF WillTell, Returning
  <2>11. Told(p)' BY <2>4, <2>10 DEF Told
  <2> QED BY <1>2, <1>7, <1>8, <2>3, <2>4, <2>9, <2>11, HandlerAlone
<1> QED BY <1>10, <1>11

(* Capturing at Stripe keeps Alone.                                        *)
LEMMA CaptureAlone ==
  ASSUME TypeOK, Coherent, \A q \in Payment : Alone(q), NEW r \in Request, Capture(r)
  PROVE  \A q \in Payment : Alone(q)'
<1>1. pc[r] = "capture" BY DEF Capture
<1>2. PICK p \in Payment : p = target[r] BY <1>1, WorksOn
<1>3. PICK x \in Outcomes(Capturable(p)) :
        /\ stripe' = IF x.done THEN [stripe EXCEPT ![p] = "captured"] ELSE stripe
        /\ IF x.heard THEN GoTo(r, "transfer") /\ UNCHANGED memory ELSE Finish(r)
        /\ cut' = IF x.done /\ ~x.heard THEN cut \cup {p} ELSE cut
  BY <1>2 DEF Capture
<1>4. UNCHANGED <<tables, refunded, sent, overlapped, astray>> BY DEF Capture
<1>5. OnlyPayment(p) BY <1>3, <1>4 DEF OnlyPayment, SameStore, tables, TypeOK
<1>6. row'[p] = row[p] /\ refunded' = refunded /\ overlapped' = overlapped /\ astray' = astray
  BY <1>4 DEF tables
<1>7. ~WillTell(r) BY <1>1 DEF WillTell
<1>8. OnlyHere(r, p) => Told(p)' BY <1>6, <1>7, ToldSame
<1>9. CASE x.heard
  <2>1. OnlyHandler(r) /\ GoesOn(r, "transfer", ent[r])
    BY <1>3, <1>9, KeepShape DEF memory
  <2>2. target'[r] = p /\ pc'[r] = "transfer" /\ ent'[r] = ent[r]
    BY <1>2, <2>1 DEF GoesOn
  <2>3. OnlyHere(r, p) => Sees(r, p)'
    BY <1>1, <1>6, <2>2 DEF OnlyHere, Sees, SplitStep
  <2> QED BY <1>2, <1>5, <1>6, <1>8, <2>1, <2>2, <2>3, HandlerAlone
<1>10. CASE ~x.heard
  <2>1. OnlyHandler(r) /\ Gone(r) BY <1>3, <1>10, FinishShape
  <2>2. target'[r] # p BY <2>1, NullAssumption DEF Gone
  <2> QED BY <1>2, <1>5, <1>6, <1>8, <2>1, <2>2, HandlerAlone
<1> QED BY <1>9, <1>10

(* Transferring a share at Stripe keeps Alone.                             *)
LEMMA TransferAlone ==
  ASSUME TypeOK, Coherent, \A q \in Payment : Alone(q), NEW r \in Request, Transfer(r)
  PROVE  \A q \in Payment : Alone(q)'
<1>1. pc[r] = "transfer" BY DEF Transfer
<1>2. PICK p \in Payment : p = target[r] /\ ent[r] \in Row BY <1>1, WorksOn
<1>3. PICK x \in [done : BOOLEAN, heard : BOOLEAN] :
        /\ sent' = IF x.done THEN [sent EXCEPT ![p][role[r]] = @ + 1] ELSE sent
        /\ ent' = IF x.heard THEN [ent EXCEPT ![r].transfers = @ \cup {role[r]}] ELSE ent
  BY <1>2 DEF Transfer, Outcomes
<1>4. UNCHANGED <<tables, stripe, refunded, base, purse, history>> BY DEF Transfer
<1>5. PICK e : ent' = [ent EXCEPT ![r] = e] /\ e.status = ent[r].status
  <2>1. PICK f : f = [ent[r] EXCEPT !.transfers = @ \cup {role[r]}] OBVIOUS
  <2>2. f.status = ent[r].status BY <1>2, <2>1 DEF Row
  <2>3. CASE x.heard
    <3>1. ent' = [ent EXCEPT ![r] = f] BY <1>3, <2>1, <2>3
    <3> QED BY <2>2, <3>1
  <2>4. CASE ~x.heard
    <3>1. ent' = [ent EXCEPT ![r] = ent[r]] BY <1>3, <2>4 DEF TypeOK
    <3> QED BY <3>1
  <2> QED BY <2>3, <2>4
<1>6. PICK step \in {"transfer", "findWallet"} :
        GoTo(r, step) /\ \E y : role' = [role EXCEPT ![r] = y]
  BY DEF Transfer
<1>7. OnlyHandler(r) /\ GoesOn(r, step, e) BY <1>4, <1>5, <1>6, GoToShape
<1>8. target'[r] = p /\ pc'[r] = step /\ ent'[r] = e BY <1>2, <1>7 DEF GoesOn
<1>9. OnlyPayment(p)
  <2>1. PICK k : k = sent[p][role[r]] + 1 OBVIOUS
  <2>2. sent' = IF x.done THEN [sent EXCEPT ![p][role[r]] = k] ELSE sent BY <1>3, <2>1
  <2>3. sent \in [Payment -> [Role -> Nat]] BY DEF TypeOK
  <2>4. \A q \in Payment : q # p => sent'[q] = sent[q] BY <2>2, <2>3
  <2> QED BY <1>4, <2>4 DEF OnlyPayment, SameStore, tables, history
<1>10. row'[p] = row[p] /\ refunded' = refunded /\ overlapped' = overlapped /\ astray' = astray
  BY <1>4 DEF tables, history
<1>11. ~WillTell(r) BY <1>1 DEF WillTell
<1>12. OnlyHere(r, p) => Told(p)' BY <1>10, <1>11, ToldSame
<1>13. OnlyHere(r, p) => Sees(r, p)'
  BY <1>1, <1>5, <1>6, <1>8, <1>10 DEF OnlyHere, Sees, SplitStep
<1> QED BY <1>2, <1>7, <1>8, <1>9, <1>10, <1>12, <1>13, HandlerAlone

(* The statements that credit a wallet keep Alone.                         *)
LEMMA CreditAlone ==
  ASSUME TypeOK, Coherent, \A q \in Payment : Alone(q), NEW r \in Request,
         FindWallet(r) \/ CreateWallet(r) \/ SaveWallet(r) \/ RecordTransaction(r)
  PROVE  \A q \in Payment : Alone(q)'
<1>1. /\ pc[r] \in CreditStep /\ OnlyHandler(r)
      /\ UNCHANGED <<row, external, overlapped, astray>>
      /\ NextMove(r) \/ Stays(r)
      /\ \/ ledger' = ledger
         \/ ledger' = [ledger EXCEPT ![target[r]][role[r]] = @ + 1]
  BY CreditShape
<1>2. PICK p \in Payment :
        /\ p = target[r] /\ Basics(p) /\ Lock(p) /\ HandlerBasics(r, p) /\ ent[r] \in Row
        /\ command[r].op # "create" => command[r] \in Command
  BY <1>1, WorksOn DEF CreditStep
<1>3. /\ command[r].op = "split" /\ command[r] \in Command
      /\ stripe[p] = "captured" /\ refunded[p] = 0
  <2>1. command[r].op = "split"
    BY <1>1, <1>2 DEF HandlerBasics, StepFits, SplitStep, CreditStep
  <2>2. Splitting(r) BY <1>1, <2>1 DEF Splitting, CreditStep
  <2> QED BY <1>2, <2>1, <2>2 DEF Lock, Uncompleted
<1>4. /\ row' = row /\ stripe' = stripe /\ refunded' = refunded /\ sent' = sent
      /\ overlapped' = overlapped /\ astray' = astray
  BY <1>1 DEF external
<1>5. OnlyPayment(p)
  <2>1. PICK k : k = ledger[p][role[r]] + 1 OBVIOUS
  <2>2. ledger' = ledger \/ ledger' = [ledger EXCEPT ![p][role[r]] = k]
    BY <1>1, <1>2, <2>1
  <2>3. ledger \in [Payment -> [Role -> Nat]] BY DEF TypeOK
  <2>4. \A q \in Payment : q # p => ledger'[q] = ledger[q] BY <2>2, <2>3
  <2>5. \A q \in Payment : q # p => (q \in cut' <=> q \in cut)
    BY <1>1, <1>2 DEF NextMove, Stays
  <2> QED BY <1>4, <2>4, <2>5 DEF OnlyPayment, SameStore
<1>6. ~WillTell(r) BY <1>1 DEF WillTell, CreditStep
<1>7. OnlyHere(r, p) => Told(p)' BY <1>4, <1>6, ToldSame
<1>8. OnlyHere(r, p) =>
        /\ row[p] # Absent /\ ent[r].status = row[p].status /\ row[p].intent
        /\ Money(p)' = "taken"
  BY <1>1, <1>2, <1>3, <1>4 DEF OnlyHere, Sees, SplitStep, CreditStep, Basics, Money
<1>9. CASE \E step \in CreditStep : GoesOn(r, step, ent[r])
  <2>1. target'[r] = p /\ pc'[r] \in CreditStep /\ ent'[r] = ent[r]
    BY <1>2, <1>9 DEF GoesOn
  <2>2. OnlyHere(r, p) => Sees(r, p)'
    BY <1>4, <1>8, <2>1 DEF Sees, SplitStep, CreditStep
  <2> QED BY <1>1, <1>2, <1>4, <1>5, <1>7, <2>1, <2>2, HandlerAlone
<1>10. CASE GoesOn(r, "select", AfterCommand(command[r], ent[r])) /\ ent[r].status = "HELD"
  <2>1. PICK e : e = AfterCommand(command[r], ent[r]) OBVIOUS
  <2>2. e.status = "COMPLETED" BY <1>2, <1>3, <2>1, AfterCommandEnds DEF Ends
  <2>3. target'[r] = p /\ pc'[r] = "select" /\ ent'[r] = e
    BY <1>2, <1>10, <2>1 DEF GoesOn
  <2>4. OnlyHere(r, p) => Arrow(row[p].intent, Money(p)', row[p].status, e.status)
    BY <1>8, <1>10, <2>2 DEF Arrow
  <2>5. OnlyHere(r, p) => Sees(r, p)'
    BY <1>4, <1>8, <2>3, <2>4 DEF Sees, SplitStep
  <2> QED BY <1>1, <1>2, <1>4, <1>5, <1>7, <2>3, <2>5, HandlerAlone
<1>11. CASE Gone(r)
  <2>1. target'[r] # p BY <1>11, NullAssumption DEF Gone
  <2> QED BY <1>1, <1>2, <1>4, <1>5, <1>7, <1>11, <2>1, HandlerAlone
<1> QED BY <1>1, <1>9, <1>10, <1>11 DEF NextMove, Stays, CreditStep

(* The select of a save keeps Alone.                                       *)
LEMMA SelectAlone ==
  ASSUME TypeOK, Coherent, \A q \in Payment : Alone(q), NEW r \in Request, SaveSelect(r)
  PROVE  \A q \in Payment : Alone(q)'
<1>1. /\ pc[r] = "select" /\ base' = [base EXCEPT ![r] = row[target[r]]]
      /\ GoTo(r, "update") /\ UNCHANGED <<tables, external, ent, role, purse, history>>
  BY DEF SaveSelect
<1>2. PICK p \in Payment : p = target[r] BY <1>1, WorksOn
<1>3. OnlyHandler(r) /\ GoesOn(r, "update", ent[r])
  <2>1. ent' = [ent EXCEPT ![r] = ent[r]] BY <1>1 DEF TypeOK
  <2> QED BY <1>1, <2>1, GoToShape
<1>4. /\ pc'[r] = "update" /\ target'[r] = p /\ command'[r] = command[r] /\ ent'[r] = ent[r]
  BY <1>2, <1>3 DEF GoesOn
<1>5. /\ row' = row /\ stripe' = stripe /\ refunded' = refunded /\ sent' = sent
      /\ ledger' = ledger /\ cut' = cut /\ astray' = astray /\ overlapped' = overlapped
  BY <1>1 DEF tables, external, history
<1>6. OnlyPayment(p) BY <1>5 DEF OnlyPayment, SameStore
<1>7. base'[r] = row[p] BY <1>1, <1>2 DEF TypeOK
<1>8. Money(p)' = Money(p) BY <1>5 DEF Money
<1>9. OnlyHere(r, p) => Sees(r, p)'
  BY <1>1, <1>4, <1>5, <1>7, <1>8 DEF OnlyHere, Sees, SplitStep
<1>10. WillTell(r) => WillTell(r)' BY <1>4 DEF WillTell, Returning
<1>11. OnlyHere(r, p) => Told(p)'
  BY <1>4, <1>5, <1>10 DEF OnlyHere, Told
<1> QED BY <1>2, <1>3, <1>4, <1>5, <1>6, <1>9, <1>11, HandlerAlone

(* Alone on its payment, a save writes the status in memory.               *)
LEMMA UpdateWrites ==
  ASSUME TypeOK, Coherent, NEW r \in Request, SaveUpdate(r), NEW p \in Payment,
         p = target[r], OnlyHere(r, p)
  PROVE  row'[p].status = ent[r].status
<1>1. /\ pc[r] = "update"
      /\ row' = [row EXCEPT ![p] = Saved(ent[r], base[r], row[p])]
  BY DEF SaveUpdate
<1>2. ent[r] \in Row /\ row[p] \in Row BY DEF TypeOK
<1>3. base[r] = row[p] /\ row[p] # Absent BY <1>1 DEF OnlyHere, Sees
<1>4. PICK f : f = Saved(ent[r], row[p], row[p]) OBVIOUS
<1>5. f.status = ent[r].status BY <1>2, <1>3, <1>4, SavedIs
<1>6. row'[p] = f BY <1>1, <1>3, <1>4 DEF TypeOK
<1> QED BY <1>5, <1>6

(* The update of a save keeps Alone: it tells the row what Stripe did.     *)
LEMMA UpdateAlone ==
  ASSUME TypeOK, Coherent, \A q \in Payment : Alone(q), NEW r \in Request, SaveUpdate(r)
  PROVE  \A q \in Payment : Alone(q)'
<1>1. /\ pc[r] = "update" /\ Finish(r)
      /\ row' = [row EXCEPT ![target[r]] = Saved(ent[r], base[r], row[target[r]])]
      /\ UNCHANGED <<wallet, ledger, external, history>>
  BY DEF SaveUpdate
<1>2. PICK p \in Payment :
        /\ p = target[r] /\ Basics(p) /\ Counts(p) /\ ent[r] \in Row /\ row[p] \in Row
  BY <1>1, WorksOn
<1>3. OnlyHandler(r) /\ Gone(r) BY <1>1, FinishShape
<1>4. target'[r] # p BY <1>3, NullAssumption DEF Gone
<1>5. OnlyPayment(p) BY <1>1, <1>2 DEF OnlyPayment, SameStore, external, history, TypeOK
<1>6. refunded' = refunded /\ astray' = astray /\ overlapped' = overlapped
  BY <1>1 DEF external, history
<1>7. OnlyHere(r, p) => row'[p].status = ent[r].status BY <1>2, UpdateWrites
<1>8. OnlyHere(r, p) => Told(p)'
  <2>1. SUFFICES ASSUME OnlyHere(r, p), ent[r].status = "COMPLETED", refunded[p] > 0,
                        p \notin astray
                 PROVE  FALSE
    BY <1>6, <1>7 DEF Told
  <2>2. row[p] # Absent /\ Arrow(row[p].intent, Money(p), row[p].status, "COMPLETED")
    BY <1>1, <2>1 DEF OnlyHere, Sees
  <2>3. stripe[p] = "captured" /\ row[p].intent
    BY <1>2, <2>1, <2>2 DEF Counts, MovedOnce, Basics
  <2>4. Money(p) # "taken"
    <3>1. refunded[p] # 0 BY <2>1
    <3> QED BY <2>3, <3>1 DEF Money
  <2>5. row[p].status = "COMPLETED" BY <2>2, <2>3, <2>4 DEF Arrow
  <2>6. PICK s \in Request : target[s] = p /\ WillTell(s)
    BY <2>1, <2>5 DEF OnlyHere, Told
  <2>7. s = r BY <2>1, <2>6 DEF OnlyHere
  <2> QED BY <2>1, <2>6, <2>7 DEF WillTell
<1> QED BY <1>2, <1>3, <1>4, <1>5, <1>6, <1>8, HandlerAlone

(* Inserting a payment that is held keeps Alone.                           *)
LEMMA InsertAlone ==
  ASSUME TypeOK, Coherent, \A q \in Payment : Alone(q), NEW r \in Request, InsertHeld(r)
  PROVE  \A q \in Payment : Alone(q)'
<1>1. /\ pc[r] = "insert" /\ row' = [row EXCEPT ![target[r]] = ent[r]] /\ Finish(r)
      /\ UNCHANGED <<wallet, ledger, external, history>>
  BY DEF InsertHeld
<1>2. PICK p \in Payment : p = target[r] BY <1>1, WorksOn
<1>3. OnlyHandler(r) /\ Gone(r) BY <1>1, FinishShape
<1>4. target'[r] # p BY <1>3, NullAssumption DEF Gone
<1>5. OnlyPayment(p) BY <1>1, <1>2 DEF OnlyPayment, SameStore, external, history, TypeOK
<1>6. row'[p] = ent[r] /\ overlapped' = overlapped BY <1>1, <1>2 DEF history, TypeOK
<1>7. OnlyHere(r, p) => Told(p)' BY <1>1, <1>6 DEF OnlyHere, Sees, Told
<1> QED BY <1>2, <1>3, <1>4, <1>5, <1>6, <1>7, HandlerAlone

(* A request cut off keeps Alone: it leaves its payment astray when Stripe *)
(* has done what the row does not say.                                     *)
LEMMA AbortAlone ==
  ASSUME TypeOK, Coherent, \A q \in Payment : Alone(q), NEW r \in Request, Abort(r)
  PROVE  \A q \in Payment : Alone(q)'
<1>1. /\ pc[r] # "idle" /\ Finish(r) /\ UNCHANGED <<tables, external, overlapped>>
      /\ cut' = IF Splitting(r) THEN cut \cup {target[r]} ELSE cut
      /\ astray' = IF pc[r] \in {"select", "update"} /\ Returning(r)
                   THEN astray \cup {target[r]} ELSE astray
  BY DEF Abort
<1>2. PICK p \in Payment : p = target[r] BY <1>1, WorksOn
<1>3. OnlyHandler(r) /\ Gone(r) BY <1>1, FinishShape
<1>4. target'[r] # p BY <1>3, NullAssumption DEF Gone
<1>5. OnlyPayment(p) BY <1>1, <1>2 DEF OnlyPayment, SameStore, tables, external
<1>6. row'[p] = row[p] /\ refunded' = refunded /\ overlapped' = overlapped
      /\ (p \in astray => p \in astray')
  BY <1>1 DEF tables, external
<1>7. WillTell(r) => p \in astray' BY <1>1, <1>2 DEF WillTell
<1>8. OnlyHere(r, p) => Told(p)' BY <1>6, <1>7, ToldSame DEF Told
<1> QED BY <1>2, <1>3, <1>4, <1>5, <1>6, <1>8, HandlerAlone

(* Loading a payment and applying a command keeps Alone.                   *)
LEMMA FindAlone ==
  ASSUME TypeOK, Coherent, \A q \in Payment : Alone(q), NEW r \in Request,
         NEW p \in Payment, NEW c \in Command, FindPayment(r, p, c)
  PROVE  \A q \in Payment : Alone(q)'
<1>1. PICK e \in Row, b \in Row :
        /\ b = row[p] /\ b # Absent
        /\ e = IF FirstStep(c, b) = "select" THEN AfterCommand(c, b) ELSE b
        /\ FirstStep(c, b) # "reject" /\ Start(r, p, c, FirstStep(c, b))
        /\ ent' = [ent EXCEPT ![r] = e]
  BY AfterCommandEnds DEF FindPayment, TypeOK
<1>2. PICK step \in {"select", "capture", "cancel", "refund"} : step = FirstStep(c, b)
  BY <1>1, FirstStepIs
<1>3. UNCHANGED <<tables, external, base, role, purse, cut, astray>> BY DEF FindPayment
<1>4. /\ OnlyHandler(r) /\ pc[r] = "idle" /\ pc'[r] = step /\ target'[r] = p /\ ent'[r] = e
      /\ overlapped' = IF Busy(p) THEN overlapped \cup {p} ELSE overlapped
  BY <1>1, <1>2, <1>3, StartShape
<1>5. Basics(p) /\ target[r] = NoPayment BY <1>4, CoherentParts DEF Resting
<1>6. /\ row' = row /\ stripe' = stripe /\ refunded' = refunded /\ sent' = sent
      /\ ledger' = ledger /\ cut' = cut /\ astray' = astray
  BY <1>3 DEF tables, external
<1>7. OnlyPayment(p) BY <1>4, <1>6 DEF OnlyPayment, SameStore
<1>8. b.intent => b.status # "PENDING" BY <1>1, <1>5 DEF Basics, Backed
<1>9. step # "select" => e = b BY <1>1, <1>2
<1>10. PICK m : m = Money(p)' OBVIOUS
<1>11. step = "select" => Arrow(b.intent, m, b.status, e.status)
  <2>1. SUFFICES ASSUME step = "select" PROVE Arrow(b.intent, m, b.status, e.status)
    OBVIOUS
  <2>2. Ends(c, b, e) BY <1>1, <1>2, <2>1, AfterCommandEnds
  <2>3. /\ c.op # "split"
        /\ c.op = "complete" => b.status = "PENDING"
        /\ c.op = "fail" => b.status = "PENDING" \/ (b.status = "HELD" /\ ~b.intent)
        /\ c.op \in {"refund", "refundHalf"} =>
             b.status \in {"HELD", "COMPLETED"} /\ ~b.intent
    BY <1>1, <1>2, <2>1, FirstStepIs
  <2>4. b.intent \in BOOLEAN BY DEF Row
  <2> QED BY <1>8, <2>2, <2>3, <2>4, CommandFields DEF Ends, Arrow
<1>12. Sees(r, p)'
  <2>1. row'[p] = b BY <1>1, <1>6
  <2> QED BY <1>1, <1>4, <1>9, <1>10, <1>11, <2>1 DEF Sees, SplitStep
<1> QED BY <1>4, <1>5, <1>6, <1>7, <1>12, StartAlone

(* Creating a PaymentIntent keeps Alone.                                   *)
LEMMA IntentAlone ==
  ASSUME TypeOK, Coherent, \A q \in Payment : Alone(q), NEW r \in Request,
         NEW p \in Payment, NEW a \in Amount, CreateIntent(r, p, a)
  PROVE  \A q \in Payment : Alone(q)'
<1>1. PICK e : e = Hold(NewPayment(a)) OBVIOUS
<1>2. /\ Fresh(p) /\ Start(r, p, Idle, "insert") /\ ent' = [ent EXCEPT ![r] = e]
      /\ stripe' = [stripe EXCEPT ![p] = "created"]
      /\ UNCHANGED <<tables, refunded, sent, base, role, purse, cut, astray>>
  BY <1>1 DEF CreateIntent
<1>3. /\ OnlyHandler(r) /\ pc'[r] = "insert" /\ target'[r] = p /\ ent'[r] = e
      /\ pc[r] = "idle"
      /\ overlapped' = IF Busy(p) THEN overlapped \cup {p} ELSE overlapped
  BY <1>2, StartShape
<1>4. row[p] = Absent /\ target[r] = NoPayment
  BY <1>2, <1>3, FreshIs, CoherentParts DEF Resting
<1>5. /\ row' = row /\ refunded' = refunded /\ sent' = sent /\ ledger' = ledger
      /\ cut' = cut /\ astray' = astray
  BY <1>2 DEF tables
<1>6. OnlyPayment(p) BY <1>2, <1>3, <1>5 DEF OnlyPayment, SameStore, TypeOK
<1>7. e.status = "HELD" /\ e.intent BY <1>1, NewPaymentIs
<1>8. Sees(r, p)' BY <1>3, <1>4, <1>5, <1>7 DEF Sees, SplitStep
<1> QED BY <1>3, <1>4, <1>5, <1>6, <1>8, StartAlone

(* A step outside the handlers.                                            *)
LEMMA StripeAlone ==
  ASSUME NEW p \in Payment, OnlyPayment(p), \A s \in Request : SameMemory(s),
         \A q \in Payment : Alone(q), Alone(p)'
  PROVE  \A q \in Payment : Alone(q)'
<1> SUFFICES ASSUME NEW q \in Payment, q # p PROVE Alone(q)'
  OBVIOUS
<1>1. SameStore(q) BY DEF OnlyPayment
<1>2. Money(q)' = Money(q) BY <1>1 DEF SameStore, Money
<1> QED BY <1>1, <1>2, AloneStays DEF SameStore

(* Creating a payment without Stripe keeps Alone.                          *)
LEMMA CreateAlone ==
  ASSUME TypeOK, Coherent, \A q \in Payment : Alone(q),
         NEW p \in Payment, NEW a \in Amount, CreatePayment(p, a)
  PROVE  \A q \in Payment : Alone(q)'
<1>1. PICK e : e = NewPayment(a) OBVIOUS
<1>2. /\ Fresh(p) /\ row' = [row EXCEPT ![p] = e]
      /\ UNCHANGED <<wallet, ledger, external, pc, target, command, memory, history>>
  BY <1>1 DEF CreatePayment
<1>3. \A s \in Request : target[s] # p BY <1>2, FreshIs
<1>4. target' = target /\ row'[p] = e BY <1>2 DEF TypeOK
<1>5. OnlyPayment(p) BY <1>2 DEF OnlyPayment, SameStore, external, history, TypeOK
<1>6. \A s \in Request : SameMemory(s) BY <1>2 DEF SameMemory, memory
<1>7. e.status = "PENDING" BY <1>1, NewPaymentIs
<1>8. Alone(p)' BY <1>3, <1>4, <1>7 DEF Alone, Told
<1> QED BY <1>5, <1>6, <1>8, StripeAlone

(* Deleting a payment keeps Alone.                                         *)
LEMMA DeleteAlone ==
  ASSUME TypeOK, Coherent, \A q \in Payment : Alone(q), NEW p \in Payment,
         DeletePayment(p)
  PROVE  \A q \in Payment : Alone(q)'
<1>1. /\ row' = [row EXCEPT ![p] = Absent]
      /\ overlapped' = IF Busy(p) THEN overlapped \cup {p} ELSE overlapped
      /\ UNCHANGED <<wallet, ledger, external, pc, target, command, memory, cut, astray>>
  BY DEF DeletePayment
<1>2. target' = target /\ row'[p] = Absent BY <1>1 DEF TypeOK
<1>3. OnlyPayment(p) BY <1>1 DEF OnlyPayment, SameStore, external, TypeOK
<1>4. \A s \in Request : SameMemory(s) BY <1>1 DEF SameMemory, memory
<1>5. p \notin overlapped' => \A s \in Request : target[s] # p BY <1>1 DEF Busy
<1>6. Alone(p)' BY <1>2, <1>5, AbsentIs DEF Alone, Told
<1> QED BY <1>3, <1>4, <1>6, StripeAlone

(* What the customer's card does at Stripe keeps Alone.                    *)
LEMMA CardAlone ==
  ASSUME TypeOK, Coherent, \A q \in Payment : Alone(q), NEW p \in Payment,
         Authorize(p) \/ Lapse(p)
  PROVE  \A q \in Payment : Alone(q)'
<1>1. /\ stripe[p] \in {"created", "authorized"}
      /\ stripe' = [stripe EXCEPT ![p] = "authorized"]
           \/ stripe' = [stripe EXCEPT ![p] = "cancelled"]
      /\ UNCHANGED <<tables, refunded, sent, pc, target, command, memory, started, history>>
  BY DEF Authorize, Lapse
<1>2. /\ row' = row /\ refunded' = refunded /\ sent' = sent /\ ledger' = ledger
      /\ cut' = cut /\ astray' = astray /\ overlapped' = overlapped
  BY <1>1 DEF tables, history
<1>3. OnlyPayment(p) BY <1>1, <1>2 DEF OnlyPayment, SameStore, TypeOK
<1>4. \A s \in Request : SameMemory(s) BY <1>1 DEF SameMemory, memory
<1>5. Money(p) = "held" BY <1>1 DEF Money
<1>6. Alone(p)' BY <1>2, <1>4, <1>5, AloneStays
<1> QED BY <1>3, <1>4, <1>6, StripeAlone

(* A step that changes nothing keeps Alone.                                *)
LEMMA StutterAlone ==
  ASSUME \A q \in Payment : Alone(q), UNCHANGED vars
  PROVE  \A q \in Payment : Alone(q)'
<1>1. \A s \in Request : SameMemory(s) BY DEF vars, SameMemory
<1>2. \A q \in Payment : SameStore(q) BY DEF vars, SameStore
<1>3. \A q \in Payment : Money(q)' = Money(q) BY DEF vars, Money
<1> QED BY <1>1, <1>2, <1>3, AloneStays DEF SameStore

(* The inductive invariant of the service.                                 *)
IInv == TypeOK /\ Paying /\ Coherent /\ \A p \in Payment : Alone(p)

(* The empty tables satisfy the invariant.                                 *)
LEMMA InitInv == Init => IInv
<1> SUFFICES ASSUME Init PROVE \A p \in Payment : Alone(p)
  BY InitTyped, InitCoherent DEF IInv
<1>1. \A p \in Payment : \A s \in Request : target[s] # p BY NullAssumption DEF Init
<1>2. \A p \in Payment : row[p].status = "NONE" BY AbsentIs DEF Init
<1> QED BY <1>1, <1>2 DEF Alone, Told

(* Every step keeps the invariant.                                         *)
LEMMA StepInv == IInv /\ [Next]_vars => IInv'
<1> SUFFICES ASSUME IInv, [Next]_vars PROVE \A p \in Payment : Alone(p)'
  BY StepTyped, StepCoherent DEF IInv
<1>1. TypeOK /\ Coherent /\ \A p \in Payment : Alone(p) BY DEF IInv
<1> QED BY <1>1, CreateAlone, DeleteAlone, CardAlone, IntentAlone, FindAlone, InsertAlone,
           CancelAlone, RefundAlone, CaptureAlone, TransferAlone, CreditAlone, SelectAlone,
           UpdateAlone, AbortAlone, StutterAlone DEF Next

(* The invariant holds in every reachable state.                           *)
LEMMA Inductive == Spec => []IInv
BY InitInv, StepInv, PTL DEF Spec

-----------------------------------------------------------------------------
(* What follows of it.                                                     *)

(* However many handlers capture, transfer and credit at once, and         *)
(* whatever Stripe answers, each share of a payment is transferred and     *)
(* recorded once at most, and not before the customer paid.                *)
THEOREM SharesPaidOnce == Spec => []PaidOnce
<1>1. IInv => PaidOnce
  <2> SUFFICES ASSUME IInv, NEW p \in Payment, NEW x \in Role
               PROVE  /\ sent[p][x] <= 1 /\ ledger[p][x] <= 1
                      /\ sent[p][x] + ledger[p][x] > 0 => stripe[p] = "captured"
    BY DEF PaidOnce
  <2>1. MovedOnce(p) BY CoherentParts DEF IInv, Counts
  <2> QED BY <2>1 DEF MovedOnce
<1> QED BY <1>1, Inductive, PTL

(* What a row says of a card payment, Stripe did.                          *)
THEOREM RowsAreBacked == Spec => []StatusBacked
<1>1. IInv => StatusBacked
  <2> SUFFICES ASSUME IInv, NEW p \in Payment
               PROVE  /\ row[p].status = "COMPLETED" /\ row[p].intent =>
                           stripe[p] = "captured"
                      /\ row[p].status = "REFUNDED" /\ row[p].intent =>
                           Money(p) = "returned"
                      /\ \A x \in row[p].transfers : sent[p][x] > 0
    BY DEF StatusBacked
  <2>1. Backed(p, row[p]) BY CoherentParts DEF IInv, Basics
  <2> QED BY <2>1 DEF Backed
<1> QED BY <1>1, Inductive, PTL

(* A split cut short after its capture is never repaired.                  *)
THEOREM CutSplitsStayStuck == Spec => []CutSplitIsStuck
<1>1. IInv => CutSplitIsStuck
  <2> SUFFICES ASSUME IInv, NEW p \in cut
               PROVE  /\ row[p].status \notin {"COMPLETED", "REFUNDED"}
                      /\ stripe[p] = "captured" /\ refunded[p] = 0
    BY DEF CutSplitIsStuck
  <2>1. p \in Payment BY DEF IInv, TypeOK
  <2>2. Lock(p) BY <2>1, CoherentParts DEF IInv
  <2> QED BY <2>2 DEF Lock, Uncompleted
<1> QED BY <1>1, Inductive, PTL

(* The row tells where the money is, but for unanswered cancellations and  *)
(* refunds, and handlers that overlapped.                                  *)
THEOREM RowsTellMoney == Spec => []RowTellsMoney
<1>1. IInv => RowTellsMoney
  <2> SUFFICES ASSUME IInv, NEW p \in Payment
               PROVE  /\ row[p].status = "FAILED" /\ stripe[p] = "captured" => p \in astray
                      /\ row[p].status = "COMPLETED" /\ refunded[p] > 0 /\ ~Busy(p) =>
                           p \in astray \cup overlapped
    BY DEF RowTellsMoney
  <2>1. Basics(p) /\ Alone(p) BY CoherentParts DEF IInv
  <2>2. row[p].status = "FAILED" /\ stripe[p] = "captured" => p \in astray
    <3>1. row[p].status = "FAILED" => row[p] # Absent BY AbsentIs
    <3> QED BY <2>1, <3>1 DEF Basics, Backed
  <2> QED BY <2>1, <2>2 DEF Alone, Told, Busy
<1> QED BY <1>1, Inductive, PTL

(* One row changes its status, in terms of the status flow.                *)
LEMMA LifeGoes ==
  ASSUME NEW p \in Payment, NEW old, NEW new, row[p].status = old,
         \A q \in Payment : row'[q].status = IF q = p THEN new ELSE row[q].status
  PROVE  Life!Goes(p, old, new)
BY DEF Life!Goes

(* Outside overlaps the status column follows PaymentLife.                 *)
THEOREM FollowsLife == Spec => UndisturbedFollowsLife
<1>1. IInv /\ [Next]_vars =>
        [\A p \in Payment :
           p \in overlapped' \/ row'[p].status = row[p].status \/ Life!Step(p)]_vars
  <2> SUFFICES ASSUME IInv, Next, NEW p \in Payment, p \notin overlapped',
                      row'[p].status # row[p].status
               PROVE  Life!Step(p)
    OBVIOUS
  <2>1. TypeOK /\ Coherent BY DEF IInv
  <2>2. ASSUME NEW x \in Payment, NEW e, row' = [row EXCEPT ![x] = e]
        PROVE  /\ x = p /\ row'[p] = e
               /\ \A q \in Payment : row'[q].status = IF q = p THEN e.status
                                                      ELSE row[q].status
    BY <2>1, <2>2 DEF TypeOK
  <2>3. ASSUME NEW x \in Payment, NEW a \in Amount, CreatePayment(x, a) PROVE Life!Step(p)
    <3>1. PICK e : e = NewPayment(a) OBVIOUS
    <3>2. row[x] = Absent /\ row' = [row EXCEPT ![x] = e]
      BY <2>3, <3>1 DEF CreatePayment, Fresh
    <3>3. row[p].status = "NONE" /\ e.status = "PENDING" /\ ~e.intent
      BY <2>2, <3>1, <3>2, NewPaymentIs, AbsentIs
    <3>4. Life!Goes(p, "NONE", "PENDING") BY <2>2, <3>2, <3>3, LifeGoes
    <3>5. ~row'[p].intent BY <2>2, <3>2, <3>3
    <3> QED BY <3>4, <3>5 DEF Life!Step, Life!Created
  <2>4. ASSUME NEW r \in Request, InsertHeld(r) PROVE Life!Step(p)
    <3>1. /\ pc[r] = "insert" /\ row' = [row EXCEPT ![target[r]] = ent[r]]
          /\ overlapped' = overlapped
      BY <2>4 DEF InsertHeld, history
    <3>2. PICK x \in Payment : x = target[r] BY <2>1, <3>1, WorksOn
    <3>3. x = p /\ row'[p] = ent[r] BY <2>2, <3>1, <3>2
    <3>4. Sees(r, p) BY <3>1, <3>2, <3>3 DEF IInv, Alone
    <3>5. row[p].status = "NONE" /\ ent[r].status = "HELD" /\ ent[r].intent
      BY <3>1, <3>4, AbsentIs DEF Sees
    <3>6. Life!Goes(p, "NONE", "HELD") BY <2>2, <3>1, <3>2, <3>5, LifeGoes
    <3> QED BY <3>3, <3>5, <3>6 DEF Life!Step, Life!Created
  <2>5. ASSUME NEW r \in Request, SaveUpdate(r) PROVE Life!Step(p)
    <3>1. /\ pc[r] = "update" /\ overlapped' = overlapped
          /\ row' = [row EXCEPT ![target[r]] = Saved(ent[r], base[r], row[target[r]])]
      BY <2>5 DEF SaveUpdate, history
    <3>2. PICK x \in Payment : x = target[r] BY <2>1, <3>1, WorksOn
    <3>3. x = p BY <2>2, <3>1, <3>2
    <3>4. OnlyHere(r, p) BY <3>1, <3>2, <3>3 DEF IInv, Alone, OnlyHere
    <3>5. row'[p].status = ent[r].status
      BY <2>1, <2>5, <3>2, <3>3, <3>4, UpdateWrites
    <3>6. Arrow(row[p].intent, Money(p), row[p].status, ent[r].status)
      BY <3>1, <3>4 DEF OnlyHere, Sees
    <3>7. ASSUME NEW old, NEW new, row[p].status = old, ent[r].status = new
          PROVE  Life!Goes(p, old, new)
      <4>1. \A q \in Payment : row'[q].status = IF q = p THEN new ELSE row[q].status
        BY <2>2, <3>1, <3>2, <3>3, <3>5, <3>7
      <4> QED BY <3>7, <4>1, LifeGoes
    <3>8. CASE ~row[p].intent /\ row[p].status = "PENDING" /\ ent[r].status = "COMPLETED"
      BY <3>7, <3>8 DEF Life!Step, Life!Completed
    <3>9. CASE /\ row[p].intent /\ Money(p) = "taken" /\ row[p].status = "HELD"
               /\ ent[r].status = "COMPLETED"
      BY <3>7, <3>9 DEF Life!Step, Life!Completed
    <3>10. CASE row[p].status \in {"PENDING", "HELD"} /\ ent[r].status = "FAILED"
      BY <3>7, <3>10 DEF Life!Step, Life!Failed
    <3>11. CASE /\ row[p].status \in {"HELD", "COMPLETED"} /\ ent[r].status = "REFUNDED"
                /\ row[p].intent => Money(p) = "returned"
      BY <3>7, <3>11 DEF Life!Step, Life!Refunded
    <3> QED BY <3>5, <3>6, <3>8, <3>9, <3>10, <3>11 DEF Arrow
  <2>6. ASSUME NEW x \in Payment, DeletePayment(x) PROVE Life!Step(p)
    <3>1. row' = [row EXCEPT ![x] = Absent] BY <2>6 DEF DeletePayment
    <3>2. PICK old : old = row[p].status OBVIOUS
    <3>3. row'[p].status = "NONE" BY <2>2, <3>1, AbsentIs
    <3>4. \A q \in Payment : row'[q].status = IF q = p THEN "NONE" ELSE row[q].status
      BY <2>2, <3>1, AbsentIs
    <3>5. Life!Deleted(p) BY <3>3, <3>4 DEF Life!Deleted
    <3> QED BY <3>5 DEF Life!Step
  <2>7. row' # row BY <2>1
  <2> QED
    BY <2>1, <2>3, <2>4, <2>5, <2>6, <2>7, CreditShape
    DEF Next, CreateIntent, FindPayment, Authorize, Lapse, CancelIntent, RefundIntent,
        Capture, Transfer, SaveSelect, Abort, tables
<1> QED BY <1>1, Inductive, PTL DEF Spec, UndisturbedFollowsLife

(* With the shares of the code, 70 and 20 percent of what Stripe leaves,   *)
(* the two roundings never take more than there is.                        *)
LEMMA SharesFit ==
  ASSUME Percents = [merchant |-> 70, driver |-> 20], NEW a \in Nat
  PROVE  /\ Share(a, "merchant") \in Nat /\ Share(a, "driver") \in Nat
         /\ Share(a, "merchant") + Share(a, "driver") <= Net(a)
<1>1. PICK n : n = Net(a) OBVIOUS
<1>2. n \in Nat BY <1>1 DEF Net, Rounded
<1>3. /\ (140 * n + 100) \div 200 \in Nat /\ (40 * n + 100) \div 200 \in Nat
      /\ (140 * n + 100) \div 200 + (40 * n + 100) \div 200 <= n
  BY <1>2
<1>4. /\ Share(a, "merchant") = (140 * n + 100) \div 200
      /\ Share(a, "driver") = (40 * n + 100) \div 200
  BY <1>1, <1>2 DEF Share, Rounded
<1> QED BY <1>1, <1>3, <1>4

(* The transfers of a payment never exceed what Stripe leaves of it.       *)
THEOREM NobodyOverpaid ==
  ASSUME Percents = [merchant |-> 70, driver |-> 20]
  PROVE  Spec => []NeverOverpaid
<1>1. IInv => NeverOverpaid
  <2> SUFFICES ASSUME IInv, NEW p \in Payment
               PROVE  sent[p]["merchant"] * Share(row[p].amount, "merchant")
                        + sent[p]["driver"] * Share(row[p].amount, "driver")
                      <= Net(row[p].amount)
    BY DEF NeverOverpaid
  <2>1. MovedOnce(p) BY CoherentParts DEF IInv, Counts
  <2>2. sent[p]["merchant"] \in {0, 1} /\ sent[p]["driver"] \in {0, 1}
    <3>1. sent[p]["merchant"] \in Nat /\ sent[p]["driver"] \in Nat
      BY DEF IInv, TypeOK, Role
    <3>2. sent[p]["merchant"] <= 1 /\ sent[p]["driver"] <= 1 BY <2>1 DEF MovedOnce, Role
    <3> QED BY <3>1, <3>2
  <2>3. PICK a \in Nat : a = row[p].amount
    <3>1. row[p] \in Row BY DEF IInv, TypeOK
    <3> QED BY <3>1, AmountAssumption DEF Row
  <2>4. PICK m \in Nat, d \in Nat :
          /\ m = Share(a, "merchant") /\ d = Share(a, "driver") /\ m + d <= Net(a)
    BY SharesFit
  <2>5. Net(a) \in Nat BY DEF Net, Rounded
  <2> QED BY <2>2, <2>3, <2>4, <2>5
<1> QED BY <1>1, Inductive, PTL

-----------------------------------------------------------------------------
(* Whose wallet holds a share: the rows, and the purses about to be written. *)

Slot == Payment \cup {NoPayment}

Place(o, p, w) ==
  \/ w \in DOMAIN wallet[o] /\ p \in wallet[o][w]
  \/ \E s \in Request : /\ pc[s] = "saveWallet" /\ CreditedOwner(s) = o
                        /\ purse[s].id = w /\ p \in purse[s].holds

Uncredited(o, p) == \A w \in Slot : ~Place(o, p, w)

(* The split of r has yet to credit the owner o.                           *)
Ahead(r, o) ==
  \/ pc[r] = "transfer"
  \/ pc[r] \in {"findWallet", "createWallet"} /\ (role[r] = "merchant" \/ o # Merchant)
  \/ pc[r] \in {"saveWallet", "record"} /\ role[r] = "merchant" /\ o # Merchant

AheadOf(r, o, p) == target[r] = p /\ Ahead(r, o)

(* A share is in one place, and in none before it is credited.             *)
InOnePlace(p) ==
  \A o \in Owner :
    /\ \A w, x \in Slot : Place(o, p, w) /\ Place(o, p, x) => w = x
    /\ stripe[p] # "captured" => Uncredited(o, p)
    /\ \A r \in Request : AheadOf(r, o, p) => Uncredited(o, p)

Shares == \A p \in Payment : InOnePlace(p)

PlacesKept ==
  \A o \in Owner, p \in Payment, w \in Slot : Place(o, p, w)' => Place(o, p, w)

CapturedStays == \A p \in Payment : stripe[p] = "captured" => stripe'[p] = "captured"

AheadKept ==
  \A r \in Request, o \in Owner, p \in Payment :
    AheadOf(r, o, p)' => AheadOf(r, o, p) \/ stripe[p] # "captured"

(* Nothing is credited.                                                    *)
LEMMA NothingCredited ==
  ASSUME Shares, PlacesKept, CapturedStays, AheadKept
  PROVE  Shares'
<1> SUFFICES ASSUME NEW p \in Payment, NEW o \in Owner
             PROVE  /\ \A w, x \in Slot : Place(o, p, w)' /\ Place(o, p, x)' => w = x
                    /\ stripe'[p] # "captured" => Uncredited(o, p)'
                    /\ \A r \in Request : AheadOf(r, o, p)' => Uncredited(o, p)'
  BY DEF Shares, InOnePlace
<1>1. /\ \A w, x \in Slot : Place(o, p, w) /\ Place(o, p, x) => w = x
      /\ stripe[p] # "captured" => Uncredited(o, p)
      /\ \A r \in Request : AheadOf(r, o, p) => Uncredited(o, p)
  BY DEF Shares, InOnePlace
<1>2. \A w \in Slot : Place(o, p, w)' => Place(o, p, w)
  BY DEF PlacesKept
<1>3. Uncredited(o, p) => Uncredited(o, p)'
  BY <1>2 DEF Uncredited
<1>4. \A r \in Request : AheadOf(r, o, p)' => AheadOf(r, o, p) \/ stripe[p] # "captured"
  BY DEF AheadKept
<1> QED BY <1>1, <1>2, <1>3, <1>4 DEF CapturedStays

(* The share of p goes to the owner o, into the purse for the row w.       *)
Credited(o, p, w) ==
  \A x \in Owner, q \in Payment, v \in Slot :
    Place(x, q, v)' => Place(x, q, v) \/ (x = o /\ q = p /\ v = w)

AheadLess(o, p) ==
  \A r \in Request, x \in Owner, q \in Payment :
    AheadOf(r, x, q)' => AheadOf(r, x, q) /\ ~(x = o /\ q = p)

(* A credit by a handler that was ahead of it.                             *)
LEMMA OneCredited ==
  ASSUME Shares, NEW r \in Request, NEW o \in Owner, NEW p \in Payment, NEW w \in Slot,
         AheadOf(r, o, p), stripe[p] = "captured", stripe' = stripe,
         Credited(o, p, w), AheadLess(o, p)
  PROVE  Shares'
<1> SUFFICES ASSUME NEW q \in Payment, NEW x \in Owner
             PROVE  /\ \A v, y \in Slot : Place(x, q, v)' /\ Place(x, q, y)' => v = y
                    /\ stripe'[q] # "captured" => Uncredited(x, q)'
                    /\ \A s \in Request : AheadOf(s, x, q)' => Uncredited(x, q)'
  BY DEF Shares, InOnePlace
<1>1. /\ \A v, y \in Slot : Place(x, q, v) /\ Place(x, q, y) => v = y
      /\ stripe[q] # "captured" => Uncredited(x, q)
      /\ \A s \in Request : AheadOf(s, x, q) => Uncredited(x, q)
  BY DEF Shares, InOnePlace
<1>2. \A v \in Slot : Place(x, q, v)' => Place(x, q, v) \/ (x = o /\ q = p /\ v = w)
  BY DEF Credited
<1>3. \A s \in Request : AheadOf(s, x, q)' => AheadOf(s, x, q) /\ ~(x = o /\ q = p)
  BY DEF AheadLess
<1>4. CASE x = o /\ q = p
  <2>1. Uncredited(x, q) BY <1>1, <1>4
  <2>2. \A v \in Slot : Place(x, q, v)' => v = w BY <1>2, <2>1 DEF Uncredited
  <2> QED BY <1>3, <1>4, <2>2
<1>5. CASE ~(x = o /\ q = p)
  <2>1. \A v \in Slot : Place(x, q, v)' => Place(x, q, v) BY <1>2, <1>5
  <2>2. Uncredited(x, q) => Uncredited(x, q)' BY <2>1 DEF Uncredited
  <2> QED BY <1>1, <1>3, <2>1, <2>2
<1> QED BY <1>4, <1>5

(* A handler that neither leaves nor enters saveWallet with a new purse    *)
(* moves no share.                                                         *)
LEMMA PlacesStay ==
  ASSUME NEW r \in Request, OnlyHandler(r), wallet' = wallet,
         \A s \in Request : s # r => purse'[s] = purse[s], pc'[r] # "saveWallet"
  PROVE  PlacesKept
<1> SUFFICES ASSUME NEW o \in Owner, NEW p \in Payment, NEW w \in Slot, Place(o, p, w)'
             PROVE  Place(o, p, w)
  BY DEF PlacesKept
<1>1. CASE w \in DOMAIN wallet'[o] /\ p \in wallet'[o][w]
  BY <1>1 DEF Place
<1>2. ASSUME NEW s \in Request, pc'[s] = "saveWallet", CreditedOwner(s)' = o,
             purse'[s].id = w, p \in purse'[s].holds
      PROVE  Place(o, p, w)
  <2>1. s # r BY <1>2
  <2>2. pc[s] = "saveWallet" /\ purse'[s] = purse[s] /\ CreditedOwner(s) = o
    BY <1>2, <2>1 DEF OnlyHandler, SameMemory, CreditedOwner
  <2> QED BY <1>2, <2>2 DEF Place
<1> QED BY <1>1, <1>2 DEF Place

(* A step of one handler that puts no share ahead, unless it just captured *)
(* the payment, leaves the shares ahead as they were.                      *)
LEMMA AheadStays ==
  ASSUME NEW r \in Request, OnlyHandler(r),
         \A o \in Owner, p \in Payment :
           AheadOf(r, o, p)' => AheadOf(r, o, p) \/ stripe[p] # "captured"
  PROVE  AheadKept
<1>1. ASSUME NEW s \in Request, NEW o \in Owner, NEW p \in Payment, AheadOf(s, o, p)'
      PROVE  AheadOf(s, o, p) \/ stripe[p] # "captured"
  <2>1. CASE s = r BY <1>1, <2>1
  <2>2. CASE s # r
    BY <1>1, <2>2 DEF OnlyHandler, SameMemory, AheadOf, Ahead
  <2> QED BY <2>1, <2>2
<1> QED BY <1>1 DEF AheadKept

(* Finish, and every step that leaves the handler outside the split.       *)
LEMMA AsideShares ==
  ASSUME Shares, NEW r \in Request, OnlyHandler(r), wallet' = wallet, CapturedStays,
         \A s \in Request : s # r => purse'[s] = purse[s], pc'[r] \notin SplitStep
  PROVE  Shares'
<1>1. PlacesKept BY PlacesStay DEF SplitStep
<1>2. AheadKept BY AheadStays DEF AheadOf, Ahead, SplitStep
<1> QED BY <1>1, <1>2, NothingCredited

(* A step no handler takes part in.                                        *)
LEMMA TableShares ==
  ASSUME Shares, UNCHANGED <<wallet, pc, target, memory>>, CapturedStays
  PROVE  Shares'
<1>1. PlacesKept BY DEF PlacesKept, Place, CreditedOwner, memory
<1>2. AheadKept BY DEF AheadKept, AheadOf, Ahead, memory
<1> QED BY <1>1, <1>2, NothingCredited

(* The handler is gone, or its memory is not touched.                      *)
LEMMA OtherPurses ==
  ASSUME TypeOK, NEW r \in Request, Finish(r) \/ UNCHANGED purse
  PROVE  \A s \in Request : s # r => purse'[s] = purse[s]
BY DEF TypeOK, Finish

(* A request that ends with the wallets as they are keeps every share in   *)
(* one place.                                                              *)
LEMMA GoneAside ==
  ASSUME TypeOK, Shares, NEW r \in Request, Finish(r), wallet' = wallet, CapturedStays
  PROVE  Shares'
<1>1. OnlyHandler(r) /\ pc'[r] = "idle" BY FinishShape DEF Gone
<1> QED BY <1>1, OtherPurses, AsideShares DEF SplitStep

(* Stripe keeps what it captured.                                          *)
LEMMA StripeKeeps ==
  ASSUME TypeOK, NEW p \in Payment, NEW i \in Intent,
         stripe' = stripe \/ (stripe' = [stripe EXCEPT ![p] = i] /\ stripe[p] # "captured")
  PROVE  CapturedStays
BY DEF TypeOK, CapturedStays

(* Capturing keeps every share in one place: both are ahead of the one     *)
(* split that captured.                                                    *)
LEMMA CaptureShares ==
  ASSUME TypeOK, Coherent, Shares, NEW r \in Request, Capture(r)
  PROVE  Shares'
<1>1. pc[r] = "capture" /\ wallet' = wallet BY DEF Capture, tables
<1>2. PICK p \in Payment : p = target[r] BY <1>1, WorksOn
<1>3. PICK x \in Outcomes(Capturable(p)) :
        /\ stripe' = IF x.done THEN [stripe EXCEPT ![p] = "captured"] ELSE stripe
        /\ IF x.heard THEN GoTo(r, "transfer") /\ UNCHANGED memory ELSE Finish(r)
  BY <1>2 DEF Capture
<1>4. (x.done => stripe[p] = "authorized") /\ (x.heard => x.done)
  BY DEF Outcomes, Capturable
<1>5. CapturedStays
  BY <1>3, <1>4, StripeKeeps DEF Intent
<1>6. CASE x.heard
  <2>1. GoTo(r, "transfer") /\ UNCHANGED <<ent, base, role, purse>>
    BY <1>3, <1>6 DEF memory
  <2>2. OnlyHandler(r) /\ GoesOn(r, "transfer", ent[r]) BY <2>1, KeepShape
  <2>3. PlacesKept BY <1>1, <2>1, <2>2, PlacesStay DEF GoesOn
  <2>4. \A o \in Owner, q \in Payment : AheadOf(r, o, q)' => stripe[q] # "captured"
    BY <1>2, <1>4, <1>6, <2>2 DEF AheadOf, GoesOn
  <2> QED BY <1>5, <2>2, <2>3, <2>4, AheadStays, NothingCredited
<1>7. CASE ~x.heard
  BY <1>1, <1>3, <1>5, <1>7, GoneAside
<1> QED BY <1>6, <1>7

(* Transferring keeps every share in one place.                            *)
LEMMA TransferShares ==
  ASSUME TypeOK, Shares, NEW r \in Request, Transfer(r)
  PROVE  Shares'
<1>1. /\ pc[r] = "transfer" /\ UNCHANGED <<tables, stripe, base, purse>>
      /\ \/ GoTo(r, "transfer") \/ GoTo(r, "findWallet")
  BY DEF Transfer
<1>2. PICK e : ent' = [ent EXCEPT ![r] = e]
  <2>1. ent = [ent EXCEPT ![r] = ent[r]] BY DEF TypeOK
  <2>2. ent' = ent \/ ent' = [ent EXCEPT ![r] = [ent[r] EXCEPT !.transfers = @ \cup {role[r]}]]
    BY DEF Transfer, TypeOK
  <2> QED BY <2>1, <2>2
<1>3. \E x : role' = [role EXCEPT ![r] = x] BY DEF Transfer
<1>4. PICK step \in {"transfer", "findWallet"} : GoTo(r, step) BY <1>1
<1>5. OnlyHandler(r) /\ GoesOn(r, step, e) BY <1>1, <1>2, <1>3, <1>4, GoToShape
<1>6. PlacesKept BY <1>1, <1>5, PlacesStay DEF GoesOn, tables
<1>7. \A o \in Owner, q \in Payment : AheadOf(r, o, q)' => AheadOf(r, o, q)
  BY <1>1, <1>5 DEF AheadOf, Ahead, GoesOn
<1>8. CapturedStays BY <1>1 DEF CapturedStays
<1> QED BY <1>5, <1>6, <1>7, <1>8, AheadStays, NothingCredited

(* On to the courier's share, or to the end of the split.                  *)
LEMMA NextShares ==
  ASSUME TypeOK, Shares, NEW r \in Request, pc[r] \in CreditStep, NextCredit(r),
         stripe' = stripe, PlacesKept \/ wallet' = wallet
  PROVE  Shares'
<1>1. OnlyHandler(r) /\ NextMove(r) BY NextCreditShape
<1>2. \A s \in Request : s # r => purse'[s] = purse[s]
  BY OtherPurses DEF NextCredit, CompleteSplit, TypeOK
<1>3. PlacesKept
  <2>1. pc'[r] # "saveWallet" BY <1>1 DEF NextMove, GoesOn, Gone
  <2> QED BY <1>1, <1>2, <2>1, PlacesStay
<1>4. \A o \in Owner, q \in Payment : AheadOf(r, o, q)' => AheadOf(r, o, q)
  BY <1>1 DEF NextMove, AheadOf, Ahead, GoesOn, Gone, CreditStep
<1>5. CapturedStays BY DEF CapturedStays
<1> QED BY <1>1, <1>3, <1>4, <1>5, AheadStays, NothingCredited

(* Wallet.credit on a purse made of the row w: the share of the handler's  *)
(* payment joins those that were in the row.                               *)
LEMMA CreditShares ==
  ASSUME TypeOK, Paying, Coherent, Shares, NEW r \in Request,
         pc[r] \in {"findWallet", "createWallet"}, stripe' = stripe,
         NEW w \in Payment, NEW holds \in SUBSET Payment, CreditPurse(r, w, holds),
         \A q \in holds : Place(CreditedOwner(r), q, w),
         \A o \in Owner, q \in Payment, v \in Slot :
           v \in DOMAIN wallet'[o] /\ q \in wallet'[o][v] =>
             v \in DOMAIN wallet[o] /\ q \in wallet[o][v]
  PROVE  Shares'
<1>1. pc[r] \in CreditStep BY DEF CreditStep
<1>2. CASE Share(ent[r].amount, role[r]) > 0
  <2>1. /\ purse' = [purse EXCEPT ![r] = [id |-> w, holds |-> holds \cup {target[r]}]]
        /\ GoTo(r, "saveWallet") /\ UNCHANGED <<ent, base, role, cut>>
    BY <1>2 DEF CreditPurse
  <2>2. OnlyHandler(r) /\ GoesOn(r, "saveWallet", ent[r]) BY <2>1, KeepShape
  <2>3. PICK p \in Payment : p = target[r] /\ Lock(p) /\ HandlerBasics(r, p)
    BY <1>1, WorksOn DEF CreditStep
  <2>4. PICK o \in Owner : o = CreditedOwner(r) BY <1>1, TypeHalves, CreditedIs
  <2>5. Splitting(r) /\ stripe[p] = "captured"
    <3>1. command[r].op = "split" BY <2>3 DEF HandlerBasics, StepFits, SplitStep
    <3>2. Splitting(r) BY <3>1 DEF Splitting
    <3> QED BY <2>3, <3>2 DEF Lock, Uncompleted
  <2>6. o = Merchant <=> role[r] = "merchant"
    <3>1. role[r] = "driver" => ent[r].driver \in Driver BY <1>1 DEF Paying
    <3>2. role[r] \in {"merchant", "driver"} BY DEF TypeOK, Role
    <3> QED BY <2>4, <3>1, <3>2, NullAssumption DEF CreditedOwner
  <2>7. AheadOf(r, o, p) BY <2>3, <2>6 DEF AheadOf, Ahead
  <2>8. purse'[r].id = w /\ purse'[r].holds = holds \cup {p}
        /\ \A s \in Request : s # r => purse'[s] = purse[s]
    BY <2>1, <2>3 DEF TypeOK
  <2>9. Credited(o, p, w)
    <3> SUFFICES ASSUME NEW x \in Owner, NEW q \in Payment, NEW v \in Slot, Place(x, q, v)'
                 PROVE  Place(x, q, v) \/ (x = o /\ q = p /\ v = w)
      BY DEF Credited
    <3>1. CASE v \in DOMAIN wallet'[x] /\ q \in wallet'[x][v] BY <3>1 DEF Place
    <3>2. ASSUME NEW s \in Request, pc'[s] = "saveWallet", CreditedOwner(s)' = x,
                 purse'[s].id = v, q \in purse'[s].holds
          PROVE  Place(x, q, v) \/ (x = o /\ q = p /\ v = w)
      <4>1. CASE s = r
        <5>1. CreditedOwner(r)' = o BY <2>1, <2>4 DEF CreditedOwner
        <5> QED BY <2>4, <2>8, <3>2, <4>1, <5>1
      <4>2. CASE s # r
        <5>1. pc[s] = "saveWallet" /\ purse'[s] = purse[s] /\ CreditedOwner(s) = x
          BY <2>2, <2>8, <3>2, <4>2 DEF OnlyHandler, SameMemory, CreditedOwner
        <5> QED BY <3>2, <5>1 DEF Place
      <4> QED BY <4>1, <4>2
    <3> QED BY <3>1, <3>2 DEF Place
  <2>10. AheadLess(o, p)
    <3> SUFFICES ASSUME NEW s \in Request, NEW x \in Owner, NEW q \in Payment, AheadOf(s, x, q)'
                 PROVE  AheadOf(s, x, q) /\ ~(x = o /\ q = p)
      BY DEF AheadLess
    <3>1. CASE s = r
      BY <2>1, <2>2, <2>3, <2>6, <3>1 DEF AheadOf, Ahead, GoesOn
    <3>2. CASE s # r
      <4>1. AheadOf(s, x, q) BY <2>2, <3>2 DEF OnlyHandler, SameMemory, AheadOf, Ahead
      <4>2. ASSUME q = p PROVE FALSE
        <5>1. pc[s] \in SplitStep /\ target[s] = p
          BY <4>1, <4>2 DEF AheadOf, Ahead, SplitStep
        <5>2. pc[s] # "idle" BY <5>1 DEF SplitStep
        <5>3. command[s].op = "split"
          BY <5>1, <5>2, WorksOn DEF HandlerBasics, StepFits
        <5>4. Splitting(s) BY <5>1, <5>3 DEF Splitting, SplitStep
        <5> QED BY <2>3, <2>5, <3>2, <5>1, <5>4 DEF Lock
      <4> QED BY <4>1, <4>2
    <3> QED BY <3>1, <3>2
  <2> QED BY <2>5, <2>7, <2>9, <2>10, OneCredited DEF Slot
<1>3. CASE ~(Share(ent[r].amount, role[r]) > 0)
  <2>1. NextCredit(r) BY <1>3 DEF CreditPurse
  <2>2. OnlyHandler(r) /\ NextMove(r) BY <2>1, NextCreditShape
  <2>3. \A s \in Request : s # r => purse'[s] = purse[s]
    BY <2>1, OtherPurses DEF NextCredit, CompleteSplit, TypeOK
  <2>4. PlacesKept
    <3> SUFFICES ASSUME NEW x \in Owner, NEW q \in Payment, NEW v \in Slot, Place(x, q, v)'
                 PROVE  Place(x, q, v)
      BY DEF PlacesKept
    <3>1. CASE v \in DOMAIN wallet'[x] /\ q \in wallet'[x][v] BY <3>1 DEF Place
    <3>2. ASSUME NEW s \in Request, pc'[s] = "saveWallet", CreditedOwner(s)' = x,
                 purse'[s].id = v, q \in purse'[s].holds
          PROVE  Place(x, q, v)
      <4>1. s # r BY <2>2, <3>2 DEF NextMove, GoesOn, Gone
      <4>2. pc[s] = "saveWallet" /\ purse'[s] = purse[s] /\ CreditedOwner(s) = x
        BY <2>2, <2>3, <3>2, <4>1 DEF OnlyHandler, SameMemory, CreditedOwner
      <4> QED BY <3>2, <4>2 DEF Place
    <3> QED BY <3>1, <3>2 DEF Place
  <2> QED BY <1>1, <2>1, <2>4, NextShares
<1> QED BY <1>2, <1>3

(* Loading a wallet and crediting it in memory keeps every share in one    *)
(* place: it moves from ahead into that memory.                            *)
LEMMA FindWalletShares ==
  ASSUME TypeOK, Paying, Coherent, Shares, NEW r \in Request, FindWallet(r)
  PROVE  Shares'
<1>1. pc[r] = "findWallet" /\ wallet' = wallet /\ stripe' = stripe
  BY DEF FindWallet, tables, external
<1>2. pc[r] \in CreditStep BY <1>1 DEF CreditStep
<1>3. PICK o \in Owner : o = CreditedOwner(r) BY <1>2, TypeHalves, CreditedIs
<1>4. /\ DOMAIN wallet[o] \subseteq Payment
      /\ \A w \in DOMAIN wallet[o] : wallet[o][w] \in SUBSET Payment
  <2>1. wallet[o] \in Rows BY DEF TypeOK
  <2> QED BY <2>1 DEF Rows
<1>5. CASE \E w \in DOMAIN wallet[o] : CreditPurse(r, w, wallet[o][w])
  <2>1. PICK w \in DOMAIN wallet[o] : CreditPurse(r, w, wallet[o][w]) BY <1>5
  <2>2. \A q \in wallet[o][w] : Place(o, q, w) BY DEF Place
  <2> QED BY <1>1, <1>3, <1>4, <2>1, <2>2, CreditShares
<1>6. CASE GoTo(r, "createWallet") /\ UNCHANGED <<memory, cut>>
  <2>1. OnlyHandler(r) /\ GoesOn(r, "createWallet", ent[r]) /\ role' = role /\ purse' = purse
    BY <1>6, KeepShape DEF memory
  <2>2. PlacesKept BY <1>1, <2>1, PlacesStay DEF GoesOn
  <2>3. \A x \in Owner, q \in Payment : AheadOf(r, x, q)' => AheadOf(r, x, q)
    BY <1>1, <2>1 DEF AheadOf, Ahead, GoesOn
  <2>4. CapturedStays BY <1>1 DEF CapturedStays
  <2> QED BY <2>1, <2>2, <2>3, <2>4, AheadStays, NothingCredited
<1>7. CASE NextCredit(r) BY <1>1, <1>2, <1>7, NextShares
<1> QED BY <1>3, <1>5, <1>6, <1>7 DEF FindWallet

(* So does crediting a wallet just created.                                *)
LEMMA CreateWalletShares ==
  ASSUME TypeOK, Paying, Coherent, Shares, NEW r \in Request, CreateWallet(r)
  PROVE  Shares'
<1>1. pc[r] = "createWallet" /\ stripe' = stripe BY DEF CreateWallet, external
<1>2. pc[r] \in CreditStep BY <1>1 DEF CreditStep
<1>3. PICK o \in Owner : o = CreditedOwner(r) BY <1>2, TypeHalves, CreditedIs
<1>4. PICK p \in Payment : p = target[r] BY <1>1, WorksOn
<1>5. CASE /\ wallet' = [wallet EXCEPT ![o] =
                          [w \in DOMAIN @ \cup {p} |-> IF w = p THEN {} ELSE @[w]]]
           /\ CreditPurse(r, p, {})
  <2>1. PICK rows : rows = [w \in DOMAIN wallet[o] \cup {p} |-> IF w = p THEN {} ELSE wallet[o][w]]
    OBVIOUS
  <2>2. wallet' = [wallet EXCEPT ![o] = rows] BY <1>5, <2>1
  <2>3. wallet'[o] = rows /\ \A x \in Owner : x # o => wallet'[x] = wallet[x]
    BY <2>2 DEF TypeOK
  <2>4. \A v : v \in DOMAIN rows /\ rows[v] # {} => v \in DOMAIN wallet[o] /\ rows[v] = wallet[o][v]
    BY <2>1
  <2>5. \A x \in Owner, q \in Payment, v \in Slot :
          v \in DOMAIN wallet'[x] /\ q \in wallet'[x][v] =>
            v \in DOMAIN wallet[x] /\ q \in wallet[x][v]
    BY <2>3, <2>4
  <2> QED BY <1>1, <1>5, <2>5, CreditShares
<1>6. CASE wallet' = wallet /\ NextCredit(r) BY <1>1, <1>2, <1>6, NextShares
<1> QED BY <1>3, <1>4, <1>5, <1>6 DEF CreateWallet

(* The purse is written over its row: the shares in it had this place.     *)
LEMMA SaveWalletShares ==
  ASSUME TypeOK, Paying, Coherent, Shares, NEW r \in Request, SaveWallet(r)
  PROVE  Shares'
<1>1. pc[r] = "saveWallet" /\ stripe' = stripe BY DEF SaveWallet, external
<1>2. pc[r] \in CreditStep BY <1>1 DEF CreditStep
<1>3. PICK o \in Owner : o = CreditedOwner(r) BY <1>2, TypeHalves, CreditedIs
<1>4. CASE /\ wallet' = [wallet EXCEPT ![o] =
                          [w \in DOMAIN @ |-> IF w = purse[r].id THEN purse[r].holds ELSE @[w]]]
           /\ GoTo(r, "record") /\ UNCHANGED <<memory, cut>>
  <2>1. PICK rows : rows = [w \in DOMAIN wallet[o] |->
                              IF w = purse[r].id THEN purse[r].holds ELSE wallet[o][w]]
    OBVIOUS
  <2>2. wallet' = [wallet EXCEPT ![o] = rows] BY <1>4, <2>1
  <2>3. wallet'[o] = rows /\ \A x \in Owner : x # o => wallet'[x] = wallet[x]
    BY <2>2 DEF TypeOK
  <2>4. OnlyHandler(r) /\ GoesOn(r, "record", ent[r]) /\ role' = role /\ purse' = purse
    BY <1>4, KeepShape DEF memory
  <2>5. PlacesKept
    <3> SUFFICES ASSUME NEW x \in Owner, NEW q \in Payment, NEW v \in Slot, Place(x, q, v)'
                 PROVE  Place(x, q, v)
      BY DEF PlacesKept
    <3>1. CASE v \in DOMAIN wallet'[x] /\ q \in wallet'[x][v]
      <4>1. CASE x = o /\ v = purse[r].id
        <5>1. q \in purse[r].holds BY <2>1, <2>3, <3>1, <4>1
        <5> QED BY <1>1, <1>3, <4>1, <5>1 DEF Place
      <4>2. CASE ~(x = o /\ v = purse[r].id)
        <5>1. v \in DOMAIN wallet[x] /\ q \in wallet[x][v] BY <2>1, <2>3, <3>1, <4>2
        <5> QED BY <5>1 DEF Place
      <4> QED BY <4>1, <4>2
    <3>2. ASSUME NEW s \in Request, pc'[s] = "saveWallet", CreditedOwner(s)' = x,
                 purse'[s].id = v, q \in purse'[s].holds
          PROVE  Place(x, q, v)
      <4>1. s # r BY <2>4, <3>2 DEF GoesOn
      <4>2. pc[s] = "saveWallet" /\ purse'[s] = purse[s] /\ CreditedOwner(s) = x
        BY <2>4, <3>2, <4>1 DEF OnlyHandler, SameMemory, CreditedOwner
      <4> QED BY <3>2, <4>2 DEF Place
    <3> QED BY <3>1, <3>2 DEF Place
  <2>6. \A x \in Owner, q \in Payment : AheadOf(r, x, q)' => AheadOf(r, x, q)
    BY <1>1, <2>4 DEF AheadOf, Ahead, GoesOn
  <2>7. CapturedStays BY <1>1 DEF CapturedStays
  <2> QED BY <2>4, <2>5, <2>6, <2>7, AheadStays, NothingCredited
<1>5. CASE wallet' = wallet /\ NextCredit(r) BY <1>1, <1>2, <1>5, NextShares
<1> QED BY <1>3, <1>4, <1>5 DEF SaveWallet

(* Recording the transaction keeps every share in one place.               *)
LEMMA RecordShares ==
  ASSUME TypeOK, Shares, NEW r \in Request, RecordTransaction(r)
  PROVE  Shares'
BY NextShares DEF RecordTransaction, CreditStep, external

(* A call to Stripe outside the split.                                     *)
LEMMA CallShares ==
  ASSUME TypeOK, Coherent, Shares, NEW r \in Request, CancelIntent(r) \/ RefundIntent(r)
  PROVE  Shares'
<1>1. wallet' = wallet /\ pc[r] \in {"cancel", "refund"}
  BY DEF CancelIntent, RefundIntent, tables
<1>2. PICK p \in Payment : p = target[r] BY <1>1, WorksOn
<1>3. CapturedStays
  <2>1. CASE CancelIntent(r)
    <3>1. stripe' = stripe \/ (stripe' = [stripe EXCEPT ![p] = "cancelled"] /\ Cancellable(p))
      BY <1>2, <2>1 DEF CancelIntent, Outcomes
    <3> QED BY <3>1, StripeKeeps DEF Cancellable, Intent
  <2>2. CASE RefundIntent(r) BY <2>2 DEF RefundIntent, CapturedStays
  <2> QED BY <2>1, <2>2
<1>4. \/ Finish(r)
      \/ /\ GoTo(r, "select") /\ UNCHANGED <<base, role, purse>>
         /\ ent' = [ent EXCEPT ![r] = AfterCommand(command[r], ent[r])]
  BY DEF CancelIntent, RefundIntent
<1>5. CASE Finish(r) BY <1>1, <1>3, <1>5, GoneAside
<1>6. CASE /\ GoTo(r, "select") /\ UNCHANGED <<base, role, purse>>
           /\ ent' = [ent EXCEPT ![r] = AfterCommand(command[r], ent[r])]
  <2>1. OnlyHandler(r) /\ pc'[r] = "select" BY <1>6, GoToShape DEF GoesOn
  <2> QED BY <1>1, <1>3, <1>6, <2>1, AsideShares DEF SplitStep
<1> QED BY <1>4, <1>5, <1>6

(* The queries of the payments table.                                      *)
LEMMA RowShares ==
  ASSUME TypeOK, Shares, NEW r \in Request,
         InsertHeld(r) \/ SaveSelect(r) \/ SaveUpdate(r) \/ Abort(r)
  PROVE  Shares'
<1>1. wallet' = wallet /\ stripe' = stripe
  BY DEF InsertHeld, SaveSelect, SaveUpdate, Abort, tables, external
<1>2. CapturedStays BY <1>1 DEF CapturedStays
<1>3. CASE Finish(r) BY <1>1, <1>2, <1>3, GoneAside
<1>4. CASE SaveSelect(r)
  <2>1. /\ GoTo(r, "update") /\ UNCHANGED <<ent, role, purse>>
        /\ base' = [base EXCEPT ![r] = row[target[r]]] /\ ent' = [ent EXCEPT ![r] = ent[r]]
    BY <1>4 DEF SaveSelect, TypeOK
  <2>2. OnlyHandler(r) /\ pc'[r] = "update" BY <2>1, GoToShape DEF GoesOn
  <2> QED BY <1>1, <1>2, <2>1, <2>2, AsideShares DEF SplitStep
<1> QED BY <1>3, <1>4 DEF InsertHeld, SaveUpdate, Abort

(* The start of a request keeps every share in one place.                  *)
LEMMA StartShares ==
  ASSUME TypeOK, Shares, NEW r \in Request, NEW p \in Payment,
         (\E c \in Command : FindPayment(r, p, c)) \/ (\E a \in Amount : CreateIntent(r, p, a))
  PROVE  Shares'
<1>1. CASE \E a \in Amount : CreateIntent(r, p, a)
  <2>1. PICK a \in Amount : CreateIntent(r, p, a) BY <1>1
  <2>2. /\ Start(r, p, Idle, "insert") /\ UNCHANGED <<wallet, base, role, purse>>
        /\ ent' = [ent EXCEPT ![r] = Hold(NewPayment(a))]
        /\ stripe[p] = "none" /\ stripe' = [stripe EXCEPT ![p] = "created"]
    BY <2>1 DEF CreateIntent, tables, Fresh
  <2>3. OnlyHandler(r) /\ pc'[r] = "insert"
    <3>1. PICK e : e = Hold(NewPayment(a)) OBVIOUS
    <3>2. ent' = [ent EXCEPT ![r] = e] /\ UNCHANGED <<base, role>> BY <2>2, <3>1
    <3>3. PICK c : c = Idle OBVIOUS
    <3>4. PICK step : step = "insert" OBVIOUS
    <3>5. Start(r, p, c, step) BY <2>2, <3>3, <3>4
    <3>6. OnlyHandler(r) /\ pc'[r] = step
      BY <3>2, <3>5, StartShape
    <3> QED BY <3>4, <3>6
  <2>4. CapturedStays BY <2>2, StripeKeeps DEF Intent
  <2> QED BY <2>2, <2>3, <2>4, AsideShares DEF SplitStep
<1>2. CASE \E c \in Command : FindPayment(r, p, c)
  <2>1. PICK c \in Command : FindPayment(r, p, c) BY <1>2
  <2>2. PICK step : step = FirstStep(c, row[p]) OBVIOUS
  <2>3. PICK e : ent' = [ent EXCEPT ![r] = e] BY <2>1 DEF FindPayment
  <2>4. Start(r, p, c, step) /\ UNCHANGED <<wallet, stripe, base, role, purse>> /\ step # "reject"
    BY <2>1, <2>2 DEF FindPayment, tables, external
  <2>5. row[p] \in Row BY DEF TypeOK
  <2>6. step \in {"select", "capture", "cancel", "refund"}
    BY <2>2, <2>4, <2>5, FirstStepIs
  <2>7. OnlyHandler(r) /\ pc'[r] = step BY <2>3, <2>4, StartShape
  <2>8. CapturedStays BY <2>4 DEF CapturedStays
  <2> QED BY <2>4, <2>6, <2>7, <2>8, AsideShares DEF SplitStep
<1> QED BY <1>1, <1>2

(* Payments, cards and Stripe, without a handler.                          *)
LEMMA OutsideShares ==
  ASSUME TypeOK, Shares, NEW p \in Payment,
         \/ (\E a \in Amount : CreatePayment(p, a)) \/ DeletePayment(p)
         \/ Authorize(p) \/ Lapse(p)
  PROVE  Shares'
<1>1. UNCHANGED <<wallet, pc, target, memory>>
  BY DEF CreatePayment, DeletePayment, Authorize, Lapse, tables
<1>2. \/ stripe' = stripe
      \/ stripe' = [stripe EXCEPT ![p] = "authorized"] /\ stripe[p] # "captured"
      \/ stripe' = [stripe EXCEPT ![p] = "cancelled"] /\ stripe[p] # "captured"
  BY DEF CreatePayment, DeletePayment, Authorize, Lapse, external
<1>3. CapturedStays BY <1>2, StripeKeeps DEF Intent
<1> QED BY <1>1, <1>3, TableShares

(* Every step keeps every share in one place.                              *)
LEMMA StepShares == IInv /\ Shares /\ [Next]_vars => Shares'
<1> SUFFICES ASSUME IInv, Shares, [Next]_vars PROVE Shares'
  OBVIOUS
<1>1. TypeOK /\ Paying /\ Coherent BY DEF IInv
<1>2. CASE UNCHANGED vars
  BY <1>2, TableShares DEF vars, memory, CapturedStays
<1> QED
  BY <1>1, <1>2, OutsideShares, StartShares, RowShares, CallShares, CaptureShares,
     TransferShares, FindWalletShares, CreateWalletShares, SaveWalletShares, RecordShares
  DEF Next

(* No share is anywhere at first.                                          *)
LEMMA InitShares == Init => Shares
<1> SUFFICES ASSUME Init PROVE Shares
  OBVIOUS
<1>1. \A o \in Owner : DOMAIN wallet[o] = {} BY DEF Init, NoRows
<1>2. \A r \in Request : pc[r] = "idle" BY DEF Init
<1>3. \A o \in Owner, p \in Payment, w \in Slot : ~Place(o, p, w)
  BY <1>1, <1>2 DEF Place
<1> QED BY <1>3 DEF Shares, InOnePlace, Uncredited

(* However many splits load and save the same wallet at once, the share of *)
(* a payment never is in two of its owner's wallet rows, and in none for a *)
(* payment that was not captured: it may get lost, it is not doubled.      *)
THEOREM SharesInOneWallet == Spec => []SharesHeldOnce
<1>1. IInv /\ Shares => SharesHeldOnce
  <2> SUFFICES ASSUME IInv, Shares, NEW o \in Owner, NEW p \in Payment
               PROVE  LET holding == {w \in DOMAIN wallet[o] : p \in wallet[o][w]} IN
                        /\ Cardinality(holding) <= 1
                        /\ holding # {} => stripe[p] = "captured"
    BY DEF SharesHeldOnce
  <2> DEFINE holding == {w \in DOMAIN wallet[o] : p \in wallet[o][w]}
  <2>1. wallet[o] \in Rows BY DEF IInv, TypeOK
  <2>2. holding \subseteq Slot BY <2>1 DEF Rows, Slot
  <2>3. \A w \in holding : Place(o, p, w) BY DEF Place
  <2>4. \A w, x \in holding : w = x BY <2>2, <2>3 DEF Shares, InOnePlace
  <2>5. holding # {} => stripe[p] = "captured"
    BY <2>2, <2>3 DEF Shares, InOnePlace, Uncredited
  <2>6. Cardinality(holding) <= 1
    <3>1. CASE holding = {} BY <3>1, FS_EmptySet
    <3>2. CASE holding # {}
      <4>1. PICK w : holding = {w} BY <2>4, <3>2
      <4>2. Cardinality({w}) = 1 BY FS_Singleton
      <4> HIDE DEF holding
      <4> QED BY <4>1, <4>2
    <3> QED BY <3>1, <3>2
  <2> QED BY <2>5, <2>6
<1> QED BY <1>1, Inductive, InitShares, StepShares, PTL DEF Spec

(* The invariant of the run, for any payments, couriers, amounts and       *)
(* handlers, with the shares of the code.                                  *)
THEOREM InvHolds ==
  ASSUME Percents = [merchant |-> 70, driver |-> 20]
  PROVE  Spec => []Inv
<1>1. IInv => TypeOK /\ Coherent BY DEF IInv
<1>2. Spec => [](TypeOK /\ Coherent) BY <1>1, Inductive, PTL
<1>3. Spec => []NeverOverpaid BY NobodyOverpaid
<1>4. TypeOK /\ Coherent /\ StatusBacked /\ SharesHeldOnce /\ NeverOverpaid => Inv
  BY DEF Inv
<1> QED BY <1>2, <1>3, <1>4, RowsAreBacked, SharesInOneWallet, PTL

-----------------------------------------------------------------------------
(* The wallets of wallet-service.  Types first.                            *)

(* Couriers, restaurants and the house are different owners.               *)
LEMMA OwnersApart ==
  /\ NoOwner \notin Wallets!Owner \cup Wallets!House
  /\ NoWallet \notin Wallet
  /\ Driver \cap Restaurant = {} /\ Wallets!Owner \cap Wallets!House = {}
BY OwnersAssumption DEF Wallets!Owner, Wallets!House

(* A handler that runs has a current task and the list of the ones left.   *)
LEMMA CurrentTask ==
  ASSUME Wallets!TypeOK, NEW r \in Request, query[r] # "idle"
  PROVE  /\ Head(todo[r]) \in Wallets!Task /\ Tail(todo[r]) \in Seq(Wallets!Task)
         /\ Head(todo[r]).owner \in Wallets!Owner \cup Wallets!House /\ Head(todo[r]).amount \in Int
         /\ Wallets!Change(r) \in Int /\ Wallets!Recorded(r) \in Int
<1>1. todo[r] \in Seq(Wallets!Task) /\ todo[r] # <<>> BY DEF Wallets!TypeOK
<1>2. Head(todo[r]) \in Wallets!Task /\ Tail(todo[r]) \in Seq(Wallets!Task)
  BY <1>1, HeadTailProperties
<1>3. Head(todo[r]).owner \in Wallets!Owner \cup Wallets!House /\ Head(todo[r]).amount \in Int
  BY <1>2 DEF Wallets!Task
<1> QED BY <1>2, <1>3 DEF Wallets!Change, Wallets!Recorded

(* A request is a list of one task, a settlement a list of four.           *)
LEMMA OneType ==
  ASSUME NEW o \in Wallets!Owner \cup Wallets!House, NEW a \in Int
  PROVE  Wallets!One(o, a) \in Seq(Wallets!Task) /\ Wallets!One(o, a) # <<>>
BY DEF Wallets!One, Wallets!Task

(* A percentage of an amount is a whole number of dong.                    *)
LEMMA ShareType ==
  ASSUME NEW total \in Int, NEW percent \in Nat
  PROVE  Wallets!Share(total, percent) \in Int
<1>1. total * percent \in Int OBVIOUS
<1>2. \A k \in Int : (k + 50) \div 100 \in Int OBVIOUS
<1> QED BY <1>1, <1>2 DEF Wallets!Share

(* The four credits of a settlement are a list of tasks.                   *)
LEMMA SettlementType ==
  ASSUME NEW d \in Driver, NEW m \in Restaurant, NEW food \in Int, NEW fee \in Int
  PROVE  LET list == Wallets!One(d, fee) \o Wallets!One(m, Wallets!Share(food, 70))
                       \o Wallets!One(Platform, Wallets!Share(food, 20)) \o Wallets!One(Tax, Wallets!Share(food, 10))
         IN  list \in Seq(Wallets!Task) /\ list # <<>>
<1> DEFINE a == Wallets!One(d, fee)
           b == Wallets!One(m, Wallets!Share(food, 70))
           c == Wallets!One(Platform, Wallets!Share(food, 20))
           e == Wallets!One(Tax, Wallets!Share(food, 10))
<1>1. /\ Wallets!Share(food, 70) \in Int /\ Wallets!Share(food, 20) \in Int /\ Wallets!Share(food, 10) \in Int
      /\ {d, m, Platform, Tax} \subseteq Wallets!Owner \cup Wallets!House
  BY ShareType DEF Wallets!Owner, Wallets!House
<1>2. a \in Seq(Wallets!Task) /\ b \in Seq(Wallets!Task) /\ c \in Seq(Wallets!Task) /\ e \in Seq(Wallets!Task)
  BY <1>1, OneType
<1>3. e # <<>> /\ Len(e) = 1 BY DEF Wallets!One
<1> HIDE DEF a, b, c, e
<1>4. a \o b \in Seq(Wallets!Task) BY <1>2
<1>5. a \o b \o c \in Seq(Wallets!Task) BY <1>2, <1>4
<1> DEFINE x == a \o b \o c
<1> HIDE DEF x
<1>6. x \in Seq(Wallets!Task) /\ Len(x) \in Nat BY <1>5 DEF x
<1>7. x \o e \in Seq(Wallets!Task) /\ Len(x \o e) = Len(x) + Len(e)
  BY <1>2, <1>6, ConcatProperties
<1>8. x \o e # <<>> BY <1>3, <1>6, <1>7
<1> QED BY <1>7, <1>8 DEF a, b, c, e, x

(* The empty tables are well typed.                                        *)
LEMMA InitType == Wallets!Init => Wallets!TypeOK
BY DEF Wallets!Init, Wallets!TypeOK

(* The start of a request keeps the types.                                 *)
LEMMA StartType ==
  ASSUME Wallets!TypeOK, NEW r \in Request, NEW kind \in {"get", "credit", "debit"},
         NEW tasks \in Seq(Wallets!Task), tasks # <<>>, Wallets!Start(r, kind, tasks)
  PROVE  Wallets!TypeOK'
BY DEF Wallets!TypeOK, Wallets!Start, Wallets!wallets, Wallets!journal

(* The end of a request keeps the types.                                   *)
LEMMA FinishType ==
  ASSUME Wallets!TypeOK, NEW r \in Request, Wallets!Finish(r),
         UNCHANGED <<Wallets!wallets, Wallets!journal, handlers>>,
         disturbed' \in SUBSET Wallets!Owner
  PROVE  Wallets!TypeOK'
BY EmptySeq DEF Wallets!TypeOK, Wallets!Finish, Wallets!wallets, Wallets!journal

(* A wallet loaded into memory keeps the types.                            *)
LEMMA LoadedType ==
  ASSUME Wallets!TypeOK, NEW r \in Request, NEW w \in Wallet, NEW b \in Int,
         query[r] # "idle", Head(todo[r]).owner \in Wallets!Owner, Wallets!Loaded(r, w, b),
         owner' \in [Wallet -> Wallets!Owner \cup {NoOwner}],
         UNCHANGED <<balance, Wallets!journal, handlers>>, disturbed' \in SUBSET Wallets!Owner
  PROVE  Wallets!TypeOK'
<1>1. CASE Wallets!Finish(r)
  BY <1>1, EmptySeq DEF Wallets!TypeOK, Wallets!Finish, Wallets!wallets, Wallets!journal
<1>2. CASE /\ loaded' = [loaded EXCEPT ![r] = w] /\ before' = [before EXCEPT ![r] = b]
           /\ \E step \in {"count", "save"} : Wallets!GoTo(r, step)
  BY <1>2 DEF Wallets!TypeOK, Wallets!GoTo, Wallets!journal
<1> QED BY <1>1, <1>2 DEF Wallets!Loaded

(* The next step of a handler keeps the types.                             *)
LEMMA GoToType ==
  ASSUME Wallets!TypeOK, NEW r \in Request, query[r] # "idle",
         Head(todo[r]).owner \in Wallets!Owner,
         NEW step \in {"insert", "save", "record"},
         step # "insert" => loaded[r] \in Wallet,
         Wallets!GoTo(r, step), balance' \in [Wallet -> Int], disturbed' \in SUBSET Wallets!Owner,
         UNCHANGED <<owner, Wallets!journal, loaded, before, handlers>>
  PROVE  Wallets!TypeOK'
BY DEF Wallets!TypeOK, Wallets!GoTo, Wallets!journal

(* Looking for the wallet of the current task keeps the types.             *)
LEMMA FindType ==
  ASSUME Wallets!TypeOK, NEW r \in Request, Wallets!Find(r)
  PROVE  Wallets!TypeOK'
<1> DEFINE o == Head(todo[r]).owner
<1>1. query[r] = "find" /\ UNCHANGED <<Wallets!wallets, Wallets!journal, handlers>>
  BY DEF Wallets!Find
<1>2. o \in Wallets!Owner \cup Wallets!House BY <1>1, CurrentTask
<1>3. CASE o \in Wallets!House
  <2>1. Wallets!Finish(r) BY <1>3 DEF Wallets!Find
  <2>2. disturbed' = disturbed
    BY <1>3, <2>1 DEF Wallets!Find, Wallets!Finish, Wallets!TypeOK
  <2>3. disturbed' \in SUBSET Wallets!Owner BY <2>2 DEF Wallets!TypeOK
  <2> QED BY <1>1, <2>1, <2>3, FinishType
<1>4. CASE o \in Wallets!Owner
  <2>1. o \notin Wallets!House /\ disturbed' \in SUBSET Wallets!Owner
    BY <1>4, OwnersApart DEF Wallets!Find, Wallets!TypeOK
  <2>2. CASE Wallets!WalletsOf(o) # {}
    <3>1. PICK w \in Wallets!WalletsOf(o) : Wallets!Loaded(r, w, balance[w])
      BY <2>1, <2>2 DEF Wallets!Find
    <3>2. w \in Wallet /\ balance[w] \in Int BY DEF Wallets!WalletsOf, Wallets!TypeOK
    <3> QED BY <1>1, <1>4, <2>1, <3>1, <3>2, LoadedType DEF Wallets!wallets,
       Wallets!TypeOK
  <2>3. CASE Wallets!WalletsOf(o) = {}
    <3>1. Wallets!GoTo(r, "insert") /\ UNCHANGED <<loaded, before>>
      BY <2>1, <2>3 DEF Wallets!Find
    <3> QED BY <1>1, <1>4, <2>1, <3>1, GoToType DEF Wallets!wallets, Wallets!TypeOK
  <2> QED BY <2>2, <2>3
<1> QED BY <1>2, <1>3, <1>4

(* Inserting a wallet keeps the types.                                     *)
LEMMA InsertType ==
  ASSUME Wallets!TypeOK, NEW r \in Request, Wallets!Insert(r)
  PROVE  Wallets!TypeOK'
<1>1. Head(todo[r]).owner \in Wallets!Owner /\ query[r] # "idle"
  BY DEF Wallets!Insert, Wallets!TypeOK
<1>2. PICK w \in Wallet : owner' = [owner EXCEPT ![w] = Head(todo[r]).owner] /\ Wallets!Loaded(r, w, 0)
  BY DEF Wallets!Insert
<1>3. owner' \in [Wallet -> Wallets!Owner \cup {NoOwner}] BY <1>1, <1>2 DEF Wallets!TypeOK
<1>4. UNCHANGED <<balance, Wallets!journal, handlers>> /\ disturbed' \in SUBSET Wallets!Owner
  BY DEF Wallets!Insert, Wallets!TypeOK
<1> QED BY <1>1, <1>2, <1>3, <1>4, LoadedType

(* Counting the day's withdrawals keeps the types.                         *)
LEMMA CountType ==
  ASSUME Wallets!TypeOK, NEW r \in Request, Wallets!Count(r)
  PROVE  Wallets!TypeOK'
<1>1. Head(todo[r]).owner \in Wallets!Owner /\ loaded[r] \in Wallet /\ query[r] # "idle"
  BY DEF Wallets!Count, Wallets!TypeOK
<1>2. CASE Wallets!Finish(r) BY <1>2, FinishType DEF Wallets!Count, Wallets!TypeOK
<1>3. CASE Wallets!GoTo(r, "save") /\ UNCHANGED <<loaded, before>>
  BY <1>1, <1>3, GoToType DEF Wallets!Count, Wallets!TypeOK, Wallets!wallets
<1> QED BY <1>2, <1>3 DEF Wallets!Count

(* Saving the balance keeps the types.                                     *)
LEMMA SaveType ==
  ASSUME Wallets!TypeOK, NEW r \in Request, Wallets!Save(r)
  PROVE  Wallets!TypeOK'
<1>1. /\ Head(todo[r]).owner \in Wallets!Owner /\ loaded[r] \in Wallet /\ query[r] # "idle"
      /\ before[r] \in Int
  BY DEF Wallets!Save, Wallets!TypeOK
<1>2. Wallets!Change(r) \in Int BY <1>1, CurrentTask
<1>3. balance' \in [Wallet -> Int] BY <1>1, <1>2 DEF Wallets!Save, Wallets!TypeOK
<1> QED BY <1>1, <1>3, GoToType DEF Wallets!Save, Wallets!TypeOK

(* Recording the transaction keeps the types.                              *)
LEMMA RecordType ==
  ASSUME Wallets!TypeOK, NEW r \in Request, Wallets!Record(r)
  PROVE  Wallets!TypeOK'
<1> DEFINE o == Head(todo[r]).owner
           left == Tail(todo[r])
<1>0. o \in Wallets!Owner /\ loaded[r] \in Wallet /\ query[r] # "idle"
  BY DEF Wallets!Record, Wallets!TypeOK
<1>1. left \in Seq(Wallets!Task) /\ Wallets!Recorded(r) \in Int BY <1>0, CurrentTask
<1>2. recorded' \in [Wallet -> Int] BY <1>0, <1>1 DEF Wallets!Record, Wallets!TypeOK
<1>3. withdrawn' \in [Wallets!Owner -> Nat] BY <1>0 DEF Wallets!Record, Wallets!TypeOK
<1>4. CASE left = <<>> /\ Wallets!Finish(r)
  BY <1>2, <1>3, <1>4, EmptySeq DEF Wallets!Record, Wallets!TypeOK, Wallets!Finish,
     Wallets!wallets
<1>5. CASE left # <<>>
  <2>1. /\ query' = [query EXCEPT ![r] = "find"] /\ todo' = [todo EXCEPT ![r] = left]
        /\ loaded' = [loaded EXCEPT ![r] = NoWallet] /\ before' = [before EXCEPT ![r] = 0]
        /\ UNCHANGED <<owner, balance, op, handlers, disturbed>>
    BY <1>5 DEF Wallets!Record, Wallets!wallets
  <2> HIDE DEF left
  <2> QED BY <1>0, <1>1, <1>2, <1>3, <1>5, <2>1 DEF Wallets!TypeOK
<1> QED BY <1>4, <1>5 DEF Wallets!Record

(* A request that is cut off keeps the types.                              *)
LEMMA AbortType ==
  ASSUME Wallets!TypeOK, NEW r \in Request, Wallets!Abort(r)
  PROVE  Wallets!TypeOK'
<1>1. query[r] = "record" => Head(todo[r]).owner \in Wallets!Owner BY DEF Wallets!TypeOK
<1> QED BY <1>1, FinishType DEF Wallets!Abort, Wallets!TypeOK

(* Every statement of the service keeps the types.                         *)
LEMMA NextType ==
  ASSUME Wallets!TypeOK, [Wallets!Next]_(Wallets!vars)
  PROVE  Wallets!TypeOK'
<1>1. CASE UNCHANGED Wallets!vars BY <1>1 DEF Wallets!TypeOK, Wallets!vars
<1>2. CASE Wallets!NewDay BY <1>2 DEF Wallets!TypeOK, Wallets!NewDay, Wallets!wallets
<1>3. ASSUME NEW r \in Request, Wallets!GetOrCreate(r) PROVE Wallets!TypeOK'
  <2>1. PICK o \in Wallets!Owner : Wallets!Start(r, "get", Wallets!One(o, 0))
    BY <1>3 DEF Wallets!GetOrCreate
  <2> QED BY <2>1, OneType, StartType
<1>4. ASSUME NEW r \in Request, Wallets!Credit(r) PROVE Wallets!TypeOK'
  <2>1. PICK o \in Wallets!Owner, a \in Dong : Wallets!Start(r, "credit", Wallets!One(o, a))
    BY <1>4 DEF Wallets!Credit
  <2> QED BY <2>1, OneType, StartType, CreditsAssumption
<1>5. ASSUME NEW r \in Request, Wallets!Debit(r) PROVE Wallets!TypeOK'
  <2>1. PICK o \in Wallets!Owner, a \in Dong : Wallets!Start(r, "debit", Wallets!One(o, a))
    BY <1>5 DEF Wallets!Debit
  <2> QED BY <2>1, OneType, StartType, CreditsAssumption
<1>6. ASSUME NEW r \in Request, Wallets!SettleCOD(r) PROVE Wallets!TypeOK'
  <2>1. PICK d \in Driver, m \in Restaurant, food \in Dong, fee \in Dong :
          Wallets!Start(r, "credit", Wallets!One(d, fee) \o Wallets!One(m, Wallets!Share(food, 70))
                               \o Wallets!One(Platform, Wallets!Share(food, 20)) \o Wallets!One(Tax, Wallets!Share(food, 10)))
    BY <1>6 DEF Wallets!SettleCOD
  <2>2. food \in Int /\ fee \in Int BY CreditsAssumption
  <2> QED BY <2>1, <2>2, SettlementType, StartType
<1>7. ASSUME NEW r \in Request, \/ Wallets!Find(r) \/ Wallets!Insert(r) \/ Wallets!Count(r)
                               \/ Wallets!Save(r) \/ Wallets!Record(r) \/ Wallets!Abort(r)
      PROVE  Wallets!TypeOK'
  BY <1>7, FindType, InsertType, CountType, SaveType, RecordType, AbortType
<1> QED BY <1>1, <1>2, <1>3, <1>4, <1>5, <1>6, <1>7 DEF Wallets!Next

(* Every state of every behaviour is well typed.                           *)
THEOREM WalletsTyped == Wallets!Spec => []Wallets!TypeOK
BY InitType, NextType, PTL DEF Wallets!Spec

-----------------------------------------------------------------------------
(* Coherence, owner by owner.                                              *)

(* The memory of the handlers other than r.                                *)
OthersUnchanged(r) ==
  \A s \in Request \ {r} :
    /\ query'[s] = query[s] /\ op'[s] = op[s] /\ todo'[s] = todo[s]
    /\ loaded'[s] = loaded[s] /\ before'[s] = before[s]

(* The wallets and the withdrawals of owner p.                             *)
MoneyUnchanged(p) ==
  /\ \A w \in Wallet : owner'[w] = p <=> owner[w] = p
  /\ \A w \in Wallet : owner[w] = p => balance'[w] = balance[w] /\ recorded'[w] = recorded[w]
  /\ withdrawn'[p] = withdrawn[p]

(* The first two parts of Coherent: whose wallets handlers hold, and what  *)
(* ids not drawn yet hold.                                                 *)
WalletsHeld ==
  \A r \in Request :
    query[r] \in {"count", "save", "record"} => owner[loaded[r]] = Head(todo[r]).owner
UndrawnEmpty ==
  \A w \in Wallet : owner[w] = NoOwner => balance[w] = 0 /\ recorded[w] = 0

(* Coherent holds owner by owner.                                          *)
LEMMA WalletsParts ==
  Wallets!Coherent <=> WalletsHeld /\ UndrawnEmpty /\ \A p \in Wallets!Owner \ disturbed : Wallets!OwnerCoherent(p)
BY DEF Wallets!Coherent, WalletsHeld, UndrawnEmpty

(* An owner on whose wallets r does not work after the step, whose         *)
(* transaction r was not about to record, and whose money is the same.     *)
LEMMA Untouched ==
  ASSUME Wallets!TypeOK, WalletsHeld, NEW r \in Request, NEW p \in Wallets!Owner,
         Wallets!OwnerCoherent(p),
         OthersUnchanged(r), MoneyUnchanged(p),
         query'[r] \in {"idle", "find"} \/ Head(todo'[r]).owner # p,
         query[r] # "record" \/ Head(todo[r]).owner # p
  PROVE  Wallets!OwnerCoherent(p)'
<1>1. \A s \in Request : Wallets!WorksOn(s, p)' => s # r /\ Wallets!WorksOn(s, p)
  BY DEF Wallets!WorksOn, OthersUnchanged
<1>2. \A w \in Wallet : w \in Wallets!WalletsOf(p)' <=> w \in Wallets!WalletsOf(p)
  BY DEF Wallets!WalletsOf, MoneyUnchanged
<1>3. \A w, x \in Wallets!WalletsOf(p)' : w = x
  BY <1>2 DEF Wallets!OwnerCoherent, Wallets!WalletsOf
<1>4. ASSUME NEW s \in Request, Wallets!WorksOn(s, p)'
  PROVE Wallets!HandlerCoherent(s, p)'
  <2>1. s # r /\ Wallets!WorksOn(s, p) /\ Wallets!HandlerCoherent(s, p)
    BY <1>1, <1>4 DEF Wallets!OwnerCoherent
  <2>2. /\ query'[s] = query[s] /\ op'[s] = op[s] /\ todo'[s] = todo[s]
        /\ loaded'[s] = loaded[s] /\ before'[s] = before[s]
    BY <2>1 DEF OthersUnchanged
  <2>3. query[s] \in {"count", "save", "record"} =>
          /\ balance'[loaded[s]] = balance[loaded[s]]
          /\ recorded'[loaded[s]] = recorded[loaded[s]]
    BY <2>1 DEF Wallets!WorksOn, Wallets!TypeOK, WalletsHeld, MoneyUnchanged
  <2>4. withdrawn'[p] = withdrawn[p] BY DEF MoneyUnchanged
  <2>5. query[s] = "insert" => Wallets!WalletsOf(p)' = {}
    BY <1>2, <2>1 DEF Wallets!HandlerCoherent, Wallets!WalletsOf
  <2>6. Wallets!Recorded(s)' = Wallets!Recorded(s) BY <2>2 DEF Wallets!Recorded
  <2> QED BY <2>1, <2>2, <2>3, <2>4, <2>5, <2>6 DEF Wallets!HandlerCoherent
<1>5. \A s, t \in Request : Wallets!WorksOn(s, p)' /\ Wallets!WorksOn(t, p)' => s = t
  BY <1>1 DEF Wallets!OwnerCoherent
<1>6. ASSUME NEW w \in Wallets!WalletsOf(p)'
      PROVE  balance'[w] = recorded'[w] \/ \E s \in Request : Wallets!Recording(s, w)'
  <2>1. w \in Wallet /\ owner[w] = p /\ w \in Wallets!WalletsOf(p)
    BY <1>2 DEF Wallets!WalletsOf
  <2>2. balance'[w] = balance[w] /\ recorded'[w] = recorded[w] BY <2>1 DEF MoneyUnchanged
  <2>3. CASE balance[w] = recorded[w] BY <2>2, <2>3
  <2>4. ASSUME NEW s \in Request, Wallets!Recording(s, w) PROVE Wallets!Recording(s, w)'
    <3>1. Head(todo[s]).owner = p /\ query[s] = "record"
      BY <2>1, <2>4 DEF Wallets!Recording, WalletsHeld
    <3> QED BY <2>4, <3>1 DEF Wallets!Recording, OthersUnchanged
  <2> QED BY <2>1, <2>3, <2>4 DEF Wallets!OwnerCoherent
<1>7. p \in Driver => withdrawn'[p] <= Wallets!MaxWithdrawsPerDay
  BY DEF Wallets!OwnerCoherent, MoneyUnchanged
<1> QED BY <1>3, <1>4, <1>5, <1>6, <1>7 DEF Wallets!OwnerCoherent

(* Wallets keep their owners and handlers their wallets, but for r, which  *)
(* holds none or one of the owner it works for.                            *)
LEMMA StillHeld ==
  ASSUME Wallets!TypeOK, WalletsHeld, NEW r \in Request, OthersUnchanged(r),
         \A w \in Wallet : owner[w] # NoOwner => owner'[w] = owner[w],
         query'[r] \in {"count", "save", "record"} => owner'[loaded'[r]] = Head(todo'[r]).owner
  PROVE  WalletsHeld'
<1> SUFFICES ASSUME NEW s \in Request, query'[s] \in {"count", "save", "record"}
             PROVE  owner'[loaded'[s]] = Head(todo'[s]).owner
  BY DEF WalletsHeld
<1>1. CASE s = r BY <1>1
<1>2. CASE s # r
  <2>1. query[s] = query'[s] /\ todo'[s] = todo[s] /\ loaded'[s] = loaded[s]
    BY <1>2 DEF OthersUnchanged
  <2>2. loaded[s] \in Wallet /\ owner[loaded[s]] = Head(todo[s]).owner
        /\ Head(todo[s]).owner \in Wallets!Owner
    BY <2>1 DEF Wallets!TypeOK, WalletsHeld
  <2> QED BY <2>1, <2>2, OwnersApart
<1> QED BY <1>1, <1>2

(* A step that only moves r to a point where it holds no wallet.           *)
LEMMA IdleSlot ==
  ASSUME Wallets!TypeOK, Wallets!Coherent, NEW r \in Request, OthersUnchanged(r),
         UNCHANGED <<Wallets!wallets, Wallets!journal>>, query'[r] \in {"idle", "find"},
         \A p \in Wallets!Owner \ disturbed' :
           p \notin disturbed /\ (query[r] # "record" \/ Head(todo[r]).owner # p)
  PROVE  Wallets!Coherent'
<1>1. WalletsHeld /\ UndrawnEmpty BY WalletsParts
<1>2. WalletsHeld'
  <2>1. \A w \in Wallet : owner[w] # NoOwner => owner'[w] = owner[w]
    BY DEF Wallets!wallets
  <2>2. query'[r] \in {"count", "save", "record"} => owner'[loaded'[r]] = Head(todo'[r]).owner
    OBVIOUS
  <2> QED BY <1>1, <2>1, <2>2, StillHeld
<1>3. UndrawnEmpty' BY <1>1 DEF UndrawnEmpty, Wallets!wallets, Wallets!journal
<1>4. ASSUME NEW p \in Wallets!Owner \ disturbed' PROVE Wallets!OwnerCoherent(p)'
  <2>1. Wallets!OwnerCoherent(p) BY WalletsParts
  <2>2. MoneyUnchanged(p) BY DEF MoneyUnchanged, Wallets!wallets, Wallets!journal
  <2>3. query[r] # "record" \/ Head(todo[r]).owner # p OBVIOUS
  <2> QED BY <1>1, <2>1, <2>2, <2>3, Untouched
<1>5. WalletsHeld' /\ UndrawnEmpty' /\ \A p \in Wallets!Owner \ disturbed' : Wallets!OwnerCoherent(p)'
  BY <1>2, <1>3, <1>4
<1> QED BY <1>5 DEF Wallets!Coherent, WalletsHeld, UndrawnEmpty

(* The end of a request keeps Coherent when no wallet changes with it and  *)
(* it leaves nothing unrecorded of an undisturbed owner.                   *)
LEMMA FinishCoherent ==
  ASSUME Wallets!TypeOK, Wallets!Coherent, NEW r \in Request, Wallets!Finish(r),
         UNCHANGED <<Wallets!wallets, Wallets!journal>>,
         disturbed \subseteq disturbed', query[r] # "record" \/ Head(todo[r]).owner \in disturbed'
  PROVE  Wallets!Coherent'
<1>1. OthersUnchanged(r) /\ query'[r] \in {"idle", "find"}
  BY DEF OthersUnchanged, Wallets!Finish, Wallets!TypeOK
<1> QED BY <1>1, IdleSlot

(* The start of a request keeps Coherent.                                  *)
LEMMA StartCoherent ==
  ASSUME Wallets!TypeOK, Wallets!Coherent, NEW r \in Request, NEW kind, NEW tasks,
         Wallets!Start(r, kind, tasks)
  PROVE  Wallets!Coherent'
<1>1. OthersUnchanged(r) /\ query'[r] \in {"idle", "find"}
  BY DEF OthersUnchanged, Wallets!Start, Wallets!TypeOK
<1>2. query[r] # "record" /\ disturbed' = disturbed /\ UNCHANGED <<Wallets!wallets, Wallets!journal>>
  BY DEF Wallets!Start
<1> QED BY <1>1, <1>2, IdleSlot

(* The owner r works for, when no other handler does.                      *)
LEMMA AloneOnOwner ==
  ASSUME Wallets!TypeOK, NEW r \in Request, NEW o \in Wallets!Owner, OthersUnchanged(r),
         \A s \in Request : Wallets!WorksOn(s, o) => s = r,
         Wallets!WorksOn(r, o)' => Wallets!HandlerCoherent(r, o)',
         \A w, x \in Wallets!WalletsOf(o)' : w = x,
         \A w \in Wallets!WalletsOf(o)' : balance'[w] = recorded'[w] \/ Wallets!Recording(r, w)',
         o \in Driver => withdrawn'[o] <= Wallets!MaxWithdrawsPerDay
  PROVE  Wallets!OwnerCoherent(o)'
<1>1. \A s \in Request : Wallets!WorksOn(s, o)' => s = r
  BY DEF Wallets!WorksOn, OthersUnchanged
<1> QED BY <1>1 DEF Wallets!OwnerCoherent

(* What r has loaded, or the end of a handler that has nothing to change.  *)
LEMMA LoadedOutcome ==
  ASSUME Wallets!TypeOK, NEW r \in Request, NEW w \in Wallet, NEW b \in Int,
         query[r] # "idle",
         Head(todo[r]).owner \in Wallets!Owner, Wallets!Loaded(r, w, b)
  PROVE  /\ OthersUnchanged(r)
         /\ \/ Wallets!Finish(r)
            \/ /\ query'[r] \in {"count", "save"} /\ loaded'[r] = w /\ before'[r] = b
               /\ todo'[r] = todo[r] /\ op'[r] = op[r]
               /\ query'[r] = "save" => op[r] # "debit" \/ Head(todo[r]).owner \notin Driver
<1>1. CASE Wallets!Finish(r) BY <1>1 DEF Wallets!Finish, OthersUnchanged, Wallets!TypeOK
<1>2. CASE ~Wallets!Finish(r)
  <2>1. /\ loaded' = [loaded EXCEPT ![r] = w] /\ before' = [before EXCEPT ![r] = b]
        /\ Wallets!GoTo(r, IF op[r] = "debit" /\ Head(todo[r]).owner \in Driver
                   THEN "count" ELSE "save")
    BY <1>2 DEF Wallets!Loaded
  <2>2. /\ query'[r] = IF op[r] = "debit" /\ Head(todo[r]).owner \in Driver
                    THEN "count" ELSE "save"
        /\ todo' = todo /\ op' = op
        /\ \A s \in Request \ {r} : query'[s] = query[s]
    BY <2>1 DEF Wallets!GoTo, Wallets!TypeOK
  <2>3. /\ loaded'[r] = w /\ before'[r] = b
        /\ \A s \in Request \ {r} : loaded'[s] = loaded[s] /\ before'[s] = before[s]
    BY <2>1 DEF Wallets!TypeOK
  <2> QED BY <2>2, <2>3 DEF OthersUnchanged
<1> QED BY <1>1, <1>2

(* Looking for a wallet keeps Coherent: who finds another handler at work  *)
(* on the same owner disturbs that owner.                                  *)
LEMMA FindCoherent ==
  ASSUME Wallets!TypeOK, Wallets!Coherent, NEW r \in Request, Wallets!Find(r)
  PROVE  Wallets!Coherent'
<1> DEFINE o == Head(todo[r]).owner
<1>1. /\ query[r] = "find" /\ UNCHANGED <<Wallets!wallets, Wallets!journal, handlers>>
      /\ disturbed \subseteq disturbed'
      /\ o \notin disturbed' /\ query'[r] # "idle" => \A s \in Request : ~Wallets!WorksOn(s, o)
  BY DEF Wallets!Find
<1>2. o \in Wallets!Owner \cup Wallets!House BY <1>1, CurrentTask
<1>3. CASE Wallets!Finish(r) BY <1>1, <1>3, FinishCoherent
<1>4. CASE ~Wallets!Finish(r)
  <2>0. WalletsHeld /\ UndrawnEmpty BY WalletsParts
  <2>1. o \in Wallets!Owner /\ o \notin Wallets!House BY <1>2, <1>4 DEF Wallets!Find
  <2>2. /\ OthersUnchanged(r)
        /\ \/ query'[r] = "insert" /\ todo'[r] = todo[r] /\ Wallets!WalletsOf(o) = {}
           \/ /\ query'[r] \in {"count", "save"} /\ loaded'[r] \in Wallets!WalletsOf(o)
              /\ before'[r] = balance[loaded'[r]] /\ todo'[r] = todo[r] /\ op'[r] = op[r]
              /\ query'[r] = "save" => op[r] # "debit" \/ o \notin Driver
    <3>1. CASE Wallets!WalletsOf(o) # {}
      <4>1. PICK w \in Wallets!WalletsOf(o) : Wallets!Loaded(r, w, balance[w])
        BY <2>1, <3>1 DEF Wallets!Find
      <4>2. w \in Wallet /\ balance[w] \in Int BY DEF Wallets!WalletsOf, Wallets!TypeOK
      <4> QED BY <1>1, <1>4, <2>1, <4>1, <4>2, LoadedOutcome
    <3>2. CASE Wallets!WalletsOf(o) = {}
      <4>1. Wallets!GoTo(r, "insert") /\ UNCHANGED <<loaded, before>>
        BY <2>1, <3>2 DEF Wallets!Find
      <4> QED BY <3>2, <4>1 DEF Wallets!GoTo, OthersUnchanged, Wallets!TypeOK
    <3> QED BY <3>1, <3>2
  <2>3. query'[r] \in {"insert", "count", "save"} => Head(todo'[r]).owner = o BY <2>2
  <2>4. WalletsHeld'
    <3>1. query'[r] \in {"count", "save", "record"} => owner'[loaded'[r]] = Head(todo'[r]).owner
      BY <1>1, <2>2 DEF Wallets!WalletsOf, Wallets!wallets
    <3> QED BY <1>1, <2>0, <2>2, <3>1, StillHeld DEF Wallets!wallets
  <2>5. UndrawnEmpty' BY <1>1, <2>0 DEF UndrawnEmpty, Wallets!wallets, Wallets!journal
  <2>6. ASSUME NEW p \in Wallets!Owner \ disturbed' PROVE Wallets!OwnerCoherent(p)'
    <3>1. Wallets!OwnerCoherent(p) BY <1>1, WalletsParts
    <3>2. CASE p = o
      <4>1. \A s \in Request : ~Wallets!WorksOn(s, p) BY <1>1, <2>2, <3>2
      <4>2. \A w \in Wallets!WalletsOf(p) : w \in Wallet /\ balance[w] = recorded[w]
        <5>1. \A w \in Wallets!WalletsOf(p), s \in Request : Wallets!Recording(s, w) => Wallets!WorksOn(s, p)
          BY <2>0 DEF Wallets!WalletsOf, Wallets!Recording, Wallets!WorksOn, WalletsHeld
        <5> QED BY <3>1, <4>1, <5>1 DEF Wallets!OwnerCoherent, Wallets!WalletsOf
      <4>3. Wallets!WalletsOf(p)' = Wallets!WalletsOf(p)
        BY <1>1 DEF Wallets!WalletsOf, Wallets!wallets
      <4>4. Wallets!WorksOn(r, p)' => Wallets!HandlerCoherent(r, p)'
        BY <1>1, <2>2, <3>2, <4>3 DEF Wallets!WorksOn, Wallets!HandlerCoherent,
           Wallets!wallets
      <4>5. /\ \A w, x \in Wallets!WalletsOf(p)' : w = x
            /\ \A w \in Wallets!WalletsOf(p)' : balance'[w] = recorded'[w]
            /\ p \in Driver => withdrawn'[p] <= Wallets!MaxWithdrawsPerDay
        BY <1>1, <3>1, <4>2, <4>3 DEF Wallets!OwnerCoherent, Wallets!wallets,
           Wallets!journal
      <4> QED BY <2>2, <4>1, <4>4, <4>5, AloneOnOwner
    <3>3. CASE p # o
      <4>1. MoneyUnchanged(p) BY <1>1 DEF MoneyUnchanged, Wallets!wallets, Wallets!journal
      <4>2. query'[r] \in {"idle", "find"} \/ Head(todo'[r]).owner # p BY <2>2, <2>3, <3>3
      <4> QED BY <1>1, <2>0, <2>2, <3>1, <4>1, <4>2, Untouched
    <3> QED BY <3>2, <3>3
  <2>7. WalletsHeld' /\ UndrawnEmpty' /\ \A p \in Wallets!Owner \ disturbed' : Wallets!OwnerCoherent(p)'
    BY <2>4, <2>5, <2>6
  <2> QED BY <2>7 DEF Wallets!Coherent, WalletsHeld, UndrawnEmpty
<1> QED BY <1>3, <1>4

(* A step of r on the wallets of owner o alone.                            *)
LEMMA OwnerStep ==
  ASSUME Wallets!TypeOK, Wallets!Coherent, NEW r \in Request, NEW o \in Wallets!Owner,
         o = Head(todo[r]).owner,
         OthersUnchanged(r), disturbed' = disturbed, WalletsHeld', UndrawnEmpty',
         query'[r] \in {"idle", "find"} \/ Head(todo'[r]).owner = o,
         \A p \in Wallets!Owner \ {o} : MoneyUnchanged(p),
         o \notin disturbed => Wallets!OwnerCoherent(o)'
  PROVE  Wallets!Coherent'
<1>1. WalletsHeld BY WalletsParts
<1>2. ASSUME NEW p \in Wallets!Owner \ disturbed' PROVE Wallets!OwnerCoherent(p)'
  <2>1. CASE p = o BY <2>1
  <2>2. CASE p # o
    <3>1. Wallets!OwnerCoherent(p) BY WalletsParts
    <3>2. MoneyUnchanged(p) BY <2>2
    <3>3. query'[r] \in {"idle", "find"} \/ Head(todo'[r]).owner # p BY <2>2
    <3> QED BY <1>1, <2>2, <3>1, <3>2, <3>3, Untouched
  <2> QED BY <2>1, <2>2
<1>3. WalletsHeld' /\ UndrawnEmpty' /\ \A p \in Wallets!Owner \ disturbed' : Wallets!OwnerCoherent(p)'
  BY <1>2
<1> QED BY <1>3 DEF Wallets!Coherent, WalletsHeld, UndrawnEmpty

(* Inserting a wallet keeps Coherent: it is the undisturbed owner's only   *)
(* one.                                                                    *)
LEMMA InsertCoherent ==
  ASSUME Wallets!TypeOK, Wallets!Coherent, NEW r \in Request, Wallets!Insert(r)
  PROVE  Wallets!Coherent'
<1>1. /\ query[r] = "insert" /\ UNCHANGED <<balance, Wallets!journal, handlers, disturbed>>
      /\ Head(todo[r]).owner \in Wallets!Owner
  BY DEF Wallets!Insert, Wallets!TypeOK
<1>2. PICK o \in Wallets!Owner : o = Head(todo[r]).owner BY <1>1
<1>3. PICK w \in Wallet : /\ owner[w] = NoOwner /\ owner' = [owner EXCEPT ![w] = o]
                          /\ Wallets!Loaded(r, w, 0)
  BY <1>2 DEF Wallets!Insert
<1>4. /\ OthersUnchanged(r)
      /\ \/ query'[r] = "idle"
         \/ /\ query'[r] \in {"count", "save"} /\ loaded'[r] = w /\ before'[r] = 0
            /\ todo'[r] = todo[r] /\ op'[r] = op[r]
            /\ query'[r] = "save" => op[r] # "debit" \/ Head(todo[r]).owner \notin Driver
  <2>1. Wallets!Finish(r) => query'[r] = "idle" BY DEF Wallets!Finish, Wallets!TypeOK
  <2> QED BY <1>1, <1>3, <2>1, LoadedOutcome
<1>5. WalletsHeld /\ UndrawnEmpty BY WalletsParts
<1>6. /\ owner'[w] = o /\ \A x \in Wallet \ {w} : owner'[x] = owner[x]
      /\ \A x \in Wallet : balance'[x] = balance[x] /\ recorded'[x] = recorded[x]
      /\ withdrawn' = withdrawn
      /\ balance[w] = 0 /\ recorded[w] = 0 /\ o # NoOwner
  BY <1>1, <1>3, <1>5, OwnersApart DEF Wallets!TypeOK, Wallets!journal, UndrawnEmpty
<1>7. WalletsHeld'
  <2>1. \A x \in Wallet : owner[x] # NoOwner => owner'[x] = owner[x] BY <1>3, <1>6
  <2>2. query'[r] \in {"count", "save", "record"} => owner'[loaded'[r]] = Head(todo'[r]).owner
    BY <1>2, <1>4, <1>6
  <2> QED BY <1>4, <1>5, <2>1, <2>2, StillHeld
<1>8. UndrawnEmpty' BY <1>5, <1>6 DEF UndrawnEmpty
<1>9. \A p \in Wallets!Owner \ {o} : MoneyUnchanged(p)
  BY <1>3, <1>6, OwnersApart DEF MoneyUnchanged
<1>10. ASSUME o \notin disturbed PROVE Wallets!OwnerCoherent(o)'
  <2>1. Wallets!OwnerCoherent(o) BY <1>10, WalletsParts
  <2>2. Wallets!WorksOn(r, o) BY <1>1, <1>2 DEF Wallets!WorksOn
  <2>3. (\A s \in Request : Wallets!WorksOn(s, o) => s = r) /\ Wallets!WalletsOf(o) = {}
    BY <1>1, <2>1, <2>2 DEF Wallets!OwnerCoherent, Wallets!HandlerCoherent
  <2>4. \A x \in Wallet : owner'[x] = o => x = w BY <1>6, <2>3 DEF Wallets!WalletsOf
  <2>5. /\ \A x, y \in Wallets!WalletsOf(o)' : x = y
        /\ \A x \in Wallets!WalletsOf(o)' : balance'[x] = recorded'[x]
    BY <1>6, <2>4 DEF Wallets!WalletsOf
  <2>6. Wallets!WorksOn(r, o)' => Wallets!HandlerCoherent(r, o)'
    BY <1>2, <1>4, <1>6 DEF Wallets!WorksOn, Wallets!HandlerCoherent
  <2>7. o \in Driver => withdrawn'[o] <= Wallets!MaxWithdrawsPerDay
    BY <1>6, <2>1 DEF Wallets!OwnerCoherent
  <2> QED BY <1>4, <2>3, <2>5, <2>6, <2>7, AloneOnOwner
<1> QED BY <1>1, <1>2, <1>4, <1>7, <1>8, <1>9, <1>10, OwnerStep

(* Counting the day's withdrawals keeps Coherent.                          *)
LEMMA CountCoherent ==
  ASSUME Wallets!TypeOK, Wallets!Coherent, NEW r \in Request, Wallets!Count(r)
  PROVE  Wallets!Coherent'
<1>1. query[r] = "count" /\ UNCHANGED <<Wallets!wallets, Wallets!journal, handlers, disturbed>>
  BY DEF Wallets!Count
<1>2. CASE Wallets!Finish(r) BY <1>1, <1>2, FinishCoherent
<1>3. CASE ~Wallets!Finish(r)
  <2>1. PICK o \in Wallets!Owner : o = Head(todo[r]).owner BY <1>1 DEF Wallets!TypeOK
  <2>2. /\ Wallets!Withdrawable(o, before[r], Head(todo[r]).amount)
        /\ Wallets!GoTo(r, "save") /\ UNCHANGED <<loaded, before>>
    BY <1>3, <2>1 DEF Wallets!Count
  <2>3. /\ OthersUnchanged(r) /\ query'[r] = "save"
        /\ todo' = todo /\ op' = op /\ loaded' = loaded /\ before' = before
    BY <2>2 DEF Wallets!GoTo, OthersUnchanged, Wallets!TypeOK
  <2>4. WalletsHeld /\ UndrawnEmpty BY WalletsParts
  <2>5. owner' = owner /\ balance' = balance /\ recorded' = recorded /\ withdrawn' = withdrawn
    BY <1>1 DEF Wallets!wallets, Wallets!journal
  <2>6. WalletsHeld' BY <1>1, <2>3, <2>4, <2>5, StillHeld DEF WalletsHeld
  <2>7. UndrawnEmpty' BY <2>4, <2>5 DEF UndrawnEmpty
  <2>8. \A p \in Wallets!Owner \ {o} : MoneyUnchanged(p) BY <2>5 DEF MoneyUnchanged
  <2>9. ASSUME o \notin disturbed PROVE Wallets!OwnerCoherent(o)'
    <3>1. Wallets!OwnerCoherent(o) BY <2>9, WalletsParts
    <3>2. Wallets!WorksOn(r, o) BY <1>1, <2>1 DEF Wallets!WorksOn
    <3>3. Wallets!HandlerCoherent(r, o) /\ \A s \in Request : Wallets!WorksOn(s, o) => s = r
      BY <3>1, <3>2 DEF Wallets!OwnerCoherent
    <3>4. Wallets!HandlerCoherent(r, o)'
      BY <1>1, <2>1, <2>2, <2>3, <2>5, <3>3 DEF Wallets!HandlerCoherent,
         Wallets!Withdrawable
    <3>5. Wallets!WalletsOf(o)' = Wallets!WalletsOf(o) BY <2>5 DEF Wallets!WalletsOf
    <3>6. \A w \in Wallets!WalletsOf(o) : balance[w] = recorded[w]
      <4>1. \A w \in Wallets!WalletsOf(o), s \in Request : Wallets!Recording(s, w) => Wallets!WorksOn(s, o)
        BY <2>4 DEF Wallets!WalletsOf, Wallets!Recording, Wallets!WorksOn, WalletsHeld
      <4>2. \A w : ~Wallets!Recording(r, w) BY <1>1 DEF Wallets!Recording
      <4> QED BY <3>1, <3>3, <4>1, <4>2 DEF Wallets!OwnerCoherent
    <3>7. /\ \A w, x \in Wallets!WalletsOf(o)' : w = x
          /\ \A w \in Wallets!WalletsOf(o)' : balance'[w] = recorded'[w]
          /\ o \in Driver => withdrawn'[o] <= Wallets!MaxWithdrawsPerDay
      BY <2>5, <3>1, <3>5, <3>6 DEF Wallets!OwnerCoherent
    <3> QED BY <2>3, <3>3, <3>4, <3>7, AloneOnOwner
  <2> QED BY <1>1, <2>1, <2>3, <2>6, <2>7, <2>8, <2>9, OwnerStep
<1> QED BY <1>2, <1>3

(* What holds when a handler alone on its owner is about to save.          *)
LEMMA BeforeSave ==
  ASSUME Wallets!TypeOK, Wallets!Coherent, NEW r \in Request, query[r] = "save",
         NEW o \in Wallets!Owner \ disturbed,
         o = Head(todo[r]).owner
  PROVE  /\ \A s \in Request : Wallets!WorksOn(s, o) => s = r
         /\ Wallets!HandlerCoherent(r, o) /\ Wallets!WalletsOf(o) = {loaded[r]}
         /\ balance[loaded[r]] = recorded[loaded[r]]
<1>1. Wallets!OwnerCoherent(o) /\ WalletsHeld BY WalletsParts
<1>2. Wallets!WorksOn(r, o) BY DEF Wallets!WorksOn
<1>3. (\A s \in Request : Wallets!WorksOn(s, o) => s = r) /\ Wallets!HandlerCoherent(r, o)
  BY <1>1, <1>2 DEF Wallets!OwnerCoherent
<1>4. loaded[r] \in Wallets!WalletsOf(o)
  BY <1>1 DEF WalletsHeld, Wallets!WalletsOf, Wallets!TypeOK
<1>5. Wallets!WalletsOf(o) = {loaded[r]} BY <1>1, <1>4 DEF Wallets!OwnerCoherent
<1>6. \A s \in Request : ~Wallets!Recording(s, loaded[r])
  <2>1. \A s \in Request : Wallets!Recording(s, loaded[r]) => Wallets!WorksOn(s, o)
    BY <1>1, <1>4 DEF Wallets!Recording, Wallets!WorksOn, WalletsHeld, Wallets!WalletsOf
  <2> QED BY <1>3, <2>1 DEF Wallets!Recording
<1> QED BY <1>1, <1>3, <1>4, <1>5, <1>6 DEF Wallets!OwnerCoherent

(* Saving keeps Coherent: the handler alone on an owner writes what it read*)
(* and its own change.                                                     *)
LEMMA SaveCoherent ==
  ASSUME Wallets!TypeOK, Wallets!Coherent, NEW r \in Request, Wallets!Save(r)
  PROVE  Wallets!Coherent'
<1>1. query[r] = "save" /\ UNCHANGED <<owner, Wallets!journal, loaded, before, handlers, disturbed>>
  BY DEF Wallets!Save
<1>2. PICK o \in Wallets!Owner : o = Head(todo[r]).owner BY <1>1 DEF Wallets!TypeOK
<1>3. PICK w \in Wallet : w = loaded[r] BY <1>1 DEF Wallets!TypeOK
<1>4. /\ OthersUnchanged(r) /\ query'[r] = "record"
      /\ todo' = todo /\ op' = op /\ loaded' = loaded /\ before' = before
  BY DEF Wallets!Save, Wallets!GoTo, OthersUnchanged, Wallets!TypeOK
<1>5. /\ owner' = owner /\ recorded' = recorded /\ withdrawn' = withdrawn
      /\ balance'[w] = before[r] + Wallets!Change(r)
      /\ \A x \in Wallet \ {w} : balance'[x] = balance[x]
  BY <1>1, <1>3 DEF Wallets!Save, Wallets!journal, Wallets!TypeOK
<1>6. WalletsHeld /\ UndrawnEmpty /\ owner[w] = o
  BY <1>1, <1>2, <1>3, WalletsParts DEF WalletsHeld
<1>7. WalletsHeld' BY <1>1, <1>4, <1>5, <1>6, StillHeld DEF WalletsHeld
<1>8. UndrawnEmpty' BY <1>5, <1>6, OwnersApart DEF UndrawnEmpty
<1>9. \A p \in Wallets!Owner \ {o} : MoneyUnchanged(p) BY <1>5, <1>6 DEF MoneyUnchanged
<1>10. ASSUME o \notin disturbed PROVE Wallets!OwnerCoherent(o)'
  <2>1. /\ \A s \in Request : Wallets!WorksOn(s, o) => s = r
        /\ Wallets!HandlerCoherent(r, o) /\ Wallets!WalletsOf(o) = {w} /\ balance[w] = recorded[w]
    BY <1>1, <1>2, <1>3, <1>10, BeforeSave
  <2>2. Wallets!OwnerCoherent(o) BY <1>10, WalletsParts
  <2>3. Wallets!WalletsOf(o)' = {w} BY <1>5, <2>1 DEF Wallets!WalletsOf
  <2>4. before[r] = balance[w] BY <1>1, <1>3, <2>1 DEF Wallets!HandlerCoherent
  <2>5. Wallets!Recorded(r)' = Wallets!Recorded(r) /\ Wallets!Change(r) = Wallets!Recorded(r)
    BY <1>4 DEF Wallets!Recorded, Wallets!Change
  <2>6. Wallets!HandlerCoherent(r, o)'
    BY <1>1, <1>3, <1>4, <1>5, <2>1, <2>4, <2>5 DEF Wallets!HandlerCoherent
  <2>7. Wallets!Recording(r, w)' BY <1>3, <1>4 DEF Wallets!Recording
  <2>8. o \in Driver => withdrawn'[o] <= Wallets!MaxWithdrawsPerDay
    BY <1>5, <2>2 DEF Wallets!OwnerCoherent
  <2> QED BY <1>4, <2>1, <2>3, <2>6, <2>7, <2>8, AloneOnOwner
<1> QED BY <1>1, <1>2, <1>4, <1>7, <1>8, <1>9, <1>10, OwnerStep

(* Recording keeps Coherent: the transaction recorded is the one the       *)
(* balance lacked.                                                         *)
LEMMA RecordCoherent ==
  ASSUME Wallets!TypeOK, Wallets!Coherent, NEW r \in Request, Wallets!Record(r)
  PROVE  Wallets!Coherent'
<1>1. query[r] = "record" /\ UNCHANGED <<Wallets!wallets, handlers, disturbed>>
  BY DEF Wallets!Record
<1>2. PICK o \in Wallets!Owner : o = Head(todo[r]).owner BY <1>1 DEF Wallets!TypeOK
<1>3. PICK w \in Wallet : w = loaded[r] BY <1>1 DEF Wallets!TypeOK
<1>4. OthersUnchanged(r) /\ query'[r] \in {"idle", "find"}
  BY DEF Wallets!Record, Wallets!Finish, OthersUnchanged, Wallets!TypeOK
<1>5. /\ owner' = owner /\ balance' = balance
      /\ recorded'[w] = recorded[w] + Wallets!Recorded(r)
      /\ \A x \in Wallet \ {w} : recorded'[x] = recorded[x]
      /\ \A p \in Wallets!Owner \ {o} : withdrawn'[p] = withdrawn[p]
      /\ withdrawn'[o] = IF op[r] = "debit" THEN withdrawn[o] + 1 ELSE withdrawn[o]
  BY <1>1, <1>2, <1>3 DEF Wallets!Record, Wallets!wallets, Wallets!TypeOK
<1>6. WalletsHeld /\ UndrawnEmpty /\ owner[w] = o
  BY <1>1, <1>2, <1>3, WalletsParts DEF WalletsHeld
<1>7. WalletsHeld'
  <2>1. query'[r] \in {"count", "save", "record"} => owner'[loaded'[r]] = Head(todo'[r]).owner
    BY <1>4
  <2> QED BY <1>4, <1>5, <1>6, <2>1, StillHeld
<1>8. UndrawnEmpty' BY <1>5, <1>6, OwnersApart DEF UndrawnEmpty
<1>9. \A p \in Wallets!Owner \ {o} : MoneyUnchanged(p) BY <1>5, <1>6 DEF MoneyUnchanged
<1>10. ASSUME o \notin disturbed PROVE Wallets!OwnerCoherent(o)'
  <2>1. Wallets!OwnerCoherent(o) BY <1>10, WalletsParts
  <2>2. Wallets!WorksOn(r, o) BY <1>1, <1>2 DEF Wallets!WorksOn
  <2>3. Wallets!HandlerCoherent(r, o) /\ \A s \in Request : Wallets!WorksOn(s, o) => s = r
    BY <2>1, <2>2 DEF Wallets!OwnerCoherent
  <2>4. balance[w] = recorded[w] + Wallets!Recorded(r)
    BY <1>1, <1>3, <2>3 DEF Wallets!HandlerCoherent
  <2>5. Wallets!WalletsOf(o)' = Wallets!WalletsOf(o) /\ w \in Wallets!WalletsOf(o)
    BY <1>5, <1>6 DEF Wallets!WalletsOf
  <2>6. Wallets!WalletsOf(o) = {w} BY <2>1, <2>5 DEF Wallets!OwnerCoherent
  <2>7. \A x \in Wallets!WalletsOf(o)' : balance'[x] = recorded'[x]
    BY <1>5, <2>4, <2>5, <2>6
  <2>8. ~Wallets!WorksOn(r, o)' BY <1>4 DEF Wallets!WorksOn
  <2>9. o \in Driver => withdrawn'[o] <= Wallets!MaxWithdrawsPerDay
    BY <1>1, <1>5, <2>1, <2>3 DEF Wallets!OwnerCoherent, Wallets!HandlerCoherent,
       Wallets!MaxWithdrawsPerDay, Wallets!TypeOK
  <2> QED BY <1>4, <2>3, <2>5, <2>6, <2>7, <2>8, <2>9, AloneOnOwner
<1> QED BY <1>1, <1>2, <1>4, <1>7, <1>8, <1>9, <1>10, OwnerStep

(* A request cut off keeps Coherent: its owner counts as disturbed.        *)
LEMMA AbortCoherent ==
  ASSUME Wallets!TypeOK, Wallets!Coherent, NEW r \in Request, Wallets!Abort(r)
  PROVE  Wallets!Coherent'
<1>1. /\ Wallets!Finish(r) /\ UNCHANGED <<Wallets!wallets, Wallets!journal>> /\ disturbed \subseteq disturbed'
      /\ query[r] # "record" \/ Head(todo[r]).owner \in disturbed'
  BY DEF Wallets!Abort
<1> QED BY <1>1, FinishCoherent

(* Midnight keeps Coherent.                                                *)
LEMMA NewDayCoherent ==
  ASSUME Wallets!TypeOK, Wallets!Coherent, Wallets!NewDay
  PROVE  Wallets!Coherent'
<1>1. /\ owner' = owner /\ balance' = balance /\ recorded' = recorded /\ query' = query /\ op' = op
      /\ todo' = todo /\ loaded' = loaded /\ before' = before /\ disturbed' = disturbed
      /\ \A p \in Wallets!Owner : withdrawn'[p] = 0
  BY DEF Wallets!NewDay, Wallets!wallets
<1>2. WalletsHeld' /\ UndrawnEmpty'
  BY <1>1, WalletsParts DEF WalletsHeld, UndrawnEmpty
<1>3. ASSUME NEW p \in Wallets!Owner \ disturbed' PROVE Wallets!OwnerCoherent(p)'
  <2>1. Wallets!OwnerCoherent(p) BY <1>1, WalletsParts
  <2>2. \A s \in Request : Wallets!WorksOn(s, p)' = Wallets!WorksOn(s, p) /\ Wallets!Recorded(s)' = Wallets!Recorded(s)
    BY <1>1 DEF Wallets!WorksOn, Wallets!Recorded
  <2>3. /\ Wallets!WalletsOf(p)' = Wallets!WalletsOf(p)
        /\ \A s \in Request, w \in Wallet : Wallets!Recording(s, w)' = Wallets!Recording(s, w)
    BY <1>1 DEF Wallets!WalletsOf, Wallets!Recording
  <2>4. \A s \in Request : Wallets!HandlerCoherent(s, p) => Wallets!HandlerCoherent(s, p)'
    BY <1>1, <2>2, <2>3 DEF Wallets!HandlerCoherent, Wallets!MaxWithdrawsPerDay
  <2>5. withdrawn'[p] <= Wallets!MaxWithdrawsPerDay BY <1>1 DEF Wallets!MaxWithdrawsPerDay
  <2>6. \A w \in Wallets!WalletsOf(p)' :
          balance'[w] = recorded'[w] \/ \E s \in Request : Wallets!Recording(s, w)'
    BY <1>1, <2>1, <2>3 DEF Wallets!OwnerCoherent, Wallets!WalletsOf
  <2> QED BY <2>1, <2>2, <2>3, <2>4, <2>5, <2>6 DEF Wallets!OwnerCoherent
<1>4. WalletsHeld' /\ UndrawnEmpty' /\ \A p \in Wallets!Owner \ disturbed' : Wallets!OwnerCoherent(p)'
  BY <1>2, <1>3
<1> QED BY <1>4 DEF Wallets!Coherent, WalletsHeld, UndrawnEmpty

(* The empty tables are coherent.                                          *)
LEMMA InitWallets == Wallets!Init => Wallets!Coherent
<1> SUFFICES ASSUME Wallets!Init PROVE Wallets!Coherent OBVIOUS
<1>1. WalletsHeld /\ UndrawnEmpty BY DEF Wallets!Init, WalletsHeld, UndrawnEmpty
<1>2. ASSUME NEW p \in Wallets!Owner PROVE Wallets!OwnerCoherent(p)
  <2>1. \A s \in Request : ~Wallets!WorksOn(s, p) BY DEF Wallets!Init, Wallets!WorksOn
  <2>2. Wallets!WalletsOf(p) = {} BY OwnersApart DEF Wallets!Init, Wallets!WalletsOf
  <2>3. withdrawn[p] <= Wallets!MaxWithdrawsPerDay
    BY DEF Wallets!Init, Wallets!MaxWithdrawsPerDay
  <2> QED BY <2>1, <2>2, <2>3 DEF Wallets!OwnerCoherent
<1> QED BY <1>1, <1>2, WalletsParts

(* Every statement of the service keeps Coherent.                          *)
LEMMA NextCoherent ==
  ASSUME Wallets!TypeOK, Wallets!Coherent, [Wallets!Next]_(Wallets!vars)
  PROVE  Wallets!Coherent'
<1>1. CASE UNCHANGED Wallets!vars
  <2>1. /\ owner' = owner /\ balance' = balance /\ recorded' = recorded /\ query' = query /\ op' = op
        /\ todo' = todo /\ loaded' = loaded /\ before' = before /\ disturbed' = disturbed
        /\ withdrawn' = withdrawn
    BY <1>1 DEF Wallets!vars
  <2> QED BY <2>1 DEF Wallets!Coherent, Wallets!OwnerCoherent, Wallets!HandlerCoherent,
     Wallets!WorksOn, Wallets!WalletsOf,
                      Wallets!Recording, Wallets!Recorded
<1>2. CASE Wallets!NewDay BY <1>2, NewDayCoherent
<1>3. ASSUME NEW r \in Request, Wallets!GetOrCreate(r) \/ Wallets!Credit(r) \/ Wallets!Debit(r) \/ Wallets!SettleCOD(r)
      PROVE  Wallets!Coherent'
  <2>1. \E kind, tasks : Wallets!Start(r, kind, tasks)
    BY <1>3 DEF Wallets!GetOrCreate, Wallets!Credit, Wallets!Debit, Wallets!SettleCOD
  <2> QED BY <2>1, StartCoherent
<1>4. ASSUME NEW r \in Request, \/ Wallets!Find(r) \/ Wallets!Insert(r) \/ Wallets!Count(r)
                               \/ Wallets!Save(r) \/ Wallets!Record(r) \/ Wallets!Abort(r)
      PROVE  Wallets!Coherent'
  BY <1>4, FindCoherent, InsertCoherent, CountCoherent, SaveCoherent, RecordCoherent,
     AbortCoherent
<1> QED BY <1>1, <1>2, <1>3, <1>4 DEF Wallets!Next
-----------------------------------------------------------------------------
(* The theorems.                                                           *)

(* The handler alone on an owner's wallet knows the balance it replaces.   *)
THEOREM WalletsCoherent == Wallets!Spec => []Wallets!Coherent
BY WalletsTyped, InitWallets, NextCoherent, PTL DEF Wallets!Spec

(* Coherent implies that balances match the transactions.                  *)
LEMMA CoherentLedger == Wallets!TypeOK /\ Wallets!Coherent => Wallets!LedgerMatches
<1> SUFFICES ASSUME Wallets!TypeOK, Wallets!Coherent, NEW w \in Wallet, owner[w] \notin disturbed
             PROVE  balance[w] = recorded[w] \/ \E r \in Request : Wallets!Recording(r, w)
  BY DEF Wallets!LedgerMatches
<1>1. CASE owner[w] = NoOwner BY <1>1 DEF Wallets!Coherent
<1>2. CASE owner[w] # NoOwner
  <2>1. Wallets!OwnerCoherent(owner[w]) /\ w \in Wallets!WalletsOf(owner[w])
    BY <1>2 DEF Wallets!TypeOK, Wallets!Coherent, Wallets!WalletsOf
  <2> QED BY <2>1 DEF Wallets!OwnerCoherent
<1> QED BY <1>1, <1>2

(* The transactions of an undisturbed owner add up to the balance, unless  *)
(* a handler is between the two.                                           *)
THEOREM LedgerExplains == Wallets!Spec => []Wallets!LedgerMatches
BY WalletsTyped, WalletsCoherent, CoherentLedger, PTL

(* Coherent implies that an undisturbed owner has one wallet.              *)
LEMMA CoherentOneWallet == Wallets!Coherent => Wallets!OneWallet
BY DEF Wallets!Coherent, Wallets!OwnerCoherent, Wallets!OneWallet, Wallets!WalletsOf

(* An undisturbed owner has one wallet.                                    *)
THEOREM OneWalletEach == Wallets!Spec => []Wallets!OneWallet
BY WalletsCoherent, CoherentOneWallet, PTL

(* Coherent implies the limit on the withdrawals of a day.                 *)
LEMMA CoherentWithdrawals == Wallets!Coherent => Wallets!OneWithdrawalADay
BY DEF Wallets!Coherent, Wallets!OwnerCoherent, Wallets!OneWithdrawalADay, Wallets!Owner

(* An undisturbed courier withdraws at most once between two midnights.    *)
THEOREM WithdrawalsLimited == Wallets!Spec => []Wallets!OneWithdrawalADay
BY WalletsCoherent, CoherentWithdrawals, PTL

(* A wallet that was just loaded is not yet one a courier draws from.      *)
LEMMA LoadedFloor ==
  ASSUME Wallets!TypeOK, NEW r \in Request, NEW w, NEW b, Wallets!Loaded(r, w, b),
         query[r] # "idle"
  PROVE  query'[r] = "save" /\ op'[r] = "debit" => Head(todo'[r]).owner \notin Driver
<1>1. CASE Wallets!Finish(r)
  BY <1>1 DEF Wallets!Finish, Wallets!TypeOK
<1>2. CASE Wallets!GoTo(r, IF op[r] = "debit" /\ Head(todo[r]).owner \in Driver
                           THEN "count" ELSE "save")
  BY <1>2 DEF Wallets!GoTo, Wallets!TypeOK
<1> QED BY <1>1, <1>2 DEF Wallets!Loaded

(* A withdrawal about to be written passed the check against the balance   *)
(* it read, whatever other handlers do meanwhile.                          *)
LEMMA AboveFloorStep ==
  ASSUME Wallets!TypeOK, Wallets!AboveFloor, [Wallets!Next]_(Wallets!vars)
  PROVE  Wallets!AboveFloor'
<1> DEFINE Below(s) == /\ query[s] = "save" /\ op[s] = "debit" /\ Head(todo[s]).owner \in Driver
                       /\ ~(before[s] - Head(todo[s]).amount >= MinCodBalance)
<1> SUFFICES ASSUME NEW s \in Request PROVE ~Below(s)'
  BY DEF Wallets!AboveFloor
<1>0. ~Below(s) BY DEF Wallets!AboveFloor
<1>1. CASE UNCHANGED <<query[s], op[s], todo[s], before[s]>> BY <1>0, <1>1
<1>2. CASE query'[s] # "save" BY <1>2
<1>3. ASSUME NEW r \in Request, Wallets!Find(r) PROVE ~Below(s)'
  <2>1. query[r] = "find" BY <1>3 DEF Wallets!Find
  <2>2. CASE s # r
    BY <1>1, <1>3, <2>2 DEF Wallets!Find, Wallets!Loaded, Wallets!Finish, Wallets!GoTo, Wallets!TypeOK
  <2>3. CASE s = r /\ \E w, b : Wallets!Loaded(r, w, b)
    BY <2>1, <2>3, LoadedFloor
  <2>4. CASE s = r /\ (Wallets!Finish(r) \/ Wallets!GoTo(r, "insert"))
    BY <1>2, <2>4 DEF Wallets!Finish, Wallets!GoTo, Wallets!TypeOK
  <2> QED BY <1>3, <2>2, <2>3, <2>4 DEF Wallets!Find
<1>4. ASSUME NEW r \in Request, Wallets!Insert(r) PROVE ~Below(s)'
  <2>1. PICK w \in Wallet : query[r] = "insert" /\ Wallets!Loaded(r, w, 0)
    BY <1>4 DEF Wallets!Insert
  <2>2. CASE s # r
    BY <1>1, <2>1, <2>2 DEF Wallets!Loaded, Wallets!Finish, Wallets!GoTo, Wallets!TypeOK
  <2>3. CASE s = r BY <2>1, <2>3, LoadedFloor
  <2> QED BY <2>2, <2>3
<1>5. ASSUME NEW r \in Request, Wallets!Count(r) PROVE ~Below(s)'
  <2>1. CASE s # r
    BY <1>1, <1>5, <2>1 DEF Wallets!Count, Wallets!Finish, Wallets!GoTo, Wallets!TypeOK
  <2>2. CASE s = r /\ Wallets!Finish(r)
    BY <1>2, <2>2 DEF Wallets!Finish, Wallets!TypeOK
  <2>3. CASE /\ s = r /\ Wallets!GoTo(r, "save") /\ UNCHANGED before
             /\ Wallets!Withdrawable(Head(todo[r]).owner, before[r], Head(todo[r]).amount)
    BY <2>3 DEF Wallets!GoTo, Wallets!Withdrawable
  <2> QED BY <1>5, <2>1, <2>2, <2>3 DEF Wallets!Count
<1>6. CASE \/ UNCHANGED Wallets!vars
           \/ Wallets!NewDay
           \/ \E r \in Request : \/ Wallets!GetOrCreate(r) \/ Wallets!Credit(r)
                                 \/ Wallets!Debit(r) \/ Wallets!SettleCOD(r)
                                 \/ Wallets!Save(r) \/ Wallets!Record(r) \/ Wallets!Abort(r)
  <2>1. CASE UNCHANGED Wallets!vars \/ Wallets!NewDay
    BY <1>1, <2>1 DEF Wallets!vars, Wallets!NewDay
  <2>2. ASSUME NEW r \in Request, NEW kind, NEW tasks, Wallets!Start(r, kind, tasks)
        PROVE  ~Below(s)'
    BY <1>1, <1>2, <2>2 DEF Wallets!Start, Wallets!TypeOK
  <2>3. ASSUME NEW r \in Request,
               Wallets!GetOrCreate(r) \/ Wallets!Credit(r) \/ Wallets!Debit(r) \/ Wallets!SettleCOD(r)
        PROVE  ~Below(s)'
    BY <2>2, <2>3 DEF Wallets!GetOrCreate, Wallets!Credit, Wallets!Debit, Wallets!SettleCOD
  <2>4. ASSUME NEW r \in Request, Wallets!Save(r) \/ Wallets!Record(r) \/ Wallets!Abort(r)
        PROVE  query'[s] # "save" \/ UNCHANGED <<query[s], op[s], todo[s], before[s]>>
    BY <2>4 DEF Wallets!Save, Wallets!Record, Wallets!Abort, Wallets!Finish, Wallets!GoTo,
                Wallets!TypeOK
  <2> QED BY <1>1, <1>2, <1>6, <2>1, <2>3, <2>4
<1> QED BY <1>3, <1>4, <1>5, <1>6 DEF Wallets!Next

(* In every state of every behaviour.                                      *)
THEOREM FloorChecked == Wallets!Spec => []Wallets!AboveFloor
<1>1. Wallets!Init => Wallets!AboveFloor BY DEF Wallets!Init, Wallets!AboveFloor
<1> QED BY <1>1, AboveFloorStep, WalletsTyped, PTL DEF Wallets!Spec

(* Only a save moves a balance: a withdrawal writes what it checked, and a *)
(* credit what it read and a positive amount more.                         *)
LEMMA FloorStep ==
  ASSUME Wallets!TypeOK, Wallets!Coherent, Wallets!AboveFloor, [Wallets!Next]_(Wallets!vars),
         NEW w \in Wallet, owner[w] \in Driver, balance'[w] < balance[w]
  PROVE  \/ balance'[w] >= MinCodBalance
         \/ \E r \in Request :
              /\ Wallets!Crediting(r, w)
              /\ Head(todo[r]).amount < 0 \/ owner[w] \in disturbed
<1>0. balance[w] \in Int BY DEF Wallets!TypeOK
<1>1. CASE \E r \in Request : Wallets!Save(r)
  <2>1. PICK r \in Request : Wallets!Save(r) BY <1>1
  <2>2. /\ query[r] = "save" /\ disturbed' = disturbed
        /\ balance' = [balance EXCEPT ![loaded[r]] = before[r] + Wallets!Change(r)]
    BY <2>1 DEF Wallets!Save
  <2>3. w = loaded[r] /\ balance'[w] = before[r] + Wallets!Change(r)
    BY <1>0, <2>2 DEF Wallets!TypeOK
  <2>4. Head(todo[r]).amount \in Int /\ before[r] \in Int
    BY <2>2, CurrentTask DEF Wallets!TypeOK
  <2>5. Head(todo[r]).owner = owner[w]
    BY <2>2, <2>3 DEF Wallets!Coherent
  <2>6. CASE op[r] = "debit"
    <3>1. before[r] - Head(todo[r]).amount >= MinCodBalance
      BY <2>2, <2>5, <2>6 DEF Wallets!AboveFloor
    <3>2. Wallets!Change(r) = 0 - Head(todo[r]).amount BY <2>6 DEF Wallets!Change
    <3>3. before[r] + Wallets!Change(r) = before[r] - Head(todo[r]).amount
      BY <2>4, <3>2
    <3> QED BY <2>3, <3>1, <3>3
  <2>7. CASE op[r] # "debit" /\ owner[w] \notin disturbed
    <3>1. PICK o \in Wallets!Owner \ disturbed : o = owner[w] BY <2>7 DEF Wallets!Owner
    <3>2. Wallets!HandlerCoherent(r, o) BY <2>2, <2>5, <3>1, BeforeSave
    <3>3. before[r] = balance[w] BY <2>2, <2>3, <3>2 DEF Wallets!HandlerCoherent
    <3>4. Wallets!Change(r) = Head(todo[r]).amount BY <2>7 DEF Wallets!Change
    <3>5. Head(todo[r]).amount < 0 BY <1>0, <2>3, <2>4, <3>3, <3>4
    <3> QED BY <2>2, <2>3, <2>7, <3>5 DEF Wallets!Crediting
  <2>8. CASE op[r] # "debit" /\ owner[w] \in disturbed
    BY <2>2, <2>3, <2>8 DEF Wallets!Crediting
  <2> QED BY <2>6, <2>7, <2>8
<1>2. CASE ~\E r \in Request : Wallets!Save(r)
  <2>1. balance' = balance
    BY <1>2 DEF Wallets!Next, Wallets!vars, Wallets!NewDay, Wallets!GetOrCreate,
       Wallets!Credit, Wallets!Debit, Wallets!SettleCOD, Wallets!Start,
                Wallets!Find, Wallets!Insert, Wallets!Count, Wallets!Record, Wallets!Abort, Wallets!wallets
  <2> QED BY <1>0, <2>1
<1> QED BY <1>1, <1>2

(* No withdrawal takes a courier below the floor for cash orders, however  *)
(* handlers overlap; a credit does when its amount is negative or it       *)
(* overwrites another handler's balance.                                   *)
THEOREM FloorHolds == Wallets!Spec => Wallets!FloorKept
<1>1. ASSUME Wallets!TypeOK, Wallets!Coherent, Wallets!AboveFloor, [Wallets!Next]_(Wallets!vars)
      PROVE  [\A w \in Wallet :
                owner[w] \in Driver /\ balance'[w] < balance[w] =>
                  \/ balance'[w] >= MinCodBalance
                  \/ \E r \in Request :
                       /\ Wallets!Crediting(r, w)
                       /\ Head(todo[r]).amount < 0 \/ owner[w] \in disturbed]_(Wallets!vars)
  BY <1>1, FloorStep
<1> QED BY <1>1, WalletsTyped, WalletsCoherent, FloorChecked, PTL DEF Wallets!Spec, Wallets!FloorKept

-----------------------------------------------------------------------------
(* The services side by side.                                              *)

(* Beside the wallets the payments run by themselves.                      *)
LEMMA PaymentsByThemselves == SpecHalves => Spec
<1>1. InitHalves => Init BY DEF InitHalves
<1>2. [InPayments \/ InWallets]_<<half, vars, walletVars>> => [Next]_vars
  BY DEF InPayments, InWallets
<1> QED BY <1>1, <1>2, PTL DEF SpecHalves, Spec

(* Beside the payments the wallets run by themselves.                      *)
LEMMA WalletsByThemselves == SpecHalves => Wallets!Spec
<1>1. InitHalves => Wallets!Init BY DEF InitHalves
<1>2. [InPayments \/ InWallets]_<<half, vars, walletVars>> => [Wallets!Next]_(Wallets!vars)
  BY DEF InPayments, InWallets, walletVars, Wallets!vars
<1> QED BY <1>1, <1>2, PTL DEF SpecHalves, Wallets!Spec

(* The transactions of an undisturbed owner add up to the balance.         *)
THEOREM LedgersMatch == SpecHalves => []LedgerMatches
BY WalletsByThemselves, LedgerExplains, PTL DEF LedgerMatches

(* An undisturbed owner has one wallet.                                    *)
THEOREM WalletsStayOne == SpecHalves => []OneWallet
BY WalletsByThemselves, OneWalletEach, PTL DEF OneWallet

(* An undisturbed courier withdraws once between two midnights.            *)
THEOREM OneWithdrawalEach == SpecHalves => []OneWithdrawalADay
BY WalletsByThemselves, WithdrawalsLimited, PTL DEF OneWithdrawalADay

(* No withdrawal takes a courier below the floor.                          *)
THEOREM FloorIsKept == SpecHalves => FloorKept
BY WalletsByThemselves, FloorHolds, PTL DEF FloorKept

(* The shares of a payment, beside the wallets.                            *)
THEOREM PaymentsHold ==
  ASSUME Percents = [merchant |-> 70, driver |-> 20]
  PROVE  SpecHalves => [](Inv /\ PaidOnce /\ CutSplitIsStuck /\ RowTellsMoney)
BY PaymentsByThemselves, InvHolds, SharesPaidOnce, CutSplitsStayStuck, RowsTellMoney, PTL
=============================================================================
