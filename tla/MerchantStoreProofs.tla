------------------------- MODULE MerchantStoreProofs -------------------------
(***************************************************************************)
(* Proofs about MerchantStore for any restaurants, items and handlers, and *)
(* about Delivery, where a restaurant's order goes to the door, for any    *)
(* couriers and calls.  Four invariants of MerchantStore rest on each      *)
(* other: the types; Rows, what a row and the memory of its handlers are;  *)
(* Owned, to whom the items belong; Coherent, what a handler alone on its  *)
(* restaurant knows.  DeliveryIInv says what a call has in hand while no   *)
(* other wrote over it.                                                    *)
(***************************************************************************)
EXTENDS MerchantStore, Delivery, TLAPS

-----------------------------------------------------------------------------
(* Types.                                                                  *)

(* The constant records have their types.                                  *)
LEMMA ConstantsTyped ==
  /\ Absent \in Row /\ NewMerchant \in Row /\ NotListed \in ItemRow
  /\ EmptyMenu \in [Item -> ItemRow] /\ NoCommand \in Command
  /\ \A m \in Merchant, p \in Nat : NewItem(m, p) \in ItemRow
<1>1. Absent \in Row /\ NotListed \in ItemRow
  BY DEF Absent, Row, CapacityStatus, NotListed, ItemRow
<1>2. NewMerchant \in Row BY DEF NewMerchant, Absent, Row, CapacityStatus, MerchantStatus
<1>3. NoCommand \in Command BY DEF NoCommand, Command
<1> QED BY <1>1, <1>2, <1>3 DEF EmptyMenu, NewItem, ItemRow

(* The fields of a command.                                                *)
LEMMA CommandFields ==
  ASSUME NEW c \in Command
  PROVE  /\ c.op \in {"profile", "approve", "reject", "hours", "capacity", "addItem",
                      "updateItem", "toggleItem", "removeItem"}
         /\ c.op \in {"addItem", "updateItem"} => c.item \in Item /\ c.value \in Nat
         /\ c.op \in {"toggleItem", "removeItem"} => c.item \in Item
         /\ c.op = "capacity" => c.value \in Capacity
<1>1. CASE c \in [op : {"profile", "approve", "reject", "hours"}, item : {NoItem}, value : {0}]
  BY <1>1
<1>2. CASE c \in [op : {"capacity"}, item : {NoItem}, value : Capacity]
  BY <1>2
<1>3. CASE c \in [op : {"addItem", "updateItem"}, item : Item, value : Price]
  BY <1>3, NumbersAssumption
<1>4. CASE c \in [op : {"toggleItem", "removeItem"}, item : Item, value : {0}]
  BY <1>4
<1> QED BY <1>1, <1>2, <1>3, <1>4 DEF Command

(* A command leaves orders, capacity status of an idle kitchen, and the    *)
(* deletion as they are.                                                   *)
LEMMA AfterCommandTyped ==
  ASSUME NEW c \in Command, NEW e \in Row
  PROVE  /\ AfterCommand(c, e) \in Row
         /\ AfterCommand(c, e).deleted = e.deleted
         /\ AfterCommand(c, e).orders = e.orders
         /\ e.status # "NONE" => AfterCommand(c, e).status # "NONE"
         /\ c.op \notin {"approve", "reject"} => AfterCommand(c, e).status = e.status
         /\ c.op = "approve" => AfterCommand(c, e).status = "APPROVED"
         /\ c.op = "reject" => AfterCommand(c, e).status = "REJECTED"
<1>1. CASE c.op = "approve" BY <1>1 DEF AfterCommand, Row, MerchantStatus
<1>2. CASE c.op = "reject" BY <1>2 DEF AfterCommand, Row, MerchantStatus
<1>3. CASE c.op = "capacity"
  <2> DEFINE f == [e EXCEPT !.capacity = c.value]
  <2>1. AfterCommand(c, e) = Recalculated(f) BY <1>3 DEF AfterCommand
  <2>2. f \in Row /\ f.deleted = e.deleted /\ f.orders = e.orders /\ f.status = e.status
    BY <1>3, CommandFields DEF Row
  <2> HIDE DEF f
  <2>3. /\ Recalculated(f) \in Row /\ Recalculated(f).deleted = f.deleted
        /\ Recalculated(f).orders = f.orders /\ Recalculated(f).status = f.status
    BY <2>2 DEF Recalculated, Row, CapacityStatus
  <2> QED BY <1>3, <2>1, <2>2, <2>3
<1>4. CASE c.op \notin {"approve", "reject", "capacity"}
  <2>1. AfterCommand(c, e) = e BY <1>4 DEF AfterCommand
  <2> QED BY <1>4, <2>1
<1> QED BY <1>1, <1>2, <1>3, <1>4

(* A kitchen without orders is not busy.                                   *)
LEMMA NormalStays ==
  ASSUME NEW c \in Command, NEW e \in Row, e.orders = 0, e.capacityStatus = "NORMAL"
  PROVE  AfterCommand(c, e).capacityStatus = "NORMAL"
<1>1. CASE c.op = "capacity"
  <2> DEFINE f == [e EXCEPT !.capacity = c.value]
  <2>1. AfterCommand(c, e) = Recalculated(f) BY <1>1 DEF AfterCommand
  <2>2. f \in Row /\ f.orders = 0 /\ f.capacity \in Nat \ {0}
    BY <1>1, CommandFields, NumbersAssumption DEF Row
  <2> HIDE DEF f
  <2>3. (100 * f.orders) \div f.capacity = 0 BY <2>2
  <2> QED BY <2>1, <2>2, <2>3 DEF Recalculated, Row
<1>2. CASE c.op # "capacity" BY <1>2, CommandFields DEF AfterCommand, Row
<1> QED BY <1>1, <1>2

(* The menu loaded with a restaurant is well typed, and so is what a       *)
(* command makes of it.                                                    *)
LEMMA MenuTyped ==
  ASSUME TypeOK, NEW c \in Command, NEW m \in Merchant
  PROVE  /\ MenuOf(m) \in [Item -> ItemRow]
         /\ MenuAfter(c, m, MenuOf(m)) \in [Item -> ItemRow]
<1>1. MenuOf(m) \in [Item -> ItemRow] BY ConstantsTyped DEF TypeOK, MenuOf
<1> DEFINE items == MenuOf(m)
<1> HIDE DEF items
<1>2. items \in [Item -> ItemRow] BY <1>1 DEF items
<1>3. c.op = "addItem" => MenuAfter(c, m, items) \in [Item -> ItemRow]
  BY <1>2, ConstantsTyped, CommandFields DEF MenuAfter
<1>4. ASSUME c.op = "updateItem" PROVE MenuAfter(c, m, items) \in [Item -> ItemRow]
  <2>1. items[c.item] \in ItemRow /\ c.value \in Nat BY <1>2, <1>4, CommandFields
  <2>2. Repriced(items[c.item], c.value) \in ItemRow BY <2>1 DEF Repriced, ItemRow
  <2> QED BY <1>2, <1>4, <2>2 DEF MenuAfter
<1>5. ASSUME c.op = "toggleItem" PROVE MenuAfter(c, m, items) \in [Item -> ItemRow]
  <2>1. items[c.item] \in ItemRow BY <1>2, <1>5, CommandFields
  <2>2. PICK a \in BOOLEAN : a = ~items[c.item].available OBVIOUS
  <2>3. [items[c.item] EXCEPT !.available = a] \in ItemRow BY <2>1 DEF ItemRow
  <2>4. MenuAfter(c, m, items) =
          [items EXCEPT ![c.item] = [items[c.item] EXCEPT !.available = a]]
    BY <1>5, <2>2, Zenon DEF MenuAfter
  <2> QED BY <1>2, <2>3, <2>4
<1>6. c.op = "removeItem" => MenuAfter(c, m, items) \in [Item -> ItemRow]
  BY <1>2, ConstantsTyped, CommandFields DEF MenuAfter
<1>7. c.op \notin {"addItem", "updateItem", "toggleItem", "removeItem"} =>
        MenuAfter(c, m, items) = items
  BY DEF MenuAfter
<1> QED BY <1>1, <1>2, <1>3, <1>4, <1>5, <1>6, <1>7, CommandFields DEF items

(* The row a save writes over the current one is well typed.               *)
LEMMA MergedTyped ==
  ASSUME NEW e \in Row, NEW b \in Row, NEW current \in Row
  PROVE  Merged(e, b, current) \in Row
BY DEF Merged, Row

(* The menu a save writes over the current one is well typed.              *)
LEMMA SavedMenuTyped ==
  ASSUME TypeOK, NEW r \in Request
  PROVE  SavedMenu(r) \in [Item -> ItemRow]
<1>1. ASSUME NEW x \in ItemRow, NEW b \in ItemRow, NEW current \in ItemRow
      PROVE  MergedItem(x, b, current) \in ItemRow
  BY DEF MergedItem, ItemRow
<1>2. \A i \in Item : item[i] \in ItemRow /\ menu[r][i] \in ItemRow /\ itemBase[r][i] \in ItemRow
  BY DEF TypeOK
<1> QED BY <1>1, <1>2 DEF SavedMenu

(* The empty tables are well typed.                                        *)
LEMMA InitTyped == Init => TypeOK
BY ConstantsTyped DEF Init, TypeOK, Agreement

(* The start of a request keeps the types.                                 *)
LEMMA StartTyped ==
  ASSUME TypeOK, NEW r \in Request, NEW m \in Merchant, NEW c \in Command, NEW e \in Row,
         NEW next \in {"menu", "select"}, Start(r, m, c, e, next)
  PROVE  TypeOK'
BY DEF TypeOK, Start, GoTo, Disturb

(* The end of a request keeps the types.                                   *)
LEMMA FinishTyped ==
  ASSUME TypeOK, NEW r \in Request, Finish(r),
         UNCHANGED <<row, item, hours, started, agreed, overlapped>>
  PROVE  TypeOK'
BY ConstantsTyped DEF TypeOK, Finish, GoTo

(* Every statement of the service keeps the types.                         *)
LEMMA StepTyped == TypeOK /\ [Next]_vars => TypeOK'
<1> SUFFICES ASSUME TypeOK, [Next]_vars PROVE TypeOK' OBVIOUS
<1>1. ASSUME NEW m \in Merchant, DeleteMerchant(m) PROVE TypeOK'
  <2>1. row[m] \in Row BY DEF TypeOK
  <2>2. [row[m] EXCEPT !.deleted = TRUE] \in Row BY <2>1 DEF Row
  <2>3. row' = [row EXCEPT ![m] = [row[m] EXCEPT !.deleted = TRUE]]
    BY <1>1 DEF DeleteMerchant
  <2>4. row' \in [Merchant -> Row] BY <2>2, <2>3 DEF TypeOK
  <2> QED BY <1>1, <2>4 DEF TypeOK, DeleteMerchant, Disturb, memory
<1>2. ASSUME NEW r \in Request, NEW m \in Merchant, Register(r, m) PROVE TypeOK'
  BY <1>2, StartTyped, ConstantsTyped DEF Register
<1>3. ASSUME NEW r \in Request, NEW m \in Merchant, NEW c \in Command, FindMerchant(r, m, c)
      PROVE  TypeOK'
  <2>1. row[m] \in Row BY DEF TypeOK
  <2> QED BY <1>3, <2>1, StartTyped DEF FindMerchant
<1>4. ASSUME NEW r \in Request, LoadMenu(r) PROVE TypeOK'
  <2>1. target[r] \in Merchant /\ command[r] \in Command /\ ent[r] \in Row
    BY <1>4 DEF TypeOK, LoadMenu
  <2>2. /\ AfterCommand(command[r], ent[r]) \in Row
        /\ MenuAfter(command[r], target[r], MenuOf(target[r])) \in [Item -> ItemRow]
    BY <2>1, AfterCommandTyped, MenuTyped
  <2> QED BY <1>4, <2>2 DEF TypeOK, LoadMenu, GoTo
<1>5. ASSUME NEW r \in Request, Refuse(r) PROVE TypeOK'
  BY <1>5, FinishTyped DEF Refuse
<1>6. ASSUME NEW r \in Request, SelectRow(r) PROVE TypeOK'
  BY <1>6 DEF TypeOK, SelectRow, GoTo
<1>7. ASSUME NEW r \in Request, UpdateRow(r) PROVE TypeOK'
  <2>1. PICK m \in Merchant : m = target[r] BY <1>7 DEF UpdateRow, TypeOK
  <2>2. ent[r] \in Row /\ Merged(ent[r], base[r], row[m]) \in Row
    BY MergedTyped DEF TypeOK
  <2> QED BY <1>7, <2>1, <2>2 DEF TypeOK, UpdateRow, GoTo
<1>8. ASSUME NEW r \in Request, SelectItems(r) PROVE TypeOK'
  <2>1. [i \in Item |-> IF menu[r][i] = NotListed THEN NotListed ELSE item[i]]
          \in [Item -> ItemRow]
    BY ConstantsTyped DEF TypeOK
  <2> QED BY <1>8, <2>1 DEF TypeOK, SelectItems, GoTo
<1>9. ASSUME NEW r \in Request, UpdateItems(r) PROVE TypeOK'
  <2>1. AgreedAfter(r) \in [Item -> Agreement]
    <3>1. \A i \in Item : menu[r][i].price \in Nat /\ menu[r][i].available \in BOOLEAN
      BY DEF TypeOK, ItemRow
    <3>2. command[r].item \in Item \cup {NoItem}
      <4>1. command[r] \in Command BY DEF TypeOK
      <4> QED BY <4>1 DEF Command
    <3> QED BY <3>1, <3>2 DEF TypeOK, AgreedAfter, Agreement
  <2> QED BY <1>9, <2>1, SavedMenuTyped DEF TypeOK, UpdateItems, GoTo
<1>10. ASSUME NEW r \in Request, SaveHours(r) PROVE TypeOK'
  <2>1. hours' = hours BY <1>10 DEF SaveHours, Storable
  <2> QED BY <1>10, <2>1, FinishTyped DEF SaveHours
<1>11. ASSUME NEW r \in Request, Abort(r) PROVE TypeOK'
  BY <1>11, FinishTyped DEF Abort
<1>12. CASE UNCHANGED vars BY <1>12 DEF vars, TypeOK
<1> QED BY <1>1, <1>2, <1>3, <1>4, <1>5, <1>6, <1>7, <1>8, <1>9, <1>10, <1>11,
   <1>12 DEF Next

-----------------------------------------------------------------------------
(* Rows.                                                                   *)

(* No orders, and a status if it is there at all.                          *)
Quiet(e) == e.orders = 0 /\ e.capacityStatus = "NORMAL"

(* A row that is not there yet has one handler at most, the one that       *)
(* registers it; a select found a row or none, and none was inserted since. *)
Rows ==
  /\ hours = {}
  /\ \A m \in Merchant : Quiet(row[m]) /\ (row[m].status = "NONE" => row[m] = Absent)
  /\ \A r \in Request :
       /\ Quiet(ent[r])
       /\ pc[r] # "idle" => ent[r].status # "NONE"
       /\ pc[r] = "idle" <=> target[r] = NoMerchant
       /\ pc[r] = "update" => (base[r] = Absent <=> row[target[r]] = Absent)
  /\ \A m \in Merchant : row[m] = Absent =>
       \A r, s \in Request : target[r] = m /\ target[s] = m => r = s

(* Only the status tells a row that is not there.                          *)
LEMMA AbsentIs ==
  /\ Quiet(Absent) /\ Absent.status = "NONE" /\ Absent.deleted = FALSE
  /\ Quiet(NewMerchant) /\ NewMerchant.status = "PENDING" /\ NewMerchant.deleted = FALSE
<1>1. Quiet(Absent) /\ Absent.status = "NONE" /\ Absent.deleted = FALSE
  BY DEF Absent, Quiet
<1>2. Absent \in Row BY ConstantsTyped
<1> QED BY <1>1, <1>2 DEF NewMerchant, Quiet, Row

(* Nobody is registered at first.                                          *)
LEMMA InitRows == Init => Rows
BY AbsentIs, NullAssumption DEF Init, Rows

(* The start of a request keeps what is true of the rows and of the        *)
(* restaurants in memory.                                                  *)
LEMMA StartRows ==
  ASSUME TypeOK, Rows, NEW r \in Request, NEW m \in Merchant, NEW c, NEW e \in Row,
         NEW next \in {"menu", "select"}, Start(r, m, c, e, next),
         Quiet(e), e.status # "NONE", row[m] = Absent => ~Busy(m)
  PROVE  Rows'
<1>1. /\ pc' = [pc EXCEPT ![r] = next] /\ target' = [target EXCEPT ![r] = m]
      /\ ent' = [ent EXCEPT ![r] = e] /\ UNCHANGED <<row, hours, base>>
  BY DEF Start, GoTo
<1>2. \A s \in Request :
        /\ Quiet(ent[s])'
        /\ (pc[s] # "idle" => ent[s].status # "NONE")'
        /\ (pc[s] = "idle" <=> target[s] = NoMerchant)'
        /\ (pc[s] = "update" => (base[s] = Absent <=> row[target[s]] = Absent))'
  BY <1>1, NullAssumption DEF TypeOK, Rows, Quiet
<1>3. \A d \in Merchant : row'[d] = Absent =>
        \A q, s \in Request : target'[q] = d /\ target'[s] = d => q = s
  BY <1>1 DEF TypeOK, Rows, Busy
<1>4. /\ hours' = {}
      /\ \A d \in Merchant : (Quiet(row[d]) /\ (row[d].status = "NONE" => row[d] = Absent))'
  BY <1>1 DEF Rows, Quiet
<1> QED BY <1>2, <1>3, <1>4 DEF Rows

(* So does its end.                                                        *)
LEMMA FinishRows ==
  ASSUME TypeOK, Rows, NEW r \in Request, Finish(r), UNCHANGED <<row, hours>>
  PROVE  Rows'
<1>1. /\ pc' = [pc EXCEPT ![r] = "idle"] /\ target' = [target EXCEPT ![r] = NoMerchant]
      /\ ent' = [ent EXCEPT ![r] = Absent] /\ base' = [base EXCEPT ![r] = Absent]
  BY DEF Finish, GoTo
<1>2. \A s \in Request :
        /\ Quiet(ent[s])'
        /\ (pc[s] # "idle" => ent[s].status # "NONE")'
        /\ (pc[s] = "idle" <=> target[s] = NoMerchant)'
        /\ (pc[s] = "update" => (base[s] = Absent <=> row[target[s]] = Absent))'
  BY <1>1, NullAssumption, AbsentIs DEF TypeOK, Rows, Quiet
<1>3. \A d \in Merchant : row'[d] = Absent =>
        \A q, s \in Request : target'[q] = d /\ target'[s] = d => q = s
  BY <1>1, NullAssumption DEF TypeOK, Rows
<1>4. /\ hours' = {}
      /\ \A d \in Merchant : (Quiet(row[d]) /\ (row[d].status = "NONE" => row[d] = Absent))'
  BY DEF Rows, Quiet
<1> QED BY <1>2, <1>3, <1>4 DEF Rows

(* What a save makes of a row: it is there, and closed only if it was.     *)
LEMMA UpdateRowIs ==
  ASSUME TypeOK, Rows, NEW r \in Request, UpdateRow(r)
  PROVE  \E m \in Merchant, e \in Row :
           /\ m = target[r] /\ row' = [row EXCEPT ![m] = e]
           /\ Quiet(e) /\ e.status # "NONE"
           /\ row[m].deleted => e.deleted
<1>1. PICK m \in Merchant : m = target[r] BY DEF UpdateRow, TypeOK
<1>2. /\ pc[r] = "update" /\ ent[r] \in Row /\ base[r] \in Row /\ row[m] \in Row
      /\ Quiet(ent[r]) /\ Quiet(row[m]) /\ ent[r].status # "NONE"
      /\ base[r] = Absent <=> row[m] = Absent
      /\ row[m].status = "NONE" => row[m] = Absent
  BY <1>1 DEF UpdateRow, TypeOK, Rows
<1>3. CASE base[r] = Absent
  <2>1. row' = [row EXCEPT ![m] = ent[r]] BY <1>1, <1>3 DEF UpdateRow
  <2>2. ~row[m].deleted BY <1>2, <1>3, AbsentIs
  <2> QED BY <1>1, <1>2, <2>1, <2>2
<1>4. CASE base[r] # Absent
  <2> DEFINE e == Merged(ent[r], base[r], row[m])
  <2>1. row' = [row EXCEPT ![m] = e] BY <1>1, <1>4 DEF UpdateRow
  <2>2. e \in Row BY <1>2, MergedTyped
  <2>3. Quiet(e) /\ e.status # "NONE" /\ e.deleted = row[m].deleted
    BY <1>2, <1>4 DEF Merged, Quiet
  <2> HIDE DEF e
  <2> QED BY <1>1, <2>1, <2>2, <2>3
<1> QED BY <1>3, <1>4

(* So does every statement of the service.                                 *)
LEMMA StepRows == TypeOK /\ Rows /\ [Next]_vars => Rows'
<1> SUFFICES ASSUME TypeOK, Rows, [Next]_vars PROVE Rows' OBVIOUS
<1>1. ASSUME NEW m \in Merchant, DeleteMerchant(m) PROVE Rows'
  <2> DEFINE e == [row[m] EXCEPT !.deleted = TRUE]
  <2>1. row[m] \in Row /\ Quiet(row[m]) /\ row[m].status # "NONE" /\ row[m] # Absent
    BY <1>1 DEF TypeOK, Rows, DeleteMerchant
  <2>2. e \in Row /\ Quiet(e) /\ e.status # "NONE" BY <2>1 DEF Row, Quiet
  <2>3. e # Absent BY <2>2, AbsentIs
  <2>4. row' = [row EXCEPT ![m] = e] /\ UNCHANGED <<hours, pc, target, ent, base>>
    BY <1>1 DEF DeleteMerchant, memory
  <2> HIDE DEF e
  <2>5. \A d \in Merchant : (row'[d] = Absent <=> row[d] = Absent)
    BY <2>1, <2>3, <2>4 DEF TypeOK
  <2>6. \A d \in Merchant : (Quiet(row[d]) /\ (row[d].status = "NONE" => row[d] = Absent))'
    BY <2>2, <2>4 DEF TypeOK, Rows, Quiet
  <2>7. \A r \in Request :
          (pc[r] = "update" => (base[r] = Absent <=> row[target[r]] = Absent))'
    BY <2>4, <2>5 DEF Rows, TypeOK
  <2> QED BY <2>4, <2>5, <2>6, <2>7 DEF Rows, Quiet
<1>2. ASSUME NEW r \in Request, NEW m \in Merchant, Register(r, m) PROVE Rows'
  BY <1>2, StartRows, ConstantsTyped, AbsentIs DEF Register
<1>3. ASSUME NEW r \in Request, NEW m \in Merchant, NEW c \in Command, FindMerchant(r, m, c)
      PROVE  Rows'
  <2>1. row[m] \in Row /\ Quiet(row[m]) /\ row[m].status # "NONE" /\ row[m] # Absent
    BY <1>3 DEF TypeOK, Rows, FindMerchant
  <2>2. Start(r, m, c, row[m], "menu") BY <1>3 DEF FindMerchant
  <2> QED BY <2>1, <2>2, StartRows
<1>4. ASSUME NEW r \in Request, LoadMenu(r) PROVE Rows'
  <2> DEFINE e == AfterCommand(command[r], ent[r])
  <2>1. /\ command[r] \in Command /\ ent[r] \in Row /\ Quiet(ent[r])
        /\ ent[r].status # "NONE" /\ target[r] # NoMerchant
    BY <1>4 DEF TypeOK, Rows, LoadMenu
  <2>2. Quiet(e) /\ e.status # "NONE" BY <2>1, AfterCommandTyped, NormalStays DEF Quiet
  <2>3. /\ ent' = [ent EXCEPT ![r] = e] /\ pc' = [pc EXCEPT ![r] = "select"]
        /\ UNCHANGED <<row, hours, target, base>>
    BY <1>4 DEF LoadMenu, GoTo
  <2> HIDE DEF e
  <2>4. \A s \in Request :
          /\ Quiet(ent[s])'
          /\ (pc[s] # "idle" => ent[s].status # "NONE")'
          /\ (pc[s] = "idle" <=> target[s] = NoMerchant)'
          /\ (pc[s] = "update" => (base[s] = Absent <=> row[target[s]] = Absent))'
    BY <2>1, <2>2, <2>3 DEF TypeOK, Rows, Quiet
  <2> QED BY <2>3, <2>4 DEF Rows, Quiet
<1>5. ASSUME NEW r \in Request, Refuse(r) PROVE Rows'
  BY <1>5, FinishRows DEF Refuse
<1>6. ASSUME NEW r \in Request, SelectRow(r) PROVE Rows'
  <2>1. /\ pc[r] = "select" /\ pc' = [pc EXCEPT ![r] = "update"]
        /\ base' = [base EXCEPT ![r] = row[target[r]]]
        /\ UNCHANGED <<row, hours, target, ent>>
    BY <1>6 DEF SelectRow, GoTo
  <2>2. \A s \in Request :
          /\ Quiet(ent[s])'
          /\ (pc[s] # "idle" => ent[s].status # "NONE")'
          /\ (pc[s] = "idle" <=> target[s] = NoMerchant)'
          /\ (pc[s] = "update" => (base[s] = Absent <=> row[target[s]] = Absent))'
    BY <2>1 DEF TypeOK, Rows, Quiet
  <2> QED BY <2>1, <2>2 DEF Rows, Quiet
<1>7. ASSUME NEW r \in Request, UpdateRow(r) PROVE Rows'
  <2>1. PICK m \in Merchant, e \in Row :
          /\ m = target[r] /\ row' = [row EXCEPT ![m] = e]
          /\ Quiet(e) /\ e.status # "NONE"
    BY <1>7, UpdateRowIs
  <2>2. /\ pc[r] = "update" /\ pc' = [pc EXCEPT ![r] = "selectItems"]
        /\ UNCHANGED <<hours, target, ent, base>>
    BY <1>7 DEF UpdateRow, GoTo
  <2>3. e # Absent BY <2>1, AbsentIs
  <2>4. /\ row'[m] = e /\ \A d \in Merchant : d # m => row'[d] = row[d]
    BY <2>1 DEF TypeOK
  <2>5. \A s \in Request : s # r /\ target[s] = m /\ pc[s] = "update" => base[s] # Absent
    BY <2>1 DEF Rows
  <2>6. \A s \in Request :
          pc'[s] = "update" => (base[s] = Absent <=> row'[target[s]] = Absent)
    BY <2>1, <2>2, <2>3, <2>4, <2>5 DEF TypeOK, Rows
  <2>7. \A s \in Request : (pc'[s] = "idle" <=> pc[s] = "idle") BY <2>2 DEF TypeOK
  <2>8. \A d \in Merchant : (Quiet(row[d]) /\ (row[d].status = "NONE" => row[d] = Absent))'
    BY <2>1, <2>4 DEF Rows, Quiet
  <2>9. \A d \in Merchant : row'[d] = Absent => row[d] = Absent
    BY <2>3, <2>4
  <2> QED BY <2>2, <2>6, <2>7, <2>8, <2>9 DEF Rows, Quiet
<1>8. ASSUME NEW r \in Request, SelectItems(r) PROVE Rows'
  BY <1>8 DEF TypeOK, Rows, Quiet, SelectItems, GoTo
<1>9. ASSUME NEW r \in Request, UpdateItems(r) PROVE Rows'
  BY <1>9 DEF TypeOK, Rows, Quiet, UpdateItems, GoTo
<1>10. ASSUME NEW r \in Request, SaveHours(r) PROVE Rows'
  <2>1. hours' = hours BY <1>10 DEF SaveHours, Storable
  <2> QED BY <1>10, <2>1, FinishRows DEF SaveHours
<1>11. ASSUME NEW r \in Request, Abort(r) PROVE Rows'
  BY <1>11, FinishRows DEF Abort
<1>12. CASE UNCHANGED vars BY <1>12 DEF vars, Rows, Quiet
<1> QED BY <1>1, <1>2, <1>3, <1>4, <1>5, <1>6, <1>7, <1>8, <1>9, <1>10, <1>11,
   <1>12 DEF Next

-----------------------------------------------------------------------------
(* Owned.                                                                  *)

Adds(r, i) == command[r].op = "addItem" /\ command[r].item = i

(* Whatever a handler has on its menu belongs to its restaurant, or is the *)
(* new item it adds, which nobody else does and nothing has stored.        *)
Owned ==
  /\ \A i \in Item : item[i].merchant = NoMerchant => item[i] = NotListed
  /\ \A r \in Request : pc[r] \in {"idle", "menu"} => menu[r] = EmptyMenu
  /\ \A r \in Request, i \in Item : menu[r][i] # NotListed =>
       /\ menu[r][i].merchant = target[r]
       /\ item[i].merchant = target[r] \/ (item[i] = NotListed /\ Adds(r, i))
  /\ \A r \in Request, i \in Item :
       Adds(r, i) /\ pc[r] # "saveHours" => item[i] = NotListed
  /\ \A r, s \in Request, i \in Item : Adds(r, i) /\ Adds(s, i) => r = s

(* An item that is not listed is on no restaurant's menu.                  *)
LEMMA NotListedIs == NotListed.merchant = NoMerchant
BY DEF NotListed

(* No item is on the empty menu.                                           *)
LEMMA EmptyMenuIs == \A i \in Item : EmptyMenu[i] = NotListed
BY DEF EmptyMenu

(* What a command makes of the menu of a restaurant is of that restaurant. *)
LEMMA MenuAfterOwned ==
  ASSUME TypeOK, NEW c \in Command, NEW m \in Merchant, NEW i \in Item,
         ~Refused(c, Absent, MenuOf(m)), MenuAfter(c, m, MenuOf(m))[i] # NotListed
  PROVE  /\ MenuAfter(c, m, MenuOf(m))[i].merchant = m
         /\ item[i].merchant = m \/ (c.op = "addItem" /\ c.item = i)
<1> DEFINE items == MenuOf(m)
           after == MenuAfter(c, m, items)
<1>1. /\ items \in [Item -> ItemRow]
      /\ \A j \in Item : items[j] # NotListed => items[j] = item[j] /\ item[j].merchant = m
  BY MenuTyped DEF MenuOf
<1>2. c.op \in {"updateItem", "toggleItem", "removeItem"} => items[c.item] # NotListed
  BY DEF Refused
<1> HIDE DEF items
<1>3. CASE c.op = "addItem"
  <2>1. after = [items EXCEPT ![c.item] = NewItem(m, c.value)] BY <1>3 DEF MenuAfter
  <2>2. NewItem(m, c.value).merchant = m BY DEF NewItem
  <2> QED BY <1>1, <1>3, <2>1, <2>2 DEF items
<1>4. CASE c.op = "updateItem"
  <2>1. after = [items EXCEPT ![c.item] = Repriced(items[c.item], c.value)]
    BY <1>4 DEF MenuAfter
  <2>2. \A x \in ItemRow : Repriced(x, c.value).merchant = x.merchant
    BY DEF Repriced, ItemRow
  <2>3. c.item \in Item BY <1>4, CommandFields
  <2> QED BY <1>1, <1>2, <1>4, <2>1, <2>2, <2>3 DEF items
<1>5. CASE c.op = "toggleItem"
  <2>1. PICK a \in BOOLEAN : a = ~items[c.item].available OBVIOUS
  <2>2. after = [items EXCEPT ![c.item] = [items[c.item] EXCEPT !.available = a]]
    BY <1>5, <2>1, Zenon DEF MenuAfter
  <2>3. c.item \in Item /\ items[c.item] \in ItemRow BY <1>1, <1>5, CommandFields
  <2>4. [items[c.item] EXCEPT !.available = a].merchant = items[c.item].merchant
    BY <2>3 DEF ItemRow
  <2>5. after[i].merchant = items[i].merchant
    BY <1>1, <2>2, <2>3, <2>4 DEF ItemRow
  <2>6. i # c.item => after[i] = items[i] BY <1>1, <2>2, <2>3
  <2>7. items[i] # NotListed BY <1>2, <1>5, <2>6 DEF items
  <2> QED BY <1>1, <2>5, <2>7 DEF items
<1>6. CASE c.op = "removeItem"
  <2>1. after = [items EXCEPT ![c.item] = NotListed] BY <1>6 DEF MenuAfter
  <2>2. c.item \in Item BY <1>6, CommandFields
  <2> QED BY <1>1, <1>6, <2>1, <2>2 DEF items
<1>7. CASE c.op \notin {"addItem", "updateItem", "toggleItem", "removeItem"}
  <2>1. after = items BY <1>7 DEF MenuAfter
  <2> QED BY <1>1, <2>1 DEF items
<1> QED BY <1>3, <1>4, <1>5, <1>6, <1>7

(* No item is listed at first.                                             *)
LEMMA InitOwned == Init => Owned
<1> SUFFICES ASSUME Init PROVE Owned OBVIOUS
<1>1. /\ item = EmptyMenu /\ \A r \in Request : menu[r] = EmptyMenu /\ command[r] = NoCommand
  BY DEF Init
<1>2. \A r \in Request, i \in Item : ~Adds(r, i) BY <1>1 DEF Adds, NoCommand
<1> QED BY <1>1, <1>2, EmptyMenuIs DEF Owned

(* The start of a request keeps every item, in the table and in memory, on *)
(* its own restaurant's menu.                                              *)
LEMMA StartOwned ==
  ASSUME TypeOK, Owned, NEW r \in Request, NEW m \in Merchant, NEW c \in Command, NEW e,
         NEW next \in {"menu", "select"}, Start(r, m, c, e, next), Unused(c)
  PROVE  Owned'
<1>1. /\ pc[r] = "idle" /\ pc' = [pc EXCEPT ![r] = next]
      /\ target' = [target EXCEPT ![r] = m] /\ command' = [command EXCEPT ![r] = c]
      /\ UNCHANGED <<item, menu>>
  BY DEF Start, GoTo
<1>2. menu[r] = EmptyMenu BY <1>1 DEF Owned
<1>3. \A s \in Request, i \in Item : s # r => (Adds(s, i)' <=> Adds(s, i))
  BY <1>1 DEF TypeOK, Adds
<1>4. \A i \in Item : Adds(r, i)' => item[i] = NotListed /\ \A s \in Request : s # r => ~Adds(s, i)
  BY <1>1 DEF TypeOK, Adds, Unused
<1>5. \A s \in Request, i \in Item : menu'[s][i] # NotListed => s # r
  BY <1>1, <1>2, EmptyMenuIs
<1>6. \A s \in Request, i \in Item : menu'[s][i] # NotListed =>
        /\ menu'[s][i].merchant = target'[s]
        /\ item'[i].merchant = target'[s] \/ (item'[i] = NotListed /\ Adds(s, i)')
  BY <1>1, <1>3, <1>5 DEF TypeOK, Owned
<1>7. \A s \in Request, i \in Item :
        Adds(s, i)' /\ pc'[s] # "saveHours" => item'[i] = NotListed
  BY <1>1, <1>3, <1>4 DEF TypeOK, Owned
<1>8. \A q, s \in Request, i \in Item : Adds(q, i)' /\ Adds(s, i)' => q = s
  BY <1>3, <1>4 DEF Owned
<1>9. \A s \in Request : pc'[s] \in {"idle", "menu"} => menu'[s] = EmptyMenu
  BY <1>1, <1>2 DEF TypeOK, Owned
<1> QED BY <1>1, <1>6, <1>7, <1>8, <1>9 DEF Owned

(* So does its end.                                                        *)
LEMMA FinishOwned ==
  ASSUME TypeOK, Owned, NEW r \in Request, Finish(r), UNCHANGED item
  PROVE  Owned'
<1>1. /\ pc' = [pc EXCEPT ![r] = "idle"] /\ target' = [target EXCEPT ![r] = NoMerchant]
      /\ command' = [command EXCEPT ![r] = NoCommand]
      /\ menu' = [menu EXCEPT ![r] = EmptyMenu]
  BY DEF Finish, GoTo
<1>2. \A i \in Item : ~Adds(r, i)' BY <1>1 DEF TypeOK, Adds, NoCommand
<1>3. \A s \in Request, i \in Item : s # r => (Adds(s, i)' <=> Adds(s, i))
  BY <1>1 DEF TypeOK, Adds
<1>4. \A s \in Request, i \in Item : menu'[s][i] # NotListed => s # r
  BY <1>1, EmptyMenuIs DEF TypeOK
<1>5. \A s \in Request, i \in Item : menu'[s][i] # NotListed =>
        /\ menu'[s][i].merchant = target'[s]
        /\ item'[i].merchant = target'[s] \/ (item'[i] = NotListed /\ Adds(s, i)')
  BY <1>1, <1>3, <1>4 DEF TypeOK, Owned
<1>6. \A s \in Request, i \in Item :
        Adds(s, i)' /\ pc'[s] # "saveHours" => item'[i] = NotListed
  BY <1>1, <1>2, <1>3 DEF TypeOK, Owned
<1>7. \A q, s \in Request, i \in Item : Adds(q, i)' /\ Adds(s, i)' => q = s
  BY <1>2, <1>3 DEF Owned
<1>8. \A s \in Request : pc'[s] \in {"idle", "menu"} => menu'[s] = EmptyMenu
  BY <1>1 DEF TypeOK, Owned
<1> QED BY <1>5, <1>6, <1>7, <1>8 DEF Owned

(* A step of the save that leaves the items and the menus alone.           *)
LEMMA OtherOwned ==
  ASSUME TypeOK, Owned, UNCHANGED <<item, target, command, menu>>,
         \A s \in Request : (pc'[s] \in {"idle", "menu"} => pc[s] \in {"idle", "menu"})
                            /\ (pc[s] = "saveHours" => pc'[s] = "saveHours")
  PROVE  Owned'
BY DEF Owned, Adds

(* What a save of the menu does to the items.                              *)
LEMMA SavedMenuIs ==
  ASSUME TypeOK, Rows, Owned, NEW r \in Request, pc[r] = "updateItems", NEW i \in Item
  PROVE  /\ SavedMenu(r)[i] = item[i]
            \/ /\ menu[r][i] # NotListed /\ SavedMenu(r)[i].merchant = target[r]
               /\ item[i].merchant = target[r] \/ (item[i] = NotListed /\ Adds(r, i))
         /\ menu[r][i] = NotListed => SavedMenu(r)[i] = item[i]
         /\ target[r] \in Merchant
<1>1. target[r] \in Merchant BY DEF TypeOK
<1>2. CASE menu[r][i] = NotListed BY <1>1, <1>2 DEF SavedMenu
<1>3. CASE menu[r][i] # NotListed
  <2>1. /\ menu[r][i].merchant = target[r]
        /\ item[i].merchant = target[r] \/ (item[i] = NotListed /\ Adds(r, i))
    BY <1>3 DEF Owned
  <2>2. MergedItem(menu[r][i], itemBase[r][i], item[i]).merchant = menu[r][i].merchant
    BY DEF MergedItem
  <2> QED BY <1>1, <1>3, <2>1, <2>2 DEF SavedMenu
<1> QED BY <1>2, <1>3

(* So does every statement of the service.                                 *)
LEMMA StepOwned == TypeOK /\ Rows /\ Owned /\ [Next]_vars => Owned'
<1> SUFFICES ASSUME TypeOK, Rows, Owned, [Next]_vars PROVE Owned' OBVIOUS
<1>1. ASSUME NEW m \in Merchant, DeleteMerchant(m) PROVE Owned'
  BY <1>1, OtherOwned DEF DeleteMerchant, memory
<1>2. ASSUME NEW r \in Request, NEW m \in Merchant, Register(r, m) PROVE Owned'
  <2>1. Unused(NoCommand) BY DEF Unused, NoCommand
  <2> QED BY <1>2, <2>1, StartOwned, ConstantsTyped DEF Register
<1>3. ASSUME NEW r \in Request, NEW m \in Merchant, NEW c \in Command, FindMerchant(r, m, c)
      PROVE  Owned'
  BY <1>3, StartOwned DEF FindMerchant
<1>4. ASSUME NEW r \in Request, LoadMenu(r) PROVE Owned'
  <2>1. PICK m \in Merchant, c \in Command : m = target[r] /\ c = command[r]
    BY <1>4 DEF LoadMenu, TypeOK
  <2> DEFINE after == MenuAfter(c, m, MenuOf(m))
  <2>2. /\ pc[r] = "menu" /\ pc' = [pc EXCEPT ![r] = "select"]
        /\ menu' = [menu EXCEPT ![r] = after] /\ UNCHANGED <<item, target, command>>
        /\ ~Refused(c, Absent, MenuOf(m))
    BY <1>4, <2>1 DEF LoadMenu, GoTo, Refused, Absent
  <2>3. \A i \in Item : after[i] # NotListed =>
          /\ after[i].merchant = m
          /\ item[i].merchant = m \/ (item[i] = NotListed /\ Adds(r, i))
    <3> SUFFICES ASSUME NEW i \in Item, after[i] # NotListed
                 PROVE  /\ after[i].merchant = m
                        /\ item[i].merchant = m \/ (item[i] = NotListed /\ Adds(r, i))
      OBVIOUS
    <3>1. /\ after[i].merchant = m
          /\ item[i].merchant = m \/ (c.op = "addItem" /\ c.item = i)
      BY <2>2, MenuAfterOwned
    <3>2. (c.op = "addItem" /\ c.item = i) => Adds(r, i) BY <2>1 DEF Adds
    <3>3. Adds(r, i) => item[i] = NotListed BY <2>2 DEF Owned
    <3> QED BY <3>1, <3>2, <3>3
  <2> HIDE DEF after
  <2>4. \A s \in Request, i \in Item : Adds(s, i)' <=> Adds(s, i) BY <2>2 DEF Adds
  <2>5. \A s \in Request, i \in Item : menu'[s][i] # NotListed =>
          /\ menu'[s][i].merchant = target'[s]
          /\ item'[i].merchant = target'[s] \/ (item'[i] = NotListed /\ Adds(s, i)')
    BY <2>1, <2>2, <2>3, <2>4 DEF TypeOK, Owned
  <2>6. \A s \in Request : pc'[s] \in {"idle", "menu"} => menu'[s] = EmptyMenu
    BY <2>2 DEF TypeOK, Owned
  <2>7. \A s \in Request : pc'[s] # "saveHours" => pc[s] # "saveHours"
    BY <2>2 DEF TypeOK
  <2> QED BY <2>2, <2>4, <2>5, <2>6, <2>7 DEF Owned
<1>5. ASSUME NEW r \in Request, Refuse(r) PROVE Owned'
  BY <1>5, FinishOwned DEF Refuse
<1>6. ASSUME NEW r \in Request, SelectRow(r) PROVE Owned'
  BY <1>6, OtherOwned DEF SelectRow, GoTo, TypeOK
<1>7. ASSUME NEW r \in Request, UpdateRow(r) PROVE Owned'
  BY <1>7, OtherOwned DEF UpdateRow, GoTo, TypeOK
<1>8. ASSUME NEW r \in Request, SelectItems(r) PROVE Owned'
  BY <1>8, OtherOwned DEF SelectItems, GoTo, TypeOK
<1>9. ASSUME NEW r \in Request, UpdateItems(r) PROVE Owned'
  <2>1. /\ pc[r] = "updateItems" /\ pc' = [pc EXCEPT ![r] = "saveHours"]
        /\ item' = SavedMenu(r) /\ UNCHANGED <<target, command, menu>>
    BY <1>9 DEF UpdateItems, GoTo
  <2>2. \A i \in Item :
          \/ item'[i] = item[i]
          \/ /\ menu[r][i] # NotListed /\ item'[i].merchant = target[r]
             /\ item[i].merchant = target[r] \/ (item[i] = NotListed /\ Adds(r, i))
    BY <2>1, SavedMenuIs
  <2>3. target[r] \in Merchant /\ target[r] # NoMerchant
    BY <2>1, NullAssumption DEF TypeOK
  <2>4. \A s \in Request, i \in Item : Adds(s, i)' <=> Adds(s, i) BY <2>1 DEF Adds
  <2>5. ASSUME NEW s \in Request, NEW i \in Item, menu'[s][i] # NotListed
        PROVE  /\ menu'[s][i].merchant = target'[s]
               /\ item'[i].merchant = target'[s] \/ (item'[i] = NotListed /\ Adds(s, i)')
    <3>1. /\ menu[s][i].merchant = target[s]
          /\ item[i].merchant = target[s] \/ (item[i] = NotListed /\ Adds(s, i))
      BY <2>1, <2>5 DEF Owned
    <3>2. CASE item'[i] = item[i] BY <2>1, <2>4, <3>1, <3>2
    <3>3. CASE item'[i] # item[i]
      <4>1. /\ item'[i].merchant = target[r]
            /\ item[i].merchant = target[r] \/ (item[i] = NotListed /\ Adds(r, i))
        BY <2>2, <3>3
      <4>2. pc[s] # "idle" BY <2>1, <2>5, EmptyMenuIs DEF Owned
      <4>3. target[s] # NoMerchant BY <4>2 DEF Rows
      <4>4. target[s] = target[r]
        BY <2>3, <3>1, <4>1, <4>3, NotListedIs DEF Owned
      <4> QED BY <2>1, <3>1, <4>1, <4>4
    <3> QED BY <3>2, <3>3
  <2>6. ASSUME NEW s \in Request, NEW i \in Item, Adds(s, i)', pc'[s] # "saveHours"
        PROVE  item'[i] = NotListed
    <3>1. s # r /\ pc[s] # "saveHours" BY <2>1, <2>6 DEF TypeOK
    <3>2. Adds(s, i) /\ item[i] = NotListed BY <2>4, <2>6, <3>1 DEF Owned
    <3>3. ~Adds(r, i) BY <3>1, <3>2 DEF Owned
    <3> QED BY <2>2, <2>3, <3>2, <3>3, NotListedIs
  <2>7. \A i \in Item : item'[i].merchant = NoMerchant => item'[i] = NotListed
    BY <2>2, <2>3 DEF Owned
  <2>8. \A s \in Request : pc'[s] \in {"idle", "menu"} => menu'[s] = EmptyMenu
    BY <2>1 DEF TypeOK, Owned
  <2> QED BY <2>4, <2>5, <2>6, <2>7, <2>8 DEF Owned
<1>10. ASSUME NEW r \in Request, SaveHours(r) PROVE Owned'
  BY <1>10, FinishOwned DEF SaveHours
<1>11. ASSUME NEW r \in Request, Abort(r) PROVE Owned'
  BY <1>11, FinishOwned DEF Abort
<1>12. CASE UNCHANGED vars BY <1>12 DEF vars, Owned, Adds
<1> QED BY <1>1, <1>2, <1>3, <1>4, <1>5, <1>6, <1>7, <1>8, <1>9, <1>10, <1>11,
   <1>12 DEF Next

-----------------------------------------------------------------------------
(* Coherent.                                                               *)

(* What a handler at query p of command c knows of restaurant m, which is  *)
(* the row w and the menu items n; e, x, b and y are its memory.           *)
Agrees(p, m, c, e, x, b, y, w, n, items) ==
  /\ p \in {"menu", "select", "update"} => ~w.deleted
  /\ p = "menu" => w = e /\ w # Absent
  /\ p \in {"select", "update"} =>
       \/ w = Absent /\ e = NewMerchant /\ x = EmptyMenu
       \/ w # Absent /\ ~Refused(c, w, n) /\ e = AfterCommand(c, w)
  /\ p = "update" => b = w
  /\ p \in {"select", "update", "selectItems", "updateItems"} =>
       \/ x = EmptyMenu /\ c = NoCommand
       \/ ~Refused(c, Absent, n) /\ x = MenuAfter(c, m, n)
  /\ p \in {"selectItems", "updateItems", "saveHours"} => w # Absent
  /\ p = "updateItems" => \A i \in Item : x[i] # NotListed => y[i] = items[i]

Knows(r) == Agrees(pc[r], target[r], command[r], ent[r], menu[r], base[r], itemBase[r],
                   row[target[r]], MenuOf(target[r]), item)

(* Every handler on a restaurant without overlaps knows it; there is one.  *)
AllKnow == \A r \in Request : pc[r] # "idle" /\ target[r] \notin overlapped => Knows(r)

AllAlone ==
  \A m \in Merchant : m \notin overlapped =>
    \A r, s \in Request : target[r] = m /\ target[s] = m => r = s

(* What the run checks of the store follows from the four parts.           *)
LEMMA CoherentIs == TypeOK /\ Rows /\ AllKnow /\ AllAlone => Coherent
<1> SUFFICES ASSUME TypeOK, Rows, AllKnow, AllAlone PROVE Coherent OBVIOUS
<1>1. ASSUME NEW r \in Request, pc[r] # "idle", target[r] \notin overlapped
      PROVE  HandlerCoherent(r)
  <2>1. target[r] \in Merchant BY <1>1 DEF TypeOK
  <2>2. Knows(r) BY <1>1 DEF AllKnow
  <2>3. \A s \in Request \ {r} : target[s] # target[r] BY <1>1, <2>1 DEF AllAlone
  <2> QED BY <2>2, <2>3 DEF Knows, Agrees, HandlerCoherent
<1>2. \A r \in Request : pc[r] = "idle" => target[r] = NoMerchant BY DEF Rows
<1>3. \A m \in Merchant : row[m].orders = 0 /\ row[m].capacityStatus = "NORMAL"
  BY DEF Rows, Quiet
<1> QED BY <1>1, <1>2, <1>3 DEF Coherent

(* A request that starts where another one works marks the restaurant as   *)
(* overlapped; otherwise it is alone there.                                *)
LEMMA StartAlone ==
  ASSUME TypeOK, Rows, AllAlone, NEW r \in Request, NEW m \in Merchant, NEW c, NEW e,
         NEW next,
         Start(r, m, c, e, next)
  PROVE  AllAlone'
<1>1. target' = [target EXCEPT ![r] = m] /\ overlapped' = Disturb(m) BY DEF Start
<1>2. m \notin overlapped' => \A s \in Request : target[s] # m BY <1>1 DEF Disturb, Busy
<1>3. overlapped \subseteq overlapped' BY <1>1 DEF Disturb
<1> QED BY <1>1, <1>2, <1>3 DEF AllAlone, TypeOK

(* Every statement leaves a restaurant that is not overlapped to one       *)
(* request.                                                                *)
LEMMA StepAlone == TypeOK /\ Rows /\ AllAlone /\ [Next]_vars => AllAlone'
<1> SUFFICES ASSUME TypeOK, Rows, AllAlone, [Next]_vars PROVE AllAlone' OBVIOUS
<1>1. ASSUME NEW m \in Merchant, DeleteMerchant(m) PROVE AllAlone'
  BY <1>1 DEF AllAlone, DeleteMerchant, Disturb, memory
<1>2. ASSUME NEW r \in Request, NEW m \in Merchant, Register(r, m) PROVE AllAlone'
  BY <1>2, StartAlone DEF Register
<1>3. ASSUME NEW r \in Request, NEW m \in Merchant, NEW c \in Command, FindMerchant(r, m, c)
      PROVE  AllAlone'
  BY <1>3, StartAlone DEF FindMerchant
<1>4. ASSUME NEW r \in Request, Finish(r), UNCHANGED overlapped PROVE AllAlone'
  BY <1>4, NullAssumption DEF AllAlone, Finish, TypeOK
<1>5. ASSUME UNCHANGED <<target, overlapped>> PROVE AllAlone'
  BY <1>5 DEF AllAlone
<1> QED BY <1>1, <1>2, <1>3, <1>4, <1>5
      DEF Next, LoadMenu, Refuse, SelectRow, UpdateRow, SelectItems, UpdateItems,
          SaveHours, Abort, vars

(* A handler keeps what it knows while others work on other restaurants.   *)
LEMMA KnowsKept ==
  ASSUME TypeOK, NEW r \in Request, Knows(r),
         pc'[r] = pc[r], target'[r] = target[r], command'[r] = command[r],
         ent'[r] = ent[r], menu'[r] = menu[r], base'[r] = base[r],
         itemBase'[r] = itemBase[r], row'[target[r]] = row[target[r]],
         \A i \in Item : item'[i] = item[i]
           \/ /\ menu[r][i] = NotListed
              /\ item[i].merchant # target[r] /\ item'[i].merchant # target[r]
  PROVE  Knows(r)'
<1>1. MenuOf(target[r])' = MenuOf(target[r]) BY DEF MenuOf
<1>2. \A i \in Item : menu[r][i] # NotListed => item'[i] = item[i] OBVIOUS
<1> QED BY <1>1, <1>2 DEF Knows, Agrees

SameMemory(s) ==
  /\ pc'[s] = pc[s] /\ target'[s] = target[s] /\ command'[s] = command[s]
  /\ ent'[s] = ent[s] /\ menu'[s] = menu[s] /\ base'[s] = base[s]
  /\ itemBase'[s] = itemBase[s]

(* ... so that while the items stay only the handler that moves has to be  *)
(* looked at.                                                              *)
LEMMA OthersKnow ==
  ASSUME TypeOK, AllKnow, AllAlone, NEW r \in Request,
         \A s \in Request : s # r => SameMemory(s),
         item' = item, overlapped \subseteq overlapped',
         row' = row \/ (pc[r] # "idle" /\ \A d \in Merchant : d # target[r] => row'[d] = row[d]),
         pc'[r] # "idle" /\ target'[r] \notin overlapped' => Knows(r)'
  PROVE  AllKnow'
<1> SUFFICES ASSUME NEW s \in Request, pc'[s] # "idle", target'[s] \notin overlapped'
             PROVE  Knows(s)'
  BY DEF AllKnow
<1>1. CASE s = r BY <1>1
<1>2. CASE s # r
  <2>1. SameMemory(s) BY <1>2
  <2>2. pc[s] # "idle" /\ target[s] \notin overlapped BY <2>1 DEF SameMemory
  <2>3. target[s] \in Merchant /\ Knows(s) BY <2>2 DEF TypeOK, AllKnow
  <2>4. target[s] # target[r] BY <1>2, <2>2, <2>3 DEF AllAlone
  <2>5. row'[target[s]] = row[target[s]] BY <2>3, <2>4
  <2> QED BY <2>1, <2>3, <2>5, KnowsKept DEF SameMemory
<1> QED BY <1>1, <1>2

(* The end of a request leaves what the other requests know of their       *)
(* restaurants true.                                                       *)
LEMMA FinishKnows ==
  ASSUME TypeOK, AllKnow, AllAlone, NEW r \in Request, Finish(r),
         UNCHANGED <<row, item, overlapped>>
  PROVE  AllKnow'
<1>1. \A s \in Request : s # r => SameMemory(s) BY DEF Finish, GoTo, SameMemory, TypeOK
<1>2. pc'[r] = "idle" BY DEF Finish, GoTo, TypeOK
<1> QED BY <1>1, <1>2, OthersKnow

(* A request that just loaded a restaurant, or is about to insert one,     *)
(* knows what the tables hold.                                             *)
LEMMA StartKnows ==
  ASSUME TypeOK, Owned, AllKnow, AllAlone, NEW r \in Request, NEW m \in Merchant, NEW c,
         NEW e,
         NEW next, Start(r, m, c, e, next),
         \/ next = "menu" /\ row[m] = e /\ row[m] # Absent /\ ~row[m].deleted
         \/ next = "select" /\ row[m] = Absent /\ e = NewMerchant /\ c = NoCommand
  PROVE  AllKnow'
<1>1. /\ pc[r] = "idle" /\ pc' = [pc EXCEPT ![r] = next]
      /\ target' = [target EXCEPT ![r] = m] /\ command' = [command EXCEPT ![r] = c]
      /\ ent' = [ent EXCEPT ![r] = e] /\ UNCHANGED <<row, item, menu, base, itemBase>>
      /\ overlapped \subseteq overlapped'
  BY DEF Start, GoTo, Disturb
<1>2. \A s \in Request : s # r => SameMemory(s) BY <1>1 DEF SameMemory, TypeOK
<1>3. menu'[r] = EmptyMenu BY <1>1 DEF Owned
<1>4. pc'[r] = next /\ target'[r] = m /\ command'[r] = c /\ ent'[r] = e /\ row'[m] = row[m]
  BY <1>1 DEF TypeOK
<1>5. Knows(r)' BY <1>3, <1>4, AbsentIs DEF Knows, Agrees
<1> QED BY <1>1, <1>2, <1>5, OthersKnow

(* A save of an undisturbed restaurant writes what the command made of it. *)
LEMMA UpdateRowAlone ==
  ASSUME TypeOK, Rows, AllKnow, NEW r \in Request, UpdateRow(r),
         target[r] \notin overlapped
  PROVE  \E m \in Merchant :
           /\ m = target[r] /\ row' = [row EXCEPT ![m] = ent[r]] /\ ~row[m].deleted
           /\ \/ row[m] = Absent /\ ent[r] = NewMerchant
              \/ /\ row[m] # Absent /\ command[r] \in Command
                 /\ ~Refused(command[r], row[m], MenuOf(m))
                 /\ ent[r] = AfterCommand(command[r], row[m])
<1>1. pc[r] = "update" BY DEF UpdateRow
<1>2. PICK m \in Merchant : m = target[r] BY <1>1 DEF TypeOK
<1>3. Knows(r) BY <1>1 DEF AllKnow
<1>4. /\ base[r] = row[m] /\ command[r] \in Command /\ ~row[m].deleted
      /\ \/ row[m] = Absent /\ ent[r] = NewMerchant
         \/ /\ row[m] # Absent /\ ~Refused(command[r], row[m], MenuOf(m))
            /\ ent[r] = AfterCommand(command[r], row[m])
  BY <1>1, <1>2, <1>3 DEF Knows, Agrees, TypeOK
<1>5. ent[r] \in Row /\ row[m] \in Row /\ base[r] \in Row BY <1>2 DEF TypeOK
<1>6. CASE base[r] = Absent
  BY <1>1, <1>2, <1>4, <1>6 DEF UpdateRow
<1>7. CASE base[r] # Absent
  <2>1. ent[r].deleted = row[m].deleted BY <1>4, <1>5, <1>7, AfterCommandTyped
  <2>2. Merged(ent[r], row[m], row[m]) = ent[r] BY <1>5, <2>1 DEF Merged, Row
  <2>3. row' = [row EXCEPT ![m] = ent[r]] BY <1>2, <1>4, <1>7, <2>2 DEF UpdateRow
  <2> QED BY <1>2, <1>4, <2>3
<1> QED BY <1>6, <1>7

(* Every statement leaves what the requests know of their restaurants true.*)
LEMMA StepKnows == TypeOK /\ Rows /\ Owned /\ AllKnow /\ AllAlone /\ [Next]_vars => AllKnow'
<1> SUFFICES ASSUME TypeOK, Rows, Owned, AllKnow, AllAlone, [Next]_vars PROVE AllKnow'
  OBVIOUS
<1>1. ASSUME NEW m \in Merchant, DeleteMerchant(m) PROVE AllKnow'
  <2>1. /\ UNCHANGED <<item, pc, target, command, ent, menu, base, itemBase>>
        /\ \A d \in Merchant : d # m => row'[d] = row[d]
        /\ overlapped' = Disturb(m)
    BY <1>1 DEF DeleteMerchant, memory, TypeOK
  <2> SUFFICES ASSUME NEW s \in Request, pc'[s] # "idle", target'[s] \notin overlapped'
               PROVE  Knows(s)'
    BY DEF AllKnow
  <2>2. target[s] # m /\ target[s] \notin overlapped BY <2>1 DEF Disturb, Busy
  <2>3. target[s] \in Merchant /\ Knows(s) BY <2>1, <2>2 DEF TypeOK, AllKnow
  <2> QED BY <2>1, <2>2, <2>3, KnowsKept
<1>2. ASSUME NEW r \in Request, NEW m \in Merchant, Register(r, m) PROVE AllKnow'
  BY <1>2, StartKnows DEF Register
<1>3. ASSUME NEW r \in Request, NEW m \in Merchant, NEW c \in Command, FindMerchant(r, m, c)
      PROVE  AllKnow'
  BY <1>3, StartKnows DEF FindMerchant
<1>4. ASSUME NEW r \in Request, LoadMenu(r) PROVE AllKnow'
  <2>1. PICK m \in Merchant, c \in Command : m = target[r] /\ c = command[r]
    BY <1>4 DEF LoadMenu, TypeOK
  <2>2. /\ pc[r] = "menu" /\ pc' = [pc EXCEPT ![r] = "select"]
        /\ ent' = [ent EXCEPT ![r] = AfterCommand(c, ent[r])]
        /\ menu' = [menu EXCEPT ![r] = MenuAfter(c, m, MenuOf(m))]
        /\ UNCHANGED <<row, item, target, command, base, itemBase, overlapped>>
        /\ ~Refused(c, ent[r], MenuOf(m))
    BY <1>4, <2>1 DEF LoadMenu, GoTo
  <2>3. \A s \in Request : s # r => SameMemory(s) BY <2>2 DEF SameMemory, TypeOK
  <2>4. ASSUME target[r] \notin overlapped PROVE Knows(r)'
    <3>1. row[m] = ent[r] /\ row[m] # Absent /\ ~row[m].deleted
      BY <2>1, <2>2, <2>4 DEF AllKnow, Knows, Agrees
    <3>2. ~Refused(c, Absent, MenuOf(m)) BY <2>2 DEF Refused, Absent
    <3>3. MenuOf(m)' = MenuOf(m) BY <2>2 DEF MenuOf
    <3>4. /\ pc'[r] = "select" /\ target'[r] = m /\ command'[r] = c
          /\ ent'[r] = AfterCommand(c, row[m]) /\ menu'[r] = MenuAfter(c, m, MenuOf(m))
          /\ row'[m] = row[m]
      BY <2>1, <2>2, <3>1 DEF TypeOK
    <3> QED BY <2>2, <3>1, <3>2, <3>3, <3>4 DEF Knows, Agrees
  <2> QED BY <2>2, <2>3, <2>4, OthersKnow
<1>5. ASSUME NEW r \in Request, Refuse(r) PROVE AllKnow'
  BY <1>5, FinishKnows DEF Refuse
<1>6. ASSUME NEW r \in Request, SelectRow(r) PROVE AllKnow'
  <2>1. /\ pc[r] = "select" /\ pc' = [pc EXCEPT ![r] = "update"]
        /\ base' = [base EXCEPT ![r] = row[target[r]]]
        /\ UNCHANGED <<row, item, target, command, ent, menu, itemBase, overlapped>>
    BY <1>6 DEF SelectRow, GoTo
  <2>2. \A s \in Request : s # r => SameMemory(s) BY <2>1 DEF SameMemory, TypeOK
  <2>3. ASSUME target[r] \notin overlapped PROVE Knows(r)'
    <3>1. Knows(r) BY <2>1, <2>3 DEF AllKnow
    <3>2. MenuOf(target[r])' = MenuOf(target[r]) BY <2>1 DEF MenuOf
    <3>3. pc'[r] = "update" /\ base'[r] = row[target[r]] BY <2>1 DEF TypeOK
    <3> QED BY <2>1, <3>1, <3>2, <3>3 DEF Knows, Agrees
  <2> QED BY <2>1, <2>2, <2>3, OthersKnow
<1>7. ASSUME NEW r \in Request, UpdateRow(r) PROVE AllKnow'
  <2>1. PICK m \in Merchant, e \in Row :
          /\ m = target[r] /\ row' = [row EXCEPT ![m] = e] /\ e.status # "NONE"
    BY <1>7, UpdateRowIs
  <2>2. /\ pc[r] = "update" /\ pc' = [pc EXCEPT ![r] = "selectItems"]
        /\ UNCHANGED <<item, target, command, ent, menu, base, itemBase, overlapped>>
    BY <1>7 DEF UpdateRow, GoTo
  <2>3. \A s \in Request : s # r => SameMemory(s) BY <2>2 DEF SameMemory, TypeOK
  <2>4. /\ \A d \in Merchant : d # target[r] => row'[d] = row[d]
        /\ row'[m] # Absent
    BY <2>1, AbsentIs DEF TypeOK
  <2>5. ASSUME target[r] \notin overlapped PROVE Knows(r)'
    <3>1. Knows(r) BY <2>2, <2>5 DEF AllKnow
    <3>2. MenuOf(m)' = MenuOf(m) BY <2>2 DEF MenuOf
    <3>3. pc'[r] = "selectItems" BY <2>2 DEF TypeOK
    <3> QED BY <2>1, <2>2, <2>4, <3>1, <3>2, <3>3 DEF Knows, Agrees
  <2> QED BY <2>2, <2>3, <2>4, <2>5, OthersKnow
<1>8. ASSUME NEW r \in Request, SelectItems(r) PROVE AllKnow'
  <2>1. /\ pc[r] = "selectItems" /\ pc' = [pc EXCEPT ![r] = "updateItems"]
        /\ itemBase' = [itemBase EXCEPT
             ![r] = [i \in Item |-> IF menu[r][i] = NotListed THEN NotListed ELSE item[i]]]
        /\ UNCHANGED <<row, item, target, command, ent, menu, base, overlapped>>
    BY <1>8 DEF SelectItems, GoTo
  <2>2. \A s \in Request : s # r => SameMemory(s) BY <2>1 DEF SameMemory, TypeOK
  <2>3. ASSUME target[r] \notin overlapped PROVE Knows(r)'
    <3>1. Knows(r) BY <2>1, <2>3 DEF AllKnow
    <3>2. MenuOf(target[r])' = MenuOf(target[r]) BY <2>1 DEF MenuOf
    <3>3. /\ pc'[r] = "updateItems"
          /\ \A i \in Item : menu[r][i] # NotListed => itemBase'[r][i] = item[i]
      BY <2>1 DEF TypeOK
    <3> QED BY <2>1, <3>1, <3>2, <3>3 DEF Knows, Agrees
  <2> QED BY <2>1, <2>2, <2>3, OthersKnow
<1>9. ASSUME NEW r \in Request, UpdateItems(r) PROVE AllKnow'
  <2>1. /\ pc[r] = "updateItems" /\ pc' = [pc EXCEPT ![r] = "saveHours"]
        /\ item' = SavedMenu(r)
        /\ UNCHANGED <<row, target, command, ent, menu, base, itemBase, overlapped>>
    BY <1>9 DEF UpdateItems, GoTo
  <2>2. \A s \in Request : s # r => SameMemory(s) BY <2>1 DEF SameMemory, TypeOK
  <2> SUFFICES ASSUME NEW s \in Request, pc'[s] # "idle", target'[s] \notin overlapped'
               PROVE  Knows(s)'
    BY DEF AllKnow
  <2>3. CASE s = r
    <3>1. Knows(r) BY <2>1, <2>3 DEF AllKnow
    <3>2. pc'[r] = "saveHours" /\ row[target[r]] # Absent
      BY <2>1, <3>1 DEF TypeOK, Knows, Agrees
    <3> QED BY <2>1, <2>3, <3>2 DEF Knows, Agrees
  <2>4. CASE s # r
    <3>1. pc[s] # "idle" /\ target[s] \notin overlapped BY <2>1, <2>2, <2>4 DEF SameMemory
    <3>2. target[s] \in Merchant /\ Knows(s) BY <3>1 DEF TypeOK, AllKnow
    <3>3. target[s] # target[r] BY <2>4, <3>1, <3>2 DEF AllAlone
    <3>4. ASSUME NEW i \in Item, item'[i] # item[i]
          PROVE  menu[s][i] = NotListed /\ item[i].merchant # target[s]
                 /\ item'[i].merchant # target[s]
      <4>1. /\ item'[i].merchant = target[r]
            /\ item[i].merchant = target[r] \/ (item[i] = NotListed /\ Adds(r, i))
        BY <2>1, <3>4, SavedMenuIs
      <4>2. item[i].merchant # target[s]
        BY <3>2, <3>3, <4>1, NotListedIs, NullAssumption
      <4>3. menu[s][i] # NotListed => item[i] = NotListed /\ Adds(s, i)
        BY <4>2 DEF Owned
      <4>4. target[r] # NoMerchant BY <2>1 DEF Rows
      <4>5. ~(Adds(s, i) /\ Adds(r, i)) BY <2>4 DEF Owned
      <4> QED BY <3>3, <4>1, <4>2, <4>3, <4>4, <4>5, NotListedIs
    <3> QED BY <2>1, <2>2, <2>4, <3>2, <3>4, KnowsKept DEF SameMemory
  <2> QED BY <2>3, <2>4
<1>10. ASSUME NEW r \in Request, SaveHours(r) PROVE AllKnow'
  BY <1>10, FinishKnows DEF SaveHours
<1>11. ASSUME NEW r \in Request, Abort(r) PROVE AllKnow'
  BY <1>11, FinishKnows DEF Abort
<1>12. CASE UNCHANGED vars BY <1>12 DEF vars, AllKnow, Knows, MenuOf
<1> QED BY <1>1, <1>2, <1>3, <1>4, <1>5, <1>6, <1>7, <1>8, <1>9, <1>10, <1>11,
   <1>12 DEF Next

-----------------------------------------------------------------------------
(* Prices.                                                                 *)

(* What a command makes of each item.                                      *)
LEMMA MenuAfterIs ==
  ASSUME TypeOK, NEW c \in Command, NEW m \in Merchant, NEW i \in Item,
         ~Refused(c, Absent, MenuOf(m))
  PROVE  LET x == MenuOf(m)[i]
             y == MenuAfter(c, m, MenuOf(m))[i] IN
         /\ y = x \/ c.item = i
         /\ \/ y = x
            \/ y = NotListed
            \/ y.original = NoPrice
            \/ x # NotListed /\ y.original # y.price
            \/ x # NotListed /\ y.price = x.price /\ y.original = x.original
<1> DEFINE items == MenuOf(m)
           after == MenuAfter(c, m, items)
<1>1. items \in [Item -> ItemRow] /\ items[i] \in ItemRow BY MenuTyped
<1>2. c.op \in {"updateItem", "toggleItem", "removeItem"} => items[c.item] # NotListed
  BY DEF Refused
<1> HIDE DEF items
<1>3. CASE c.op = "addItem"
  <2>1. after = [items EXCEPT ![c.item] = NewItem(m, c.value)] BY <1>3 DEF MenuAfter
  <2>2. NewItem(m, c.value).original = NoPrice BY DEF NewItem
  <2> QED BY <1>1, <2>1, <2>2 DEF items
<1>4. CASE c.op = "updateItem"
  <2>1. after = [items EXCEPT ![c.item] = Repriced(items[c.item], c.value)]
    BY <1>4 DEF MenuAfter
  <2>2. \A x \in ItemRow :
          LET y == Repriced(x, c.value) IN y = x \/ y.original # y.price
    BY DEF Repriced, ItemRow
  <2> QED BY <1>1, <1>2, <1>4, <2>1, <2>2 DEF items
<1>5. CASE c.op = "toggleItem"
  <2>1. PICK a \in BOOLEAN : a = ~items[c.item].available OBVIOUS
  <2>2. after = [items EXCEPT ![c.item] = [items[c.item] EXCEPT !.available = a]]
    BY <1>5, <2>1, Zenon DEF MenuAfter
  <2>3. i # c.item => after[i] = items[i] BY <1>1, <2>2
  <2>4. i = c.item => after[i] = [items[i] EXCEPT !.available = a] BY <1>1, <2>2
  <2>5. /\ [items[i] EXCEPT !.available = a].price = items[i].price
        /\ [items[i] EXCEPT !.available = a].original = items[i].original
    BY <1>1 DEF ItemRow
  <2> QED BY <1>2, <1>5, <2>3, <2>4, <2>5 DEF items
<1>6. CASE c.op = "removeItem"
  <2>1. after = [items EXCEPT ![c.item] = NotListed] BY <1>6 DEF MenuAfter
  <2> QED BY <1>1, <2>1 DEF items
<1>7. CASE c.op \notin {"addItem", "updateItem", "toggleItem", "removeItem"}
  <2>1. after = items BY <1>7 DEF MenuAfter
  <2> QED BY <2>1 DEF items
<1> QED BY <1>3, <1>4, <1>5, <1>6, <1>7 DEF items

(* Saving an item over the one that was selected leaves the one in memory. *)
LEMMA MergedItemAlone ==
  ASSUME NEW x \in ItemRow, NEW b \in ItemRow
  PROVE  MergedItem(x, b, b) = x
BY DEF MergedItem, ItemRow

(* A handler alone on its restaurant saves its menu as it has it, and all  *)
(* but the item of its command as it is in the table.                      *)
LEMMA SavedMenuAlone ==
  ASSUME TypeOK, Owned, AllKnow, NEW r \in Request, UpdateItems(r),
         target[r] \notin overlapped, NEW i \in Item, menu[r][i] # NotListed
  PROVE  /\ item'[i] = menu[r][i]
         /\ menu[r][i] = item[i] \/ command[r].item = i
         /\ \/ menu[r][i] = item[i]
            \/ menu[r][i].original = NoPrice
            \/ menu[r][i].original # menu[r][i].price
            \/ /\ item[i] # NotListed /\ item[i].merchant = target[r]
               /\ menu[r][i].price = item[i].price
               /\ menu[r][i].original = item[i].original
<1>1. pc[r] = "updateItems" /\ item' = SavedMenu(r) BY DEF UpdateItems
<1>2. PICK m \in Merchant, c \in Command : m = target[r] /\ c = command[r]
  BY <1>1 DEF TypeOK
<1>3. Knows(r) BY <1>1 DEF AllKnow
<1>4. itemBase[r][i] = item[i] BY <1>1, <1>3 DEF Knows, Agrees
<1>5. ~Refused(c, Absent, MenuOf(m)) /\ menu[r] = MenuAfter(c, m, MenuOf(m))
  BY <1>1, <1>2, <1>3, EmptyMenuIs DEF Knows, Agrees
<1>6. item'[i] = menu[r][i]
  <2>1. menu[r][i] \in ItemRow /\ item[i] \in ItemRow BY DEF TypeOK
  <2>2. MergedItem(menu[r][i], item[i], item[i]) = menu[r][i] BY <2>1, MergedItemAlone
  <2> QED BY <1>1, <1>4, <2>2 DEF SavedMenu
<1>7. MenuOf(m)[i] # NotListed => MenuOf(m)[i] = item[i] /\ item[i].merchant = m
  BY DEF MenuOf
<1> DEFINE x == MenuOf(m)[i]
           y == MenuAfter(c, m, MenuOf(m))[i]
<1>8. /\ y = x \/ c.item = i
      /\ \/ y = x
         \/ y = NotListed
         \/ y.original = NoPrice
         \/ x # NotListed /\ y.original # y.price
         \/ x # NotListed /\ y.price = x.price /\ y.original = x.original
  BY <1>5, MenuAfterIs
<1>9. y = menu[r][i] BY <1>5
<1> HIDE DEF x, y
<1>10. x # NotListed => x = item[i] /\ item[i].merchant = m BY <1>7 DEF x
<1> QED BY <1>2, <1>6, <1>8, <1>9, <1>10

(* A step that keeps items and agreements keeps the prices.                *)
LEMMA SamePrices ==
  ASSUME MenuAsAgreed, StrikesAnotherPrice, UNCHANGED <<item, agreed>>,
         overlapped \subseteq overlapped'
  PROVE  MenuAsAgreed' /\ StrikesAnotherPrice'
BY DEF MenuAsAgreed, StrikesAnotherPrice

(* Every statement keeps the menu as it was agreed and the struck-through  *)
(* price apart from the price.                                             *)
LEMMA StepPrices ==
  /\ TypeOK /\ Rows /\ Owned /\ AllKnow /\ MenuAsAgreed /\ StrikesAnotherPrice
  /\ [Next]_vars
  => MenuAsAgreed' /\ StrikesAnotherPrice'
<1> SUFFICES ASSUME TypeOK, Rows, Owned, AllKnow, MenuAsAgreed, StrikesAnotherPrice,
                    [Next]_vars
             PROVE  MenuAsAgreed' /\ StrikesAnotherPrice'
  OBVIOUS
<1>1. ASSUME NEW r \in Request, UpdateItems(r)
      PROVE  MenuAsAgreed' /\ StrikesAnotherPrice'
  <2>1. /\ pc[r] = "updateItems" /\ item' = SavedMenu(r) /\ agreed' = AgreedAfter(r)
        /\ overlapped' = overlapped
    BY <1>1 DEF UpdateItems
  <2> SUFFICES ASSUME NEW i \in Item, item'[i] # NotListed,
                      item'[i].merchant \notin overlapped
               PROVE  /\ item'[i].price = agreed'[i].price
                      /\ item'[i].available = agreed'[i].available
                      /\ item'[i].original # item'[i].price
    BY <2>1 DEF MenuAsAgreed, StrikesAnotherPrice
  <2>2. CASE menu[r][i] = NotListed
    <3>1. item'[i] = item[i] BY <2>1, <2>2, SavedMenuIs
    <3>2. agreed'[i] = agreed[i] BY <2>1, <2>2 DEF TypeOK, AgreedAfter
    <3> QED BY <3>1, <3>2 DEF MenuAsAgreed, StrikesAnotherPrice
  <2>3. CASE menu[r][i] # NotListed
    <3>1. menu[r][i].merchant = target[r] /\ menu[r][i] \in ItemRow
      BY <2>3 DEF TypeOK, Owned
    <3>2. target[r] \notin overlapped
      <4>1. SavedMenu(r)[i].merchant = target[r]
        BY <2>3 DEF SavedMenu, MergedItem, Owned
      <4> QED BY <2>1, <4>1
    <3>3. /\ item'[i] = menu[r][i]
          /\ menu[r][i] = item[i] \/ command[r].item = i
          /\ \/ menu[r][i] = item[i]
             \/ menu[r][i].original = NoPrice
             \/ menu[r][i].original # menu[r][i].price
             \/ /\ item[i] # NotListed /\ item[i].merchant = target[r]
                /\ menu[r][i].price = item[i].price
                /\ menu[r][i].original = item[i].original
      BY <1>1, <2>3, <3>2, SavedMenuAlone
    <3>4. menu[r][i].original # menu[r][i].price
      BY <2>3, <3>1, <3>2, <3>3, NullAssumption DEF ItemRow, StrikesAnotherPrice
    <3>5. CASE command[r].item = i
      <4>1. i # NoItem BY NullAssumption
      <4>2. agreed'[i] = [price |-> menu[r][i].price, available |-> menu[r][i].available]
        BY <2>1, <2>3, <3>5, <4>1 DEF TypeOK, AgreedAfter
      <4> QED BY <3>3, <3>4, <4>2
    <3>6. CASE command[r].item # i
      <4>1. agreed'[i] = agreed[i] BY <2>1, <3>6 DEF TypeOK, AgreedAfter
      <4>2. item'[i] = item[i] BY <3>3, <3>6
      <4> QED BY <4>1, <4>2 DEF MenuAsAgreed, StrikesAnotherPrice
    <3> QED BY <3>5, <3>6
  <2> QED BY <2>2, <2>3
<1>2. ASSUME NEW m \in Merchant, DeleteMerchant(m)
  PROVE MenuAsAgreed' /\ StrikesAnotherPrice'
  BY <1>2, SamePrices DEF DeleteMerchant, Disturb
<1>3. ASSUME NEW r \in Request, NEW m \in Merchant, NEW c, NEW e, NEW next,
             Start(r, m, c, e, next)
      PROVE  MenuAsAgreed' /\ StrikesAnotherPrice'
  BY <1>3, SamePrices DEF Start, Disturb
<1>4. ASSUME UNCHANGED <<item, agreed, overlapped>>
      PROVE  MenuAsAgreed' /\ StrikesAnotherPrice'
  BY <1>4, SamePrices
<1> QED BY <1>1, <1>2, <1>3, <1>4
      DEF Next, Register, FindMerchant, LoadMenu, Refuse, SelectRow, UpdateRow,
         SelectItems,
          SaveHours, Abort, vars

-----------------------------------------------------------------------------
(* The theorems.                                                           *)

(* The inductive invariant.                                                *)
IInv ==
  /\ TypeOK /\ Rows /\ Owned /\ AllKnow /\ AllAlone
  /\ MenuAsAgreed /\ StrikesAnotherPrice

(* The invariant holds at first and every step keeps it.                   *)
LEMMA Inductive == (Init => IInv) /\ (IInv /\ [Next]_vars => IInv')
<1>1. Init => AllKnow /\ AllAlone /\ MenuAsAgreed /\ StrikesAnotherPrice
  BY EmptyMenuIs, NullAssumption
  DEF Init, AllKnow, AllAlone, MenuAsAgreed, StrikesAnotherPrice
<1> QED
  BY <1>1, InitTyped, StepTyped, InitRows, StepRows, InitOwned, StepOwned, StepKnows,
     StepAlone, StepPrices
  DEF IInv

(* A handler alone on its restaurant knows its tables up to its own save,  *)
(* and the price struck through is another price.                          *)
THEOREM InvHolds == Spec => []Inv
<1>1. IInv => Inv BY CoherentIs DEF IInv, Inv
<1> QED BY <1>1, Inductive, PTL DEF Spec

(* Unless handlers overlapped on the restaurant, price and availability of *)
(* an item are those the last request about it was told.                   *)
THEOREM MenusAgreed == Spec => []MenuAsAgreed
<1>1. IInv => MenuAsAgreed BY DEF IInv
<1> QED BY <1>1, Inductive, PTL DEF Spec

(* However handlers interleave, a closed account stays closed.             *)
THEOREM StaysClosed == Spec => ClosedForGood
<1>1. IInv /\ [Next]_vars => [\A m \in Merchant : row[m].deleted => row'[m].deleted]_vars
  <2> SUFFICES ASSUME TypeOK, Rows, [Next]_vars, NEW m \in Merchant, row[m].deleted
               PROVE  row'[m].deleted
    BY DEF IInv
  <2>1. ASSUME NEW d \in Merchant, DeleteMerchant(d) PROVE row'[m].deleted
    <3>1. row' = [row EXCEPT ![d] = [row[d] EXCEPT !.deleted = TRUE]]
      BY <2>1 DEF DeleteMerchant
    <3>2. row[d] \in Row BY DEF TypeOK
    <3>3. [row[d] EXCEPT !.deleted = TRUE].deleted BY <3>2 DEF Row
    <3> QED BY <3>1, <3>3 DEF TypeOK
  <2>2. ASSUME NEW r \in Request, UpdateRow(r) PROVE row'[m].deleted
    <3>1. PICK d \in Merchant, e \in Row :
            row' = [row EXCEPT ![d] = e] /\ (row[d].deleted => e.deleted)
      BY <2>2, UpdateRowIs
    <3> QED BY <3>1 DEF TypeOK
  <2>3. ASSUME row' = row PROVE row'[m].deleted BY <2>3
  <2> QED BY <2>1, <2>2, <2>3
        DEF Next, Register, FindMerchant, Start, LoadMenu, Refuse, SelectRow, SelectItems,
            UpdateItems, SaveHours, Abort, vars
<1> QED BY <1>1, Inductive, PTL DEF Spec, ClosedForGood

(* However handlers interleave, a menu item never changes hands, and none  *)
(* is lost to the save of a menu it was missing from.                      *)
THEOREM ItemsAreKept == Spec => OnlyRemovedOnRequest
<1>1. IInv /\ [Next]_vars =>
        [\A i \in Item :
           item[i] # NotListed =>
             \/ item'[i].merchant = item[i].merchant
             \/ \E r \in Request : command[r].op = "removeItem" /\ command[r].item = i]_vars
  <2> SUFFICES ASSUME TypeOK, Rows, Owned, [Next]_vars, NEW i \in Item, item[i] # NotListed
               PROVE  item'[i].merchant = item[i].merchant
    BY DEF IInv
  <2>1. ASSUME NEW r \in Request, UpdateItems(r)
    PROVE item'[i].merchant = item[i].merchant
    <3>1. pc[r] = "updateItems" /\ item' = SavedMenu(r) BY <2>1 DEF UpdateItems
    <3> QED BY <3>1, SavedMenuIs
  <2>2. ASSUME item' = item PROVE item'[i].merchant = item[i].merchant BY <2>2
  <2>3. \A m \in Merchant : DeleteMerchant(m) => item' = item BY DEF DeleteMerchant
  <2>4. \A r \in Request, m \in Merchant, c \in Command :
          Register(r, m) \/ FindMerchant(r, m, c) => item' = item
    BY DEF Register, FindMerchant, Start
  <2>5. \A r \in Request :
          LoadMenu(r) \/ Refuse(r) \/ SelectRow(r) \/ UpdateRow(r) \/ SelectItems(r)
            \/ SaveHours(r) \/ Abort(r) => item' = item
    BY DEF LoadMenu, Refuse, SelectRow, UpdateRow, SelectItems, SaveHours, Abort
  <2>6. CASE UNCHANGED vars BY <2>6 DEF vars
  <2>7. \A r \in Request, m \in Merchant : Register(r, m) => item' = item
    BY DEF Register, Start
  <2> QED BY <2>1, <2>2, <2>3, <2>4, <2>5, <2>6, <2>7 DEF Next
<1> QED BY <1>1, Inductive, PTL DEF Spec, OnlyRemovedOnRequest

(* A restaurant no two handlers worked on at once follows MerchantLife but *)
(* for a rejection taken back: an approval is final, and nothing but a     *)
(* registration, a decision or the closing of the account changes its row. *)
THEOREM FollowsLife == Spec => UndisturbedFollowsLife
<1>1. IInv /\ [Next]_vars =>
        [\A m \in Merchant :
           m \in overlapped' \/ Life!Same(m) \/ Life!Step(m) \/ Reconsidered(m)]_vars
  <2> SUFFICES ASSUME TypeOK, Rows, AllKnow, [Next]_vars, NEW m \in Merchant,
                      m \notin overlapped'
               PROVE  Life!Same(m) \/ Life!Step(m) \/ Reconsidered(m)
    BY DEF IInv
  <2>1. ASSUME row'[m] = row[m] PROVE Life!Same(m)
    BY <2>1 DEF Life!Same
  <2>2. ASSUME NEW d \in Merchant, DeleteMerchant(d) PROVE Life!Same(m) \/ Life!Step(m)
    <3>1. row' = [row EXCEPT ![d] = [row[d] EXCEPT !.deleted = TRUE]] /\ row[d] # Absent
      BY <2>2 DEF DeleteMerchant
    <3>2. CASE d # m
      <4>1. row'[m] = row[m] BY <3>1, <3>2 DEF TypeOK
      <4> QED BY <2>1, <4>1
    <3>3. CASE d = m
      <4>1. row[m] \in Row /\ row[m].status # "NONE" BY <3>1, <3>3 DEF TypeOK, Rows
      <4>2. row'[m] = [row[m] EXCEPT !.deleted = TRUE] BY <3>1, <3>3 DEF TypeOK
      <4>3. row'[m].deleted /\ row'[m].status = row[m].status BY <4>1, <4>2 DEF Row
      <4> QED BY <4>1, <4>3 DEF Life!Step, Life!Closes
    <3> QED BY <3>2, <3>3
  <2>3. ASSUME NEW r \in Request, UpdateRow(r)
    PROVE Life!Same(m) \/ Life!Step(m) \/ Reconsidered(m)
    <3>1. overlapped' = overlapped BY <2>3 DEF UpdateRow
    <3>2. CASE target[r] # m
      <4>1. PICK d \in Merchant, e \in Row : d = target[r] /\ row' = [row EXCEPT ![d] = e]
        BY <2>3, UpdateRowIs
      <4>2. row'[m] = row[m] BY <3>2, <4>1 DEF TypeOK
      <4> QED BY <2>1, <4>2
    <3>3. CASE target[r] = m
      <4>1. /\ row'[m] = ent[r] /\ ~row[m].deleted
            /\ \/ row[m] = Absent /\ ent[r] = NewMerchant
               \/ /\ row[m] # Absent /\ command[r] \in Command
                  /\ ~Refused(command[r], row[m], MenuOf(m))
                  /\ ent[r] = AfterCommand(command[r], row[m])
        BY <2>3, <3>1, <3>3, UpdateRowAlone DEF TypeOK
      <4>2. row[m] \in Row BY DEF TypeOK
      <4>3. CASE row[m] = Absent
        BY <4>1, <4>3, AbsentIs DEF Life!Step, Life!Registers
      <4>4. CASE row[m] # Absent
        <5> DEFINE c == command[r]
        <5>1. /\ row'[m].deleted = row[m].deleted
              /\ c.op \notin {"approve", "reject"} => row'[m].status = row[m].status
              /\ c.op = "approve" => row'[m].status = "APPROVED"
              /\ c.op = "reject" => row'[m].status = "REJECTED"
          BY <4>1, <4>2, <4>4, AfterCommandTyped
        <5>2. /\ row[m].status \in {"PENDING", "APPROVED", "REJECTED"}
              /\ c.op \in {"approve", "reject"} => row[m].status # "APPROVED"
          BY <4>1, <4>2, <4>4 DEF Rows, Row, MerchantStatus, Refused
        <5>3. row[m].deleted = FALSE BY <4>1, <4>2 DEF Row
        <5> HIDE DEF c
        <5>4. CASE c.op = "approve"
          BY <5>1, <5>2, <5>3, <5>4 DEF Life!Step, Life!Approved, Reconsidered
        <5>5. CASE c.op = "reject"
          BY <5>1, <5>2, <5>3, <5>5 DEF Life!Step, Life!Same, Life!Rejected
        <5>6. CASE c.op \notin {"approve", "reject"}
          BY <5>1, <5>6 DEF Life!Same
        <5> QED BY <5>4, <5>5, <5>6
      <4> QED BY <4>3, <4>4
    <3> QED BY <3>2, <3>3
  <2>4. ASSUME row' = row PROVE Life!Same(m) \/ Life!Step(m) BY <2>1, <2>4
  <2> QED BY <2>2, <2>3, <2>4
        DEF Next, Register, FindMerchant, Start, LoadMenu, Refuse, SelectRow, SelectItems,
            UpdateItems, SaveHours, Abort, vars
<1> QED BY <1>1, Inductive, PTL DEF Spec, UndisturbedFollowsLife

(* What the run checks of every step, for any constants.                   *)
THEOREM PromisesHold == Spec => PromisesKept
BY StaysClosed, ItemsAreKept, FollowsLife, PTL DEF PromisesKept

-----------------------------------------------------------------------------
(* From the kitchen to the door.                                           *)

(* The stages of the pipeline are numbered one after the other.            *)
LEMMA Stages ==
  /\ Status = {"PENDING", "CONFIRMED", "PREPARING", "READY_FOR_PICKUP", "OUT_FOR_DELIVERY",
               "DELIVERED"}
  /\ Stage("PENDING") = 1 /\ Stage("CONFIRMED") = 2 /\ Stage("PREPARING") = 3
  /\ Stage("READY_FOR_PICKUP") = 4 /\ Stage("OUT_FOR_DELIVERY") = 5 /\ Stage("DELIVERED") = 6
<1>1. /\ Pipeline[1] = "PENDING" /\ Pipeline[2] = "CONFIRMED" /\ Pipeline[3] = "PREPARING"
      /\ Pipeline[4] = "READY_FOR_PICKUP" /\ Pipeline[5] = "OUT_FOR_DELIVERY"
      /\ Pipeline[6] = "DELIVERED"
  BY DEF Pipeline
<1>2. \A i : i \in 1 .. 6 <=> i \in {1, 2, 3, 4, 5, 6}
  OBVIOUS
<1>3. ASSUME NEW i \in 1 .. 6 PROVE Stage(Pipeline[i]) = i
  <2>1. \A k \in 1 .. 6 : Pipeline[k] = Pipeline[i] => k = i
    BY <1>1, <1>2, <1>3
  <2> QED
    BY <2>1, <1>3 DEF Stage
<1>4. Status = {"PENDING", "CONFIRMED", "PREPARING", "READY_FOR_PICKUP", "OUT_FOR_DELIVERY",
                "DELIVERED"}
  BY <1>1, <1>2 DEF Status
<1> QED
  BY <1>1, <1>3, <1>4

(* The payment of an order: cash that is due or booked, or a card that is  *)
(* held.                                                                   *)
Payments ==
  {[method |-> "NONE", status |-> "NONE"], [method |-> "CASH", status |-> "PENDING"],
   [method |-> "CASH", status |-> "COMPLETED"], [method |-> "CREDIT_CARD", status |-> "HELD"]}

(* A courier's call names the courier; while the page of a courier waits   *)
(* for its call, it is the only one it made.                               *)
Calls ==
  /\ \A r \in Slot : req[r].at # "idle" =>
       /\ req[r].op \in {"accept", "drop", "pickup", "deliver"} => req[r].driver \in Driver
       /\ req[r].op \in {"pickup", "deliver"} => page[req[r].driver].at = "calling"
  /\ \A r, s \in Slot :
       /\ req[r].at # "idle" /\ req[r].op \in {"pickup", "deliver"}
       /\ req[s].at # "idle" /\ req[s].op \in {"pickup", "deliver"}
       /\ req[r].driver = req[s].driver
       => r = s

(* Nobody completes, or takes for completed, what is not there.            *)
Booked ==
  /\ payment \in Payments
  /\ \A c \in Driver :
       /\ page[c].at = "completing" => payment.status # "NONE"
       /\ page[c].at = "success" /\ ~missed =>
            payment.status # "NONE" /\ (payment.method = "CASH" => payment.status = "COMPLETED")

(* What a call has in hand, when no call wrote over another: the order as  *)
(* it is and its next stage, and what it was answered is done.             *)
InHand(q) ==
  /\ q.at \in {"select", "update"} =>
       /\ ValidTransition(order.status, Goal(q.op))
       /\ q.ent.status = Goal(q.op)
       /\ q.op = "accept" => q.ent.driver = q.driver
       /\ q.op \notin {"accept", "pickup"} => q.ent.driver = order.driver
       /\ q.at = "update" => q.base = order
  /\ q.at = "done" =>
       /\ Stage(Goal(q.op)) <= Stage(order.status)
       /\ q.op = "accept" => order.driver = q.driver

(* A page that is open belongs to the courier who has the order.           *)
Mine(c) ==
  /\ page[c].at # "closed" => Stage(order.status) >= 5 /\ order.driver = c
  /\ page[c].at \in {"listing", "completing", "success"} => order.status = "DELIVERED"

Calm ==
  /\ ViewsAreNotAhead
  /\ \A c \in Driver : Mine(c)
  /\ \A r \in Slot : InHand(req[r])

(* Cash is booked at the door.                                             *)
DeliveryIInv ==
  /\ DeliveryTypeOK /\ Calls /\ Booked
  /\ overwritten \/ Calm
  /\ payment.status = "COMPLETED" => overwritten \/ order.status = "DELIVERED"

(* Stages are numbers from 1 to 6 and tell the statuses apart.             *)
LEMMA StageOf ==
  /\ \A s \in Status : Stage(s) \in 1 .. 6
  /\ \A s, t \in Status : Stage(s) = Stage(t) => s = t
  /\ \A q \in Call : Goal(q.op) \in Status
BY Stages DEF Call, Op, Goal

(* A call as a record with fields of known types.                          *)
LEMMA CallFields ==
  ASSUME NEW q \in Call
  PROVE  /\ q.at \in {"idle", "find", "select", "update", "done", "failed"} /\ q.op \in Op
         /\ q.driver \in Driver \cup {NoDriver} /\ q.ent \in OrderRow /\ q.base \in OrderRow
         /\ q.ent.status \in Status /\ q.ent.driver \in Driver \cup {NoDriver}
BY DEF Call, OrderRow

(* An idle slot is a call, and an order just placed a row.                 *)
LEMMA IdleSlot ==
  /\ Placed \in OrderRow /\ Idle \in Call /\ Idle.at = "idle"
  /\ Closed \in Page /\ Closed.at = "closed" /\ Closed.shown = Placed
  /\ Placed.status = "PENDING" /\ Placed.driver = NoDriver
BY Stages DEF Placed, OrderRow, Idle, Call, Op, Closed, Page

(* A call that begins.                                                     *)
LEMMA Beginning ==
  ASSUME DeliveryTypeOK, NEW r \in Slot, NEW op \in Op, NEW c \in Driver \cup {NoDriver},
         Begin(r, op, c)
  PROVE  /\ req' \in [Slot -> Call]
         /\ req[r].at = "idle"
         /\ req'[r].at = "find" /\ req'[r].op = op /\ req'[r].driver = c
         /\ \A s \in Slot : s # r => req'[s] = req[s]
<1>1. PICK q : q = [Idle EXCEPT !.at = "find", !.op = op, !.driver = c]
  OBVIOUS
<1>2. q \in Call /\ q.at = "find" /\ q.op = op /\ q.driver = c
  BY <1>1, IdleSlot DEF Call, Idle
<1>3. req' = [req EXCEPT ![r] = q] /\ req \in [Slot -> Call] /\ req[r].at = "idle"
  BY <1>1 DEF DeliveryTypeOK, Begin
<1> QED
  BY <1>2, <1>3

(* What each step does to the slot it concerns.                            *)
LEMMA Serving ==
  ASSUME DeliveryTypeOK, Calls, NEW r \in Slot,
         FindOrder(r) \/ SaveSelect(r) \/ SaveUpdate(r) \/ CallFails(r) \/ Answer(r)
  PROVE  /\ req' \in [Slot -> Call]
         /\ req'[r].at # "idle" => req'[r].op = req[r].op /\ req'[r].driver = req[r].driver
         /\ req[r].at # "idle"
         /\ \A s \in Slot : s # r => req'[s] = req[s]
<1>1. PICK q \in Call : q = req[r]
  BY DEF DeliveryTypeOK
<1>2. req \in [Slot -> Call] /\ order \in OrderRow /\ page \in [Driver -> Page]
  BY DEF DeliveryTypeOK
<1>3. CASE FindOrder(r)
  <2>1. PICK e : e = [status |-> Goal(q.op), driver |-> Named(q)]
    OBVIOUS
  <2>2. Named(q) \in Driver \cup {NoDriver}
    BY <1>1, <1>2, <1>3, CallFields DEF Named, FindOrder, Calls, OrderRow, Page, Op
  <2>3. e \in OrderRow
    BY <2>1, <2>2, StageOf DEF OrderRow
  <2>4. PICK p : p = IF ValidTransition(order.status, Goal(q.op))
                     THEN [q EXCEPT !.at = "select", !.ent = e]
                     ELSE [q EXCEPT !.at = "failed"]
    OBVIOUS
  <2>5. p \in Call /\ p.op = q.op /\ p.driver = q.driver
    BY <2>3, <2>4 DEF Call
  <2>6. req' = [req EXCEPT ![r] = p] /\ q.at = "find"
    BY <1>1, <1>3, <2>1, <2>4 DEF FindOrder
  <2> QED
    BY <1>1, <1>2, <2>5, <2>6
<1>4. CASE SaveSelect(r)
  <2>1. PICK p : p = [q EXCEPT !.at = "update", !.base = order]
    OBVIOUS
  <2>2. p \in Call /\ p.op = q.op /\ p.driver = q.driver
    BY <1>2, <2>1 DEF Call
  <2>3. req' = [req EXCEPT ![r] = p] /\ q.at = "select"
    BY <1>1, <1>2, <1>4, <2>1 DEF SaveSelect
  <2> QED
    BY <1>1, <1>2, <2>2, <2>3
<1>5. CASE SaveUpdate(r) \/ CallFails(r)
  <2>1. PICK a \in {"done", "failed"} :
          req' = [req EXCEPT ![r] = [@ EXCEPT !.at = a, !.ent = Placed, !.base = Placed]]
    BY <1>5 DEF SaveUpdate, CallFails
  <2>2. PICK p : p = [q EXCEPT !.at = a, !.ent = Placed, !.base = Placed]
    OBVIOUS
  <2>3. p \in Call /\ p.op = q.op /\ p.driver = q.driver
    BY <2>2, IdleSlot DEF Call
  <2>4. req' = [req EXCEPT ![r] = p] /\ q.at # "idle"
    BY <1>1, <1>2, <1>5, <2>1, <2>2 DEF SaveUpdate, CallFails
  <2> QED
    BY <1>1, <1>2, <2>3, <2>4
<1>6. CASE Answer(r)
  <2>1. req' = [req EXCEPT ![r] = Idle] /\ q.at # "idle"
    BY <1>1, <1>6 DEF Answer
  <2> QED
    BY <1>1, <1>2, <2>1, IdleSlot
<1> QED
  BY <1>3, <1>4, <1>5, <1>6

(* The button that was pressed, and the call it begins.                    *)
LEMMA Pressing ==
  ASSUME DeliveryTypeOK, NEW r \in Slot,
         \/ KitchenButton(r)
         \/ \E c \in Driver : \/ AcceptButton(r, c) \/ DropButton(r, c)
                              \/ PickupButton(r, c) \/ DeliverButton(r, c)
  PROVE  \E op \in Op, c \in Driver \cup {NoDriver} :
           /\ Begin(r, op, c)
           /\ op \in {"accept", "drop", "pickup", "deliver"} => c \in Driver
           /\ kitchen' = kitchen /\ board' = board
           /\ \/ op \notin {"pickup", "deliver"} /\ page' = page
              \/ /\ op \in {"pickup", "deliver"} /\ page[c].at = "open"
                 /\ page' = [page EXCEPT ![c].at = "calling"]
<1> DEFINE Pressed ==
      \E op \in Op, c \in Driver \cup {NoDriver} :
        /\ Begin(r, op, c)
        /\ op \in {"accept", "drop", "pickup", "deliver"} => c \in Driver
        /\ kitchen' = kitchen /\ board' = board
        /\ \/ op \notin {"pickup", "deliver"} /\ page' = page
           \/ /\ op \in {"pickup", "deliver"} /\ page[c].at = "open"
              /\ page' = [page EXCEPT ![c].at = "calling"]
<1>1. CASE KitchenButton(r)
  <2>1. PICK op : op = CASE kitchen = "PENDING" -> "confirm"
                         [] kitchen = "CONFIRMED" -> "preparing"
                         [] kitchen = "PREPARING" -> "ready"
    OBVIOUS
  <2>2. op \in {"confirm", "preparing", "ready"}
    BY <1>1, <2>1 DEF KitchenButton
  <2>3. Begin(r, op, NoDriver)
    BY <1>1, <2>1 DEF KitchenButton
  <2>4. kitchen' = kitchen /\ board' = board /\ page' = page
    BY <1>1 DEF KitchenButton, DuringCall
  <2> QED
    BY <2>2, <2>3, <2>4 DEF Op
<1>2. ASSUME NEW c \in Driver, AcceptButton(r, c) PROVE Pressed
  BY <1>2 DEF AcceptButton, Op
<1>3. ASSUME NEW c \in Driver, DropButton(r, c) PROVE Pressed
  BY <1>3 DEF DropButton, Op
<1>4. ASSUME NEW c \in Driver, PickupButton(r, c) PROVE Pressed
  <2>1. Begin(r, "pickup", c) /\ page[c].at = "open" /\ kitchen' = kitchen /\ board' = board
        /\ page' = [page EXCEPT ![c].at = "calling"]
    BY <1>4 DEF PickupButton
  <2> QED
    BY <2>1 DEF Op
<1>5. ASSUME NEW c \in Driver, DeliverButton(r, c) PROVE Pressed
  <2>1. Begin(r, "deliver", c) /\ page[c].at = "open" /\ kitchen' = kitchen /\ board' = board
        /\ page' = [page EXCEPT ![c].at = "calling"]
    BY <1>5 DEF DeliverButton
  <2> QED
    BY <2>1 DEF Op
<1> QED
  BY <1>1, <1>2, <1>3, <1>4, <1>5

Press(r) ==
  \/ KitchenButton(r)
  \/ \E c \in Driver : \/ AcceptButton(r, c) \/ DropButton(r, c)
                       \/ PickupButton(r, c) \/ DeliverButton(r, c)

(* The steps, by what they are about.                                      *)
LEMMA DeliverySteps ==
  ASSUME [DeliveryNext]_deliveryVars
  PROVE  \/ UNCHANGED deliveryVars
         \/ KitchenLoads
         \/ RecordPayment
         \/ \E c \in Driver : \/ Poll(c) \/ PageLoads(c) \/ Decline(c)
                              \/ ListPayments(c) \/ CompletePayment(c)
         \/ \E r \in Slot : \/ Press(r) \/ CallFails(r) \/ FindOrder(r) \/ SaveSelect(r)
                            \/ SaveUpdate(r) \/ Answer(r)
BY DEF DeliveryNext, Serve, Settle, Press

(* The page of a courier whose call is answered.                           *)
LEMMA Answering ==
  ASSUME DeliveryTypeOK, Calls, NEW r \in Slot, Answer(r)
  PROVE  /\ kitchen' = kitchen
              \/ /\ req[r].at = "done" /\ req[r].op \in {"confirm", "preparing", "ready"}
                 /\ kitchen' = Goal(req[r].op)
         /\ board' \in [Driver -> Board]
         /\ \A c \in Driver : board'[c].mine \in {board[c].mine, "NONE"}
         /\ page' \in [Driver -> Page]
         /\ \A c \in Driver :
              \/ page'[c] = page[c] /\ (page[c].at # "calling" \/ req[r].driver # c
                                        \/ req[r].op \notin {"pickup", "deliver"})
              \/ /\ req[r].at = "done" /\ req[r].op = "accept" /\ req[r].driver = c
                 /\ page[c].at = "closed"
                 /\ page'[c].at = "loading" /\ page'[c].shown = page[c].shown
              \/ /\ req[r].op \in {"pickup", "deliver"} /\ req[r].driver = c
                 /\ page[c].at = "calling"
                 /\ \/ page'[c].at = "open" /\ page'[c].shown = page[c].shown
                    \/ /\ req[r].at = "done" /\ req[r].op = "deliver"
                       /\ page'[c].at = "listing" /\ page'[c].shown = page[c].shown
                    \/ /\ req[r].at = "done" /\ req[r].op = "pickup"
                       /\ page'[c].at = "open" /\ page'[c].shown.status = "OUT_FOR_DELIVERY"
<1>1. PICK q \in Call : q = req[r]
  BY DEF DeliveryTypeOK
<1>2. PICK d : d = q.driver
  OBVIOUS
<1>3. /\ q.at \in {"done", "failed"} /\ q.op \in Op
      /\ q.op \in {"accept", "drop", "pickup", "deliver"} => d \in Driver
      /\ q.op \in {"pickup", "deliver"} => page[d].at = "calling"
      /\ board \in [Driver -> Board] /\ page \in [Driver -> Page]
  BY <1>1, <1>2, CallFields DEF Answer, Calls, DeliveryTypeOK
<1>4. kitchen' = kitchen
        \/ (q.at = "done" /\ q.op \in {"confirm", "preparing", "ready"} /\ kitchen' = Goal(q.op))
  BY <1>1 DEF Answer
<1>5. board' \in [Driver -> Board]
      /\ \A c \in Driver : board'[c].mine \in {board[c].mine, "NONE"}
  <2>1. CASE q.at = "done" /\ q.op = "accept"
    <3>1. board' = [board EXCEPT ![d].waiting = FALSE]
      BY <1>1, <1>2, <2>1 DEF Answer
    <3> QED
      BY <1>3, <3>1 DEF Board
  <2>2. CASE q.at = "done" /\ q.op = "drop"
    <3>1. board' = [board EXCEPT ![d].mine = "NONE"]
      BY <1>1, <1>2, <2>2 DEF Answer
    <3> QED
      BY <1>3, <3>1 DEF Board
  <2>3. CASE ~(q.at = "done" /\ q.op \in {"accept", "drop"})
    <3>1. board' = board
      BY <1>1, <2>3 DEF Answer
    <3> QED
      BY <1>3, <3>1
  <2> QED
    BY <2>1, <2>2, <2>3
<1>6. CASE q.at = "done" /\ q.op = "accept" /\ page[d].at = "closed"
  <2>1. page' = [page EXCEPT ![d].at = "loading"]
    BY <1>1, <1>2, <1>6 DEF Answer
  <2>2. PICK p : p = [page[d] EXCEPT !.at = "loading"]
    OBVIOUS
  <2>3. p \in Page /\ p.at = "loading" /\ p.shown = page[d].shown
    BY <1>3, <1>6, <2>2 DEF Page
  <2>4. page' = [page EXCEPT ![d] = p]
    BY <2>1, <2>2
  <2> QED
    BY <1>1, <1>2, <1>3, <1>4, <1>5, <1>6, <2>3, <2>4
<1>7. CASE q.op \in {"pickup", "deliver"}
  <2>1. page' = [page EXCEPT ![d] = AfterCall(page[d], q)]
    BY <1>1, <1>2, <1>7 DEF Answer
  <2>2. PICK p : p = AfterCall(page[d], q)
    OBVIOUS
  <2>3. PICK g \in Page : g = page[d]
    BY <1>3, <1>7
  <2>4. /\ p \in Page
        /\ \/ p.at = "open" /\ p.shown = g.shown
           \/ q.at = "done" /\ q.op = "deliver" /\ p.at = "listing" /\ p.shown = g.shown
           \/ q.at = "done" /\ q.op = "pickup" /\ p.at = "open"
              /\ p.shown.status = "OUT_FOR_DELIVERY"
    <3>1. CASE q.at = "failed"
      <4>1. p = [g EXCEPT !.at = "open"]
        BY <2>2, <2>3, <3>1 DEF AfterCall
      <4> QED
        BY <4>1, <3>1 DEF Page
    <3>2. CASE q.at = "done" /\ q.op = "deliver"
      BY <2>2, <2>3, <3>2 DEF AfterCall, Page
    <3>3. CASE q.at = "done" /\ q.op = "pickup"
      <4>1. p = [g EXCEPT !.at = "open", !.shown.status = "OUT_FOR_DELIVERY"]
        BY <2>2, <2>3, <3>3 DEF AfterCall
      <4>2. g.shown \in OrderRow /\ "OUT_FOR_DELIVERY" \in Status
        BY Stages DEF Page
      <4>3. PICK w : w = [g.shown EXCEPT !.status = "OUT_FOR_DELIVERY"]
        OBVIOUS
      <4>4. w \in OrderRow /\ w.status = "OUT_FOR_DELIVERY"
        BY <4>2, <4>3 DEF OrderRow
      <4>5. p = [g EXCEPT !.at = "open", !.shown = w]
        BY <4>1, <4>3
      <4>6. p \in Page /\ p.at = "open" /\ p.shown = w
        BY <4>4, <4>5 DEF Page
      <4> QED
        BY <3>3, <4>4, <4>6
    <3> QED
      BY <1>3, <1>7, <3>1, <3>2, <3>3
  <2>5. page' = [page EXCEPT ![d] = p]
    BY <2>1, <2>2
  <2>6. /\ page' \in [Driver -> Page] /\ page'[d] = p
        /\ \A c \in Driver : c # d => page'[c] = page[c]
    BY <1>3, <1>7, <2>4, <2>5
  <2> QED
    BY <1>1, <1>2, <1>3, <1>4, <1>5, <1>7, <2>3, <2>4, <2>6
<1>8. CASE /\ ~(q.at = "done" /\ q.op = "accept" /\ page[d].at = "closed")
           /\ q.op \notin {"pickup", "deliver"}
  <2>1. page' = page
    BY <1>1, <1>2, <1>8 DEF Answer
  <2> QED
    BY <1>1, <1>3, <1>4, <1>5, <1>8, <2>1
<1> QED
  BY <1>6, <1>7, <1>8

(* Every step keeps the types.                                             *)
LEMMA DeliveryTypes ==
  ASSUME DeliveryTypeOK, Calls, [DeliveryNext]_deliveryVars
  PROVE  DeliveryTypeOK'
<1> USE DEF DeliveryTypeOK
<1>1. CASE UNCHANGED deliveryVars
  BY <1>1 DEF deliveryVars
<1>2. CASE KitchenLoads
  BY <1>2 DEF KitchenLoads, OrderRow
<1>3. CASE RecordPayment
  BY <1>3 DEF RecordPayment, Payment
<1>4. ASSUME NEW c \in Driver, Poll(c) PROVE DeliveryTypeOK'
  BY <1>4 DEF Poll, Board, OrderRow
<1>5. ASSUME NEW c \in Driver, PageLoads(c) PROVE DeliveryTypeOK'
  BY <1>5 DEF PageLoads, Page
<1>6. ASSUME NEW c \in Driver, Decline(c) PROVE DeliveryTypeOK'
  BY <1>6 DEF Decline, Board
<1>7. ASSUME NEW c \in Driver, ListPayments(c) PROVE DeliveryTypeOK'
  <2>1. PICK a \in {"completing", "success"} : page' = [page EXCEPT ![c].at = a]
    BY <1>7 DEF ListPayments
  <2>2. page' \in [Driver -> Page]
    BY <2>1 DEF Page
  <2> QED
    BY <1>7, <2>2 DEF ListPayments
<1>8. ASSUME NEW c \in Driver, CompletePayment(c) PROVE DeliveryTypeOK'
  <2>1. page' \in [Driver -> Page]
    BY <1>8 DEF CompletePayment, Page
  <2>2. payment' \in Payment
    BY <1>8 DEF CompletePayment, Payment
  <2> QED
    BY <1>8, <2>1, <2>2 DEF CompletePayment
<1>9. ASSUME NEW r \in Slot, Press(r) PROVE DeliveryTypeOK'
  <2>1. PICK op \in Op, c \in Driver \cup {NoDriver} :
           /\ Begin(r, op, c)
           /\ kitchen' = kitchen /\ board' = board
           /\ \/ page' = page
              \/ page' = [page EXCEPT ![c].at = "calling"]
    BY <1>9, Pressing DEF Press
  <2>2. page' \in [Driver -> Page]
    BY <2>1 DEF Page
  <2>3. req' \in [Slot -> Call]
    BY <2>1, Beginning
  <2> QED
    BY <2>1, <2>2, <2>3 DEF Begin
<1>10. ASSUME NEW r \in Slot, CallFails(r) PROVE DeliveryTypeOK'
  <2>1. req' \in [Slot -> Call]
    BY <1>10, Serving
  <2> QED
    BY <1>10, <2>1 DEF CallFails
<1>11. ASSUME NEW r \in Slot, FindOrder(r) PROVE DeliveryTypeOK'
  <2>1. req' \in [Slot -> Call]
    BY <1>11, Serving
  <2> QED
    BY <1>11, <2>1 DEF FindOrder
<1>12. ASSUME NEW r \in Slot, SaveSelect(r) PROVE DeliveryTypeOK'
  <2>1. req' \in [Slot -> Call]
    BY <1>12, Serving
  <2> QED
    BY <1>12, <2>1 DEF SaveSelect
<1>13. ASSUME NEW r \in Slot, SaveUpdate(r) PROVE DeliveryTypeOK'
  <2>1. req' \in [Slot -> Call]
    BY <1>13, Serving
  <2>2. PICK q \in Call : q = req[r]
    OBVIOUS
  <2>3. q.ent \in OrderRow
    BY CallFields
  <2>4. order' = [col \in DOMAIN order |-> IF q.ent[col] # q.base[col] THEN q.ent[col]
                                                                     ELSE order[col]]
    BY <1>13, <2>2 DEF SaveUpdate, ChangedColumns
  <2>5. order' \in OrderRow
    BY <2>3, <2>4 DEF OrderRow
  <2> QED
    BY <1>13, <2>1, <2>5 DEF SaveUpdate
<1>14. ASSUME NEW r \in Slot, Answer(r) PROVE DeliveryTypeOK'
  <2>1. req' \in [Slot -> Call]
    BY <1>14, Serving
  <2>2. kitchen' \in Status /\ board' \in [Driver -> Board] /\ page' \in [Driver -> Page]
    BY <1>14, Answering, StageOf
  <2> QED
    BY <1>14, <2>1, <2>2 DEF Answer
<1> QED
  BY <1>1, <1>2, <1>3, <1>4, <1>5, <1>6, <1>7, <1>8, <1>9, <1>10, <1>11, <1>12, <1>13,
     <1>14,
     DeliverySteps

(* Calls keep naming their couriers, one at a time for each page.          *)
LEMMA CallsKept ==
  ASSUME DeliveryTypeOK, Calls, [DeliveryNext]_deliveryVars
  PROVE  Calls'
<1>1. ASSUME UNCHANGED req, \A c \in Driver : page[c].at = "calling" => page'[c] = page[c]
      PROVE  Calls'
  BY <1>1 DEF Calls
<1>2. ASSUME NEW r \in Slot, Press(r) PROVE Calls'
  <2>1. PICK op \in Op, c \in Driver \cup {NoDriver} :
           /\ Begin(r, op, c)
           /\ op \in {"accept", "drop", "pickup", "deliver"} => c \in Driver
           /\ \/ op \notin {"pickup", "deliver"} /\ page' = page
              \/ /\ op \in {"pickup", "deliver"} /\ page[c].at = "open"
                 /\ page' = [page EXCEPT ![c].at = "calling"]
    BY <1>2, Pressing DEF Press
  <2>2. /\ req[r].at = "idle" /\ req'[r].at = "find" /\ req'[r].op = op /\ req'[r].driver = c
        /\ \A s \in Slot : s # r => req'[s] = req[s]
    BY <2>1, Beginning
  <2>3. CASE op \notin {"pickup", "deliver"} /\ page' = page
    BY <2>1, <2>2, <2>3 DEF Calls
  <2>4. CASE /\ op \in {"pickup", "deliver"} /\ page[c].at = "open"
             /\ page' = [page EXCEPT ![c].at = "calling"]
    <3>1. c \in Driver /\ page \in [Driver -> Page]
      BY <2>1, <2>4 DEF DeliveryTypeOK
    <3>2. /\ page'[c].at = "calling"
          /\ \A d \in Driver : d # c => page'[d] = page[d]
      BY <2>4, <3>1 DEF Page
    <3>3. \A s \in Slot : s # r /\ req[s].at # "idle" /\ req[s].op \in {"pickup", "deliver"}
            => req[s].driver # c
      BY <2>4 DEF Calls
    <3> QED
      BY <2>2, <2>4, <3>1, <3>2, <3>3 DEF Calls
  <2> QED
    BY <2>1, <2>3, <2>4
<1>3. ASSUME NEW r \in Slot, CallFails(r) \/ FindOrder(r) \/ SaveSelect(r) \/ SaveUpdate(r)
      PROVE  Calls'
  <2>1. page' = page
    BY <1>3 DEF CallFails, FindOrder, SaveSelect, SaveUpdate
  <2>2. /\ req'[r].at # "idle" => req'[r].op = req[r].op /\ req'[r].driver = req[r].driver
        /\ req[r].at # "idle"
        /\ \A s \in Slot : s # r => req'[s] = req[s]
    BY <1>3, Serving
  <2> QED
    BY <2>1, <2>2 DEF Calls
<1>4. ASSUME NEW r \in Slot, Answer(r) PROVE Calls'
  <2>1. /\ req'[r].at = "idle" /\ req[r].at # "idle"
        /\ \A s \in Slot : s # r => req'[s] = req[s]
    <3>1. req' = [req EXCEPT ![r] = Idle] /\ req \in [Slot -> Call] /\ req[r].at # "idle"
      BY <1>4 DEF Answer, DeliveryTypeOK
    <3> QED
      BY <3>1, IdleSlot
  <2>2. \A c \in Driver :
          \/ page'[c] = page[c]
          \/ page[c].at = "closed"
          \/ req[r].op \in {"pickup", "deliver"} /\ req[r].driver = c
    BY <1>4, Answering
  <2> QED
    BY <2>1, <2>2 DEF Calls
<1>5. CASE UNCHANGED deliveryVars \/ KitchenLoads \/ RecordPayment
  BY <1>1, <1>5 DEF deliveryVars, KitchenLoads, RecordPayment
<1>6. ASSUME NEW c \in Driver, Poll(c) \/ PageLoads(c) \/ Decline(c)
                               \/ ListPayments(c) \/ CompletePayment(c)
      PROVE  Calls'
  <2>1. UNCHANGED req
    BY <1>6 DEF Poll, PageLoads, Decline, ListPayments, CompletePayment
  <2>2. \A d \in Driver : page[d].at = "calling" => page'[d] = page[d]
    BY <1>6 DEF Poll, PageLoads, Decline, ListPayments, CompletePayment, DeliveryTypeOK
  <2> QED
    BY <1>1, <2>1, <2>2
<1> QED
  BY <1>2, <1>3, <1>4, <1>5, <1>6, DeliverySteps

(* Payments are completed once, and pages that look for one find it.       *)
LEMMA BookedKept ==
  ASSUME DeliveryTypeOK, Calls, Booked, [DeliveryNext]_deliveryVars
  PROVE  Booked'
<1>1. ASSUME UNCHANGED <<payment, missed>>,
             \A c \in Driver : page'[c].at \in {"completing", "success"} =>
                page'[c].at = page[c].at
      PROVE  Booked'
  BY <1>1 DEF Booked
<1>2. page \in [Driver -> Page] /\ missed \in BOOLEAN
  BY DEF DeliveryTypeOK
<1>3. CASE RecordPayment
  BY <1>3 DEF RecordPayment, Booked, Payments
<1>4. ASSUME NEW c \in Driver, ListPayments(c) PROVE Booked'
  <2>1. PICK a \in {"completing", "success"} :
          /\ page' = [page EXCEPT ![c].at = a] /\ payment' = payment
          /\ \/ a = "completing" /\ payment.status = "PENDING" /\ missed' = missed
             \/ a = "success" /\ payment.status # "PENDING"
                /\ missed' = (missed \/ payment.status = "NONE")
             \/ a = "success" /\ missed' = TRUE
    <3>1. CASE page' = [page EXCEPT ![c].at = "success"] /\ missed' = TRUE
      BY <1>4, <3>1 DEF ListPayments
    <3>2. CASE /\ page' = [page EXCEPT ![c].at = IF Open(payment) THEN "completing" ELSE "success"]
               /\ missed' = (missed \/ payment.status = "NONE")
      <4>1. CASE payment.status = "PENDING"
        <5>1. page' = [page EXCEPT ![c].at = "completing"]
          BY <3>2, <4>1 DEF Open
        <5>2. missed' = missed
          BY <1>2, <3>2, <4>1
        <5> QED
          BY <1>4, <4>1, <5>1, <5>2 DEF ListPayments
      <4>2. CASE payment.status # "PENDING"
        <5>1. page' = [page EXCEPT ![c].at = "success"]
          BY <3>2, <4>2 DEF Open
        <5> QED
          BY <1>4, <3>2, <4>2, <5>1 DEF ListPayments
      <4> QED
        BY <4>1, <4>2
    <3> QED
      BY <1>4, <3>1, <3>2 DEF ListPayments
  <2>2. page'[c].at = a /\ \A d \in Driver : d # c => page'[d] = page[d]
    BY <1>2, <2>1 DEF Page
  <2>3. payment.status # "PENDING" /\ payment.status # "NONE" =>
          (payment.method = "CASH" => payment.status = "COMPLETED")
    BY DEF Booked, Payments
  <2> QED
    BY <1>2, <2>1, <2>2, <2>3 DEF Booked
<1>5. ASSUME NEW c \in Driver, CompletePayment(c) PROVE Booked'
  <2>1. page' = [page EXCEPT ![c].at = "success"] /\ page[c].at = "completing"
    BY <1>5 DEF CompletePayment
  <2>2. page'[c].at = "success" /\ \A d \in Driver : d # c => page'[d] = page[d]
    BY <1>2, <2>1 DEF Page
  <2>3. CASE payment.status = "PENDING" /\ payment' = [payment EXCEPT !.status = "COMPLETED"]
             /\ missed' = missed
    <3>1. payment = [method |-> "CASH", status |-> "PENDING"]
      BY <2>3 DEF Booked, Payments
    <3>2. payment' = [method |-> "CASH", status |-> "COMPLETED"]
      BY <2>3, <3>1
    <3> QED
      BY <2>2, <2>3, <3>2 DEF Booked, Payments
  <2>4. CASE payment' = payment /\ missed' = (missed \/ payment.status = "PENDING")
    <3>1. payment.status # "NONE"
      BY <2>1 DEF Booked
    <3>2. payment.status # "PENDING" =>
            (payment.method = "CASH" => payment.status = "COMPLETED")
      BY <3>1 DEF Booked, Payments
    <3> QED
      BY <1>2, <2>2, <2>4, <3>1, <3>2 DEF Booked
  <2> QED
    BY <1>5, <2>3, <2>4 DEF CompletePayment
<1>6. ASSUME NEW r \in Slot, Press(r) PROVE Booked'
  <2>1. PICK op \in Op, c \in Driver \cup {NoDriver} :
           /\ Begin(r, op, c)
           /\ \/ page' = page
              \/ page' = [page EXCEPT ![c].at = "calling"]
    BY <1>6, Pressing DEF Press
  <2>2. UNCHANGED <<payment, missed>>
    BY <2>1 DEF Begin
  <2>3. \A d \in Driver : page'[d].at \in {"completing", "success"} => page'[d].at = page[d].at
    BY <1>2, <2>1 DEF Page
  <2> QED
    BY <1>1, <2>2, <2>3
<1>7. ASSUME NEW r \in Slot, Answer(r) PROVE Booked'
  <2>1. UNCHANGED <<payment, missed>>
    BY <1>7 DEF Answer
  <2>2. \A d \in Driver : page'[d].at \in {"completing", "success"} => page'[d].at = page[d].at
    BY <1>7, Answering
  <2> QED
    BY <1>1, <2>1, <2>2
<1>8. ASSUME NEW r \in Slot, CallFails(r) \/ FindOrder(r) \/ SaveSelect(r) \/ SaveUpdate(r)
      PROVE  Booked'
  <2>1. page' = page /\ UNCHANGED <<payment, missed>>
    BY <1>8 DEF CallFails, FindOrder, SaveSelect, SaveUpdate
  <2> QED
    BY <1>1, <2>1
<1>9. CASE UNCHANGED deliveryVars \/ KitchenLoads
  BY <1>1, <1>9 DEF deliveryVars, KitchenLoads
<1>10. ASSUME NEW c \in Driver, Poll(c) \/ Decline(c) PROVE Booked'
  BY <1>1, <1>10 DEF Poll, Decline
<1>11. ASSUME NEW c \in Driver, PageLoads(c) PROVE Booked'
  <2>1. UNCHANGED <<payment, missed>>
    BY <1>11 DEF PageLoads
  <2>2. \A d \in Driver : page'[d].at \in {"completing", "success"} => page'[d].at = page[d].at
    BY <1>2, <1>11 DEF PageLoads
  <2> QED
    BY <1>1, <2>1, <2>2
<1> QED
  BY <1>3, <1>4, <1>5, <1>6, <1>7, <1>8, <1>9, <1>10, <1>11, DeliverySteps

(* A save that disturbs no other call writes what its call has in hand.    *)
LEMMA UndisturbedSave ==
  ASSUME DeliveryTypeOK, Calls, Calm, NEW r \in Slot, SaveUpdate(r), ~overwritten'
  PROVE  /\ ValidTransition(order.status, Goal(req[r].op))
         /\ order'.status = Goal(req[r].op)
         /\ Stage(order'.status) = Stage(order.status) + 1
         /\ order.status # "DELIVERED"
         /\ \/ /\ req[r].op = "accept" /\ order.status = "READY_FOR_PICKUP"
               /\ req[r].driver \in Driver /\ order'.driver = req[r].driver
            \/ req[r].op # "accept" /\ order'.driver = order.driver
               /\ order'.status # "OUT_FOR_DELIVERY"
         /\ order' = [status |-> order'.status, driver |-> order'.driver]
         /\ \A s \in Slot : s # r => req[s].at \notin {"select", "update"}
         /\ req'[r].at = "done" /\ req'[r].op = req[r].op /\ req'[r].driver = req[r].driver
         /\ \A s \in Slot : s # r => req'[s] = req[s]
<1>1. PICK q \in Call : q = req[r]
  BY DEF DeliveryTypeOK
<1>2. /\ q.at = "update" /\ order \in OrderRow /\ page \in [Driver -> Page]
      /\ req \in [Slot -> Call]
  BY <1>1 DEF SaveUpdate, DeliveryTypeOK
<1>3. /\ ValidTransition(order.status, Goal(q.op))
      /\ q.ent.status = Goal(q.op)
      /\ q.op = "accept" => q.ent.driver = q.driver
      /\ q.op \notin {"accept", "pickup"} => q.ent.driver = order.driver
      /\ q.base = order
  BY <1>1, <1>2 DEF Calm, InHand
<1>4. q.op # "pickup"
  <2>1. SUFFICES ASSUME q.op = "pickup" PROVE FALSE
    OBVIOUS
  <2>2. page[q.driver].at = "calling" /\ q.driver \in Driver
    BY <1>1, <1>2, <2>1 DEF Calls
  <2>3. Stage(order.status) >= 5
    BY <2>2 DEF Calm, Mine
  <2>4. Stage(order.status) + 1 = 5
    BY <1>3, <2>1, Stages DEF ValidTransition, Goal
  <2>5. Stage(order.status) \in 1 .. 6
    BY <1>2, StageOf DEF OrderRow
  <2> QED
    BY <2>3, <2>4, <2>5
<1>5. order' = [col \in DOMAIN order |-> IF q.ent[col] # q.base[col] THEN q.ent[col]
                                                                    ELSE order[col]]
  BY <1>1 DEF SaveUpdate, ChangedColumns
<1>6. /\ order'.status = q.ent.status /\ order'.driver = q.ent.driver
      /\ order' = [status |-> order'.status, driver |-> order'.driver]
  BY <1>2, <1>3, <1>5 DEF OrderRow
<1>7. order.status \in Status /\ Goal(q.op) \in Status /\ q.op \in Op
  BY <1>1, <1>2, StageOf, CallFields DEF OrderRow
<1>8. Stage(Goal(q.op)) = Stage(order.status) + 1
  BY <1>3 DEF ValidTransition
<1>9. order.status # "DELIVERED"
  BY <1>7, <1>8, StageOf, Stages
<1>10. ASSUME q.op = "accept"
       PROVE  order.status = "READY_FOR_PICKUP" /\ q.driver \in Driver
              /\ order'.driver = q.driver
  <2>1. Stage(order.status) = 4
    BY <1>7, <1>8, <1>10, StageOf, Stages DEF Goal
  <2>2. order.status = "READY_FOR_PICKUP"
    BY <1>7, <2>1, StageOf, Stages
  <2>3. q.driver \in Driver
    BY <1>1, <1>2, <1>10 DEF Calls
  <2> QED
    BY <1>3, <1>6, <1>10, <2>2, <2>3
<1>11. ASSUME q.op # "accept"
       PROVE  order'.driver = order.driver /\ order'.status # "OUT_FOR_DELIVERY"
  <2>1. q.op \in {"confirm", "preparing", "ready", "drop", "deliver"}
    BY <1>4, <1>7, <1>11 DEF Op
  <2>2. Goal(q.op) # "OUT_FOR_DELIVERY"
    BY <2>1 DEF Goal
  <2> QED
    BY <1>3, <1>6, <2>1, <2>2
<1>12. Saving = {r}
  BY DEF SaveUpdate
<1>13. \A s \in Slot : s # r => req[s].at \notin {"select", "update"}
  BY <1>12 DEF Saving
<1>14. /\ req'[r].at = "done" /\ req'[r].op = req[r].op /\ req'[r].driver = req[r].driver
       /\ \A s \in Slot : s # r => req'[s] = req[s]
  <2>1. PICK p : p = [q EXCEPT !.at = "done", !.ent = Placed, !.base = Placed]
    OBVIOUS
  <2>2. p.at = "done" /\ p.op = q.op /\ p.driver = q.driver
    BY <2>1 DEF Call
  <2>3. req' = [req EXCEPT ![r] = p]
    BY <1>1, <2>1 DEF SaveUpdate
  <2> QED
    BY <1>1, <1>2, <2>2, <2>3
<1> QED
  BY <1>1, <1>3, <1>6, <1>8, <1>9, <1>10, <1>11, <1>13, <1>14

(* What was written over stays written over.                               *)
LEMMA OverwrittenStays ==
  ASSUME overwritten, [DeliveryNext]_deliveryVars
  PROVE  overwritten'
<1>1. overwritten' = overwritten \/ \E r \in Slot : SaveUpdate(r)
  <2>1. ASSUME NEW r \in Slot, Press(r) PROVE overwritten' = overwritten
    BY <2>1 DEF Press, KitchenButton, AcceptButton, DropButton, PickupButton,
       DeliverButton, Begin
  <2> QED
    BY <2>1, DeliverySteps
       DEF deliveryVars, KitchenLoads, RecordPayment, Poll, PageLoads, Decline,
          ListPayments,
           CompletePayment, CallFails, FindOrder, SaveSelect, Answer
<1> QED
  BY <1>1 DEF SaveUpdate

(* Nobody is behind a stage the order has passed.                          *)
LEMMA CalmKept ==
  ASSUME DeliveryTypeOK, Calls, Calm, ~overwritten, [DeliveryNext]_deliveryVars,
         ~overwritten'
  PROVE  Calm'
<1>1. /\ order \in OrderRow /\ page \in [Driver -> Page] /\ req \in [Slot -> Call]
      /\ board \in [Driver -> Board] /\ kitchen \in Status
  BY DEF DeliveryTypeOK
<1>2. order.status \in Status /\ Stage(order.status) \in 1 .. 6
  BY <1>1, StageOf DEF OrderRow
<1>3. /\ Stage(kitchen) <= Stage(order.status)
      /\ \A c \in Driver :
           /\ board[c].mine # "NONE" => Stage(board[c].mine) <= Stage(order.status)
           /\ Stage(page[c].shown.status) <= Stage(order.status)
           /\ Mine(c)
  BY DEF Calm, ViewsAreNotAhead
<1>4. \A r \in Slot : InHand(req[r])
  BY DEF Calm
<1>5. ASSUME order' = order,
             \A r \in Slot : InHand(req'[r]),
             Stage(kitchen') <= Stage(order.status),
             \A c \in Driver : board'[c].mine # "NONE" =>
               Stage(board'[c].mine) <= Stage(order.status),
             \A c \in Driver :
               /\ Stage(page'[c].shown.status) <= Stage(order.status)
               /\ page'[c].at # "closed" => Stage(order.status) >= 5 /\ order.driver = c
               /\ page'[c].at \in {"listing", "completing", "success"} =>
                    order.status = "DELIVERED"
      PROVE  Calm'
  <2>1. \A r \in Slot : InHand(req[r])'
    BY <1>5 DEF InHand, ValidTransition
  <2>2. \A c \in Driver : Mine(c)'
    BY <1>5 DEF Mine
  <2> QED
    BY <1>5, <2>1, <2>2 DEF Calm, ViewsAreNotAhead
<1>6. CASE UNCHANGED deliveryVars \/ RecordPayment
  BY <1>3, <1>4, <1>5, <1>6 DEF deliveryVars, RecordPayment, Mine
<1>7. CASE KitchenLoads
  BY <1>2, <1>3, <1>4, <1>5, <1>7 DEF KitchenLoads, Mine
<1>8. ASSUME NEW c \in Driver, Poll(c) PROVE Calm'
  <2>1. \A d \in Driver : board'[d].mine # "NONE" => Stage(board'[d].mine) <= Stage(order.status)
    BY <1>1, <1>2, <1>3, <1>8 DEF Poll
  <2> QED
    BY <1>3, <1>4, <1>5, <1>8, <2>1 DEF Poll, Mine
<1>9. ASSUME NEW c \in Driver, Decline(c) PROVE Calm'
  <2>1. \A d \in Driver : board'[d].mine = board[d].mine
    BY <1>1, <1>9 DEF Decline, Board
  <2> QED
    BY <1>3, <1>4, <1>5, <1>9, <2>1 DEF Decline, Mine
<1>10. ASSUME NEW c \in Driver, PageLoads(c) PROVE Calm'
  <2>1. /\ page[c].at = "loading"
        /\ page'[c].at = "open" /\ page'[c].shown = order
        /\ \A d \in Driver : d # c => page'[d] = page[d]
    BY <1>1, <1>10 DEF PageLoads
  <2>2. \A d \in Driver :
          /\ Stage(page'[d].shown.status) <= Stage(order.status)
          /\ page'[d].at # "closed" => Stage(order.status) >= 5 /\ order.driver = d
          /\ page'[d].at \in {"listing", "completing", "success"} => order.status = "DELIVERED"
    BY <1>2, <1>3, <2>1 DEF Mine
  <2> QED
    BY <1>3, <1>4, <1>5, <1>10, <2>2 DEF PageLoads
<1>11. ASSUME NEW c \in Driver, ListPayments(c) \/ CompletePayment(c) PROVE Calm'
  <2>1. PICK a \in {"completing", "success"} : page' = [page EXCEPT ![c].at = a]
    BY <1>11 DEF ListPayments, CompletePayment
  <2>2. page[c].at \in {"listing", "completing"}
    BY <1>11 DEF ListPayments, CompletePayment
  <2>3. /\ page'[c].at = a /\ page'[c].shown = page[c].shown
        /\ \A d \in Driver : d # c => page'[d] = page[d]
    BY <1>1, <2>1 DEF Page
  <2>4. \A d \in Driver :
          /\ Stage(page'[d].shown.status) <= Stage(order.status)
          /\ page'[d].at # "closed" => Stage(order.status) >= 5 /\ order.driver = d
          /\ page'[d].at \in {"listing", "completing", "success"} => order.status = "DELIVERED"
    BY <1>3, <2>2, <2>3 DEF Mine
  <2> QED
    BY <1>3, <1>4, <1>5, <1>11, <2>4 DEF ListPayments, CompletePayment
<1>12. ASSUME NEW r \in Slot, Press(r) PROVE Calm'
  <2>1. PICK op \in Op, c \in Driver \cup {NoDriver} :
           /\ Begin(r, op, c)
           /\ kitchen' = kitchen /\ board' = board
           /\ \/ page' = page
              \/ page[c].at = "open" /\ page' = [page EXCEPT ![c].at = "calling"]
    BY <1>12, Pressing DEF Press
  <2>2. req'[r].at = "find" /\ \A s \in Slot : s # r => req'[s] = req[s]
    BY <2>1, Beginning
  <2>3. \A s \in Slot : InHand(req'[s])
    <3>1. InHand(req'[r])
      BY <2>2 DEF InHand
    <3> QED
      BY <1>4, <2>2, <3>1
  <2>4. \A d \in Driver :
          /\ page'[d].shown = page[d].shown
          /\ \/ page'[d].at = page[d].at
             \/ page[d].at = "open" /\ page'[d].at = "calling"
    BY <1>1, <2>1 DEF Page
  <2>5. \A d \in Driver :
          /\ Stage(page'[d].shown.status) <= Stage(order.status)
          /\ page'[d].at # "closed" => Stage(order.status) >= 5 /\ order.driver = d
          /\ page'[d].at \in {"listing", "completing", "success"} => order.status = "DELIVERED"
    BY <1>3, <2>4 DEF Mine
  <2> QED
    BY <1>3, <1>5, <2>1, <2>3, <2>5 DEF Begin
<1>13. ASSUME NEW r \in Slot, CallFails(r) \/ FindOrder(r) \/ SaveSelect(r) PROVE Calm'
  <2>1. PICK q \in Call : q = req[r]
    BY <1>1
  <2>2. InHand(q)
    BY <1>4, <2>1
  <2>3. InHand(req'[r])
    <3>1. CASE CallFails(r)
      <4>1. PICK p : p = [q EXCEPT !.at = "failed", !.ent = Placed, !.base = Placed]
        OBVIOUS
      <4>2. req'[r] = p /\ p.at = "failed"
        BY <1>1, <2>1, <3>1, <4>1 DEF CallFails, Call
      <4> QED
        BY <4>2 DEF InHand
    <3>2. CASE FindOrder(r) /\ ~ValidTransition(order.status, Goal(q.op))
      <4>1. PICK p : p = [q EXCEPT !.at = "failed"]
        OBVIOUS
      <4>2. req'[r] = p /\ p.at = "failed"
        BY <1>1, <2>1, <3>2, <4>1 DEF FindOrder, Call
      <4> QED
        BY <4>2 DEF InHand
    <3>3. CASE FindOrder(r) /\ ValidTransition(order.status, Goal(q.op))
      <4>1. PICK e : e = [status |-> Goal(q.op), driver |-> Named(q)]
        OBVIOUS
      <4>2. PICK p : p = [q EXCEPT !.at = "select", !.ent = e]
        OBVIOUS
      <4>3. p.at = "select" /\ p.op = q.op /\ p.driver = q.driver /\ p.ent = e
        BY <4>2 DEF Call
      <4>4. req'[r] = p
        BY <1>1, <2>1, <3>3, <4>1, <4>2 DEF FindOrder
      <4>5. /\ e.status = Goal(q.op)
            /\ q.op = "accept" => e.driver = q.driver
            /\ q.op \notin {"accept", "pickup"} => e.driver = order.driver
        BY <4>1 DEF Named
      <4> QED
        BY <3>3, <4>3, <4>4, <4>5 DEF InHand
    <3>4. CASE SaveSelect(r)
      <4>1. PICK p : p = [q EXCEPT !.at = "update", !.base = order]
        OBVIOUS
      <4>2. /\ p.at = "update" /\ p.op = q.op /\ p.driver = q.driver /\ p.ent = q.ent
            /\ p.base = order
        BY <4>1 DEF Call
      <4>3. req'[r] = p /\ q.at = "select"
        BY <1>1, <2>1, <3>4, <4>1 DEF SaveSelect
      <4> QED
        BY <2>2, <4>2, <4>3 DEF InHand
    <3> QED
      BY <1>13, <3>1, <3>2, <3>3, <3>4
  <2>4. \A s \in Slot : s # r => req'[s] = req[s]
    BY <1>13, Serving
  <2>5. \A s \in Slot : InHand(req'[s])
    BY <1>4, <2>3, <2>4
  <2>6. UNCHANGED <<order, kitchen, board, page>>
    BY <1>13 DEF CallFails, FindOrder, SaveSelect
  <2> QED
    BY <1>3, <1>5, <2>5, <2>6 DEF Mine
<1>14. ASSUME NEW r \in Slot, Answer(r) PROVE Calm'
  <2>1. PICK q \in Call : q = req[r]
    BY <1>1
  <2>2. /\ InHand(q) /\ order' = order
        /\ req'[r].at = "idle" /\ \A s \in Slot : s # r => req'[s] = req[s]
    BY <1>1, <1>4, <1>14, <2>1, IdleSlot DEF Answer
  <2>3. \A s \in Slot : InHand(req'[s])
    <3>1. InHand(req'[r])
      BY <2>2 DEF InHand
    <3> QED
      BY <1>4, <2>2, <3>1
  <2>4. /\ q.at = "done" /\ q.op \in {"accept", "pickup"} => Stage(order.status) >= 5
        /\ q.at = "done" /\ q.op = "accept" => order.driver = q.driver
        /\ q.at = "done" /\ q.op = "deliver" => order.status = "DELIVERED"
    BY <1>2, <2>2, Stages, StageOf DEF InHand, Goal
  <2>5. Stage(kitchen') <= Stage(order.status)
    <3>1. kitchen' = kitchen \/ (q.at = "done" /\ kitchen' = Goal(q.op))
      BY <1>14, <2>1, Answering
    <3> QED
      BY <1>3, <2>2, <3>1 DEF InHand
  <2>6. \A c \in Driver : board'[c].mine # "NONE" => Stage(board'[c].mine) <= Stage(order.status)
    <3>1. \A c \in Driver : board'[c].mine \in {board[c].mine, "NONE"}
      BY <1>14, Answering
    <3> QED
      BY <1>3, <3>1
  <2>7. ASSUME NEW c \in Driver
        PROVE  /\ Stage(page'[c].shown.status) <= Stage(order.status)
               /\ page'[c].at # "closed" => Stage(order.status) >= 5 /\ order.driver = c
               /\ page'[c].at \in {"listing", "completing", "success"} =>
                    order.status = "DELIVERED"
    <3>1. /\ Stage(page[c].shown.status) <= Stage(order.status)
          /\ page[c].at # "closed" => Stage(order.status) >= 5 /\ order.driver = c
          /\ page[c].at \in {"listing", "completing", "success"} => order.status = "DELIVERED"
      BY <1>3 DEF Mine
    <3>2. \/ page'[c] = page[c]
          \/ /\ q.at = "done" /\ q.op = "accept" /\ q.driver = c
             /\ page'[c].at = "loading" /\ page'[c].shown = page[c].shown
          \/ /\ page[c].at = "calling"
             /\ \/ page'[c].at = "open" /\ page'[c].shown = page[c].shown
                \/ /\ q.at = "done" /\ q.op = "deliver"
                   /\ page'[c].at = "listing" /\ page'[c].shown = page[c].shown
                \/ /\ q.at = "done" /\ q.op = "pickup"
                   /\ page'[c].at = "open" /\ page'[c].shown.status = "OUT_FOR_DELIVERY"
      BY <1>14, <2>1, Answering
    <3>3. Stage("OUT_FOR_DELIVERY") = 5
      BY Stages
    <3> QED
      BY <1>2, <2>4, <3>1, <3>2, <3>3
  <2> QED
    BY <1>5, <2>2, <2>3, <2>5, <2>6, <2>7
<1>15. ASSUME NEW r \in Slot, SaveUpdate(r) PROVE Calm'
  <2>1. PICK q \in Call : q = req[r]
    BY <1>1
  <2>2. /\ order'.status = Goal(q.op)
        /\ Stage(order'.status) = Stage(order.status) + 1
        /\ order.status # "DELIVERED"
        /\ \/ /\ q.op = "accept" /\ order.status = "READY_FOR_PICKUP"
              /\ order'.driver = q.driver
           \/ q.op # "accept" /\ order'.driver = order.driver
        /\ \A s \in Slot : s # r => req[s].at \notin {"select", "update"}
        /\ req'[r].at = "done" /\ req'[r].op = q.op /\ req'[r].driver = q.driver
        /\ \A s \in Slot : s # r => req'[s] = req[s]
    BY <1>15, <2>1, UndisturbedSave
  <2>3. PICK n \in 1 .. 6 : n = Stage(order.status)
    BY <1>2
  <2>4. Stage(order'.status) = n + 1
    BY <2>2, <2>3
  <2>5. order.status = "READY_FOR_PICKUP" => n = 4
    BY <2>3, Stages
  <2>6. kitchen' = kitchen /\ board' = board /\ page' = page
    BY <1>15 DEF SaveUpdate
  <2>7. \A x \in Status : Stage(x) <= n => Stage(x) <= n + 1
    BY StageOf
  <2>8. \A s \in Slot : InHand(req[s])'
    <3>1. InHand(req[r])'
      BY <2>2, StageOf, <1>2, <2>3 DEF InHand
    <3>2. ASSUME NEW s \in Slot, s # r PROVE InHand(req[s])'
      <4>1. PICK p \in Call : p = req[s] /\ p = req'[s]
        BY <1>1, <2>2, <3>2
      <4>2. p.at \notin {"select", "update"}
        BY <2>2, <3>2, <4>1
      <4>3. CASE p.at = "done"
        <5>1. Stage(Goal(p.op)) <= n /\ (p.op = "accept" => order.driver = p.driver)
          BY <1>4, <2>3, <4>1, <4>3 DEF InHand
        <5>2. Stage(Goal(p.op)) <= n + 1
          BY <2>7, <5>1, StageOf
        <5>3. p.op = "accept" => n >= 5
          BY <5>1, Stages DEF Goal
        <5>4. p.op = "accept" => order'.driver = p.driver
          BY <2>2, <2>5, <5>1, <5>3
        <5> QED
          BY <2>4, <4>1, <4>3, <5>2, <5>4 DEF InHand
      <4> QED
        BY <4>1, <4>2, <4>3 DEF InHand
    <3> QED
      BY <3>1, <3>2
  <2>9. ASSUME NEW c \in Driver PROVE Mine(c)'
    <3>1. /\ page[c].at # "closed" => n >= 5 /\ order.driver = c
          /\ page[c].at \in {"listing", "completing", "success"} => order.status = "DELIVERED"
      BY <1>3, <2>3 DEF Mine
    <3> QED
      BY <2>2, <2>4, <2>5, <2>6, <3>1 DEF Mine
  <2>10. ViewsAreNotAhead'
    <3>1. Stage(kitchen) <= n + 1
      BY <1>1, <1>3, <2>3, <2>7
    <3>2. ASSUME NEW c \in Driver
          PROVE  /\ board[c].mine # "NONE" => Stage(board[c].mine) <= n + 1
                 /\ Stage(page[c].shown.status) <= n + 1
      <4>1. board[c].mine # "NONE" => board[c].mine \in Status
        BY <1>1 DEF Board
      <4>2. page[c].shown.status \in Status
        BY <1>1 DEF Page, OrderRow
      <4>3. /\ board[c].mine # "NONE" => Stage(board[c].mine) <= n
            /\ Stage(page[c].shown.status) <= n
        BY <1>3, <2>3
      <4> QED
        BY <2>7, <4>1, <4>2, <4>3
    <3> QED
      BY <2>4, <2>6, <3>1, <3>2 DEF ViewsAreNotAhead
  <2> QED
    BY <2>8, <2>9, <2>10 DEF Calm
<1> QED
  BY <1>6, <1>7, <1>8, <1>9, <1>10, <1>11, <1>12, <1>13, <1>14, <1>15, DeliverySteps

(* Cash is booked behind a delivery that is done.                          *)
AtTheDoor == payment.status = "COMPLETED" => overwritten \/ order.status = "DELIVERED"

(* A booked payment stays behind a delivery that is done.                  *)
LEMMA AtTheDoorKept ==
  ASSUME DeliveryIInv, [DeliveryNext]_deliveryVars
  PROVE  AtTheDoor'
<1> USE DEF DeliveryIInv
<1>1. CASE overwritten
  BY <1>1, OverwrittenStays DEF AtTheDoor
<1>2. CASE ~overwritten
  <2>1. Calm
    BY <1>2
  <2>2. ASSUME payment' = payment \/ payment'.status # "COMPLETED", order' = order
        PROVE  AtTheDoor'
    BY <1>2, <2>2 DEF AtTheDoor
  <2>3. CASE UNCHANGED deliveryVars \/ KitchenLoads \/ RecordPayment
    BY <2>2, <2>3 DEF deliveryVars, KitchenLoads, RecordPayment
  <2>4. ASSUME NEW c \in Driver, Poll(c) \/ PageLoads(c) \/ Decline(c) \/ ListPayments(c)
        PROVE  AtTheDoor'
    BY <2>2, <2>4 DEF Poll, PageLoads, Decline, ListPayments
  <2>5. ASSUME NEW c \in Driver, CompletePayment(c) PROVE AtTheDoor'
    <3>1. order.status = "DELIVERED" /\ order' = order
      BY <2>1, <2>5 DEF CompletePayment, Calm, Mine
    <3> QED
      BY <3>1 DEF AtTheDoor
  <2>6. ASSUME NEW r \in Slot, Press(r) PROVE AtTheDoor'
    <3>1. order' = order /\ payment' = payment
      BY <2>6 DEF Press, KitchenButton, AcceptButton, DropButton, PickupButton,
         DeliverButton,
                  Begin
    <3> QED
      BY <2>2, <3>1
  <2>7. ASSUME NEW r \in Slot, CallFails(r) \/ FindOrder(r) \/ SaveSelect(r) \/ Answer(r)
        PROVE  AtTheDoor'
    BY <2>2, <2>7 DEF CallFails, FindOrder, SaveSelect, Answer
  <2>8. ASSUME NEW r \in Slot, SaveUpdate(r) PROVE AtTheDoor'
    <3>1. payment' = payment
      BY <2>8 DEF SaveUpdate
    <3>2. ~overwritten' => order.status # "DELIVERED"
      BY <2>1, <2>8, UndisturbedSave
    <3> QED
      BY <1>2, <3>1, <3>2 DEF AtTheDoor
  <2> QED
    BY <2>3, <2>4, <2>5, <2>6, <2>7, <2>8, DeliverySteps
<1> QED
  BY <1>1, <1>2

(* The order was placed and nobody has done anything yet.                  *)
LEMMA DeliveryStarts == DeliveryInit => DeliveryIInv
<1> SUFFICES ASSUME DeliveryInit PROVE DeliveryIInv
  OBVIOUS
<1>1. DeliveryTypeOK
  <2>1. page \in [Driver -> Page] /\ req \in [Slot -> Call] /\ order \in OrderRow
    BY IdleSlot DEF DeliveryInit
  <2>2. board \in [Driver -> Board] /\ payment \in Payment /\ kitchen \in Status
    BY Stages DEF DeliveryInit, Board, Payment
  <2> QED
    BY <2>1, <2>2 DEF DeliveryInit, DeliveryTypeOK
<1>2. /\ \A r \in Slot : req[r].at = "idle"
      /\ \A c \in Driver : page[c].at = "closed" /\ page[c].shown = order
      /\ \A c \in Driver : board[c].mine = "NONE"
      /\ kitchen = order.status /\ order.status = "PENDING"
      /\ payment = [method |-> "NONE", status |-> "NONE"]
  BY IdleSlot DEF DeliveryInit
<1>3. Calls
  BY <1>2 DEF Calls
<1>4. Booked
  BY <1>2 DEF Booked, Payments
<1>5. Stage(order.status) <= Stage(order.status)
  BY <1>2, Stages
<1>6. ViewsAreNotAhead
  BY <1>2, <1>5 DEF ViewsAreNotAhead
<1>7. \A c \in Driver : Mine(c)
  BY <1>2 DEF Mine
<1>8. \A r \in Slot : InHand(req[r])
  BY <1>2 DEF InHand
<1> QED
  BY <1>1, <1>2, <1>3, <1>4, <1>6, <1>7, <1>8 DEF DeliveryIInv, Calm

(* Every reachable state of the order and its apps is as described.        *)
LEMMA DeliveryInductive == DeliverySpec => []DeliveryIInv
<1>1. DeliveryIInv /\ [DeliveryNext]_deliveryVars => DeliveryIInv'
  <2> SUFFICES ASSUME DeliveryIInv, [DeliveryNext]_deliveryVars PROVE DeliveryIInv'
    OBVIOUS
  <2>1. DeliveryTypeOK' /\ Calls' /\ Booked'
    BY DeliveryTypes, CallsKept, BookedKept DEF DeliveryIInv
  <2>2. AtTheDoor'
    BY AtTheDoorKept
  <2>3. overwritten' \/ Calm'
    BY OverwrittenStays, CalmKept DEF DeliveryIInv
  <2> QED
    BY <2>1, <2>2, <2>3 DEF DeliveryIInv, AtTheDoor
<1> QED
  BY <1>1, DeliveryStarts, PTL DEF DeliverySpec

(* Nobody is ahead of the order: not the views, not a success screen, not  *)
(* the cash behind it.                                                     *)
THEOREM NobodyIsAhead == DeliverySpec => []DeliveryInv
<1>1. DeliveryIInv => DeliveryInv
  <2> SUFFICES ASSUME DeliveryIInv PROVE DeliveryInv
    OBVIOUS
  <2>1. DeliveryTypeOK /\ Booked /\ (overwritten \/ Calm)
        /\ (payment.status = "COMPLETED" => overwritten \/ order.status = "DELIVERED")
    BY DEF DeliveryIInv
  <2>2. ViewsAreNotAhead
    BY <2>1 DEF Calm, ViewsAreNotAhead
  <2>3. DoneIsMine
    <3>1. order = [status |-> order.status, driver |-> order.driver]
      BY <2>1 DEF DeliveryTypeOK, OrderRow
    <3> QED
      BY <2>1, <3>1 DEF Calm, Mine, DoneIsMine
  <2>4. PaidAtTheDoor
    BY <2>1 DEF PaidAtTheDoor, Booked, Payments
  <2>5. SuccessIsSettled
    BY <2>1 DEF SuccessIsSettled, Booked
  <2> QED
    BY <2>1, <2>2, <2>3, <2>4, <2>5 DEF DeliveryInv
<1> QED
  BY <1>1, DeliveryInductive, PTL

(* As long as no call writes over another, the apps move the order one     *)
(* stage at a time along the life that order-service promises.             *)
THEOREM AppsFollowLifecycle == DeliverySpec => UndisturbedFollowsLifecycle
<1>1. DeliveryIInv /\ [DeliveryNext]_deliveryVars
        => [overwritten' \/ L!Step("order") \/ order' = order]_deliveryVars
  <2> SUFFICES ASSUME DeliveryIInv, [DeliveryNext]_deliveryVars, ~overwritten', order' # order
               PROVE  L!Step("order")
    OBVIOUS
  <2>1. PICK r \in Slot : SaveUpdate(r)
    <3>1. ASSUME NEW r \in Slot, Press(r) PROVE order' = order
      BY <3>1 DEF Press, KitchenButton, AcceptButton, DropButton, PickupButton,
         DeliverButton,
                  Begin
    <3> QED
      BY <3>1, DeliverySteps
         DEF deliveryVars, KitchenLoads, RecordPayment, Poll, PageLoads, Decline,
            ListPayments,
             CompletePayment, CallFails, FindOrder, SaveSelect, Answer
  <2>2. DeliveryTypeOK /\ Calls /\ Calm
    BY OverwrittenStays DEF DeliveryIInv
  <2>3. /\ Stage(order'.status) = Stage(order.status) + 1
        /\ \/ order.status = "READY_FOR_PICKUP" /\ \E d \in Driver : order'.driver = d
           \/ order'.driver = order.driver /\ order'.status # "OUT_FOR_DELIVERY"
    BY <2>1, <2>2, UndisturbedSave
  <2>4. order.status \in Status /\ order'.status \in Status
    BY <2>2, DeliveryTypes DEF DeliveryIInv, DeliveryTypeOK, OrderRow
  <2>5. PICK i \in 1 .. 5 : i = Stage(order.status) /\ i + 1 = Stage(order'.status)
    BY <2>3, <2>4, StageOf
  <2>6. order.status = L!Pipeline[i] /\ order'.status = L!Pipeline[i + 1]
    <3>1. i \in {1, 2, 3, 4, 5}
      BY <2>5
    <3> QED
      BY <2>4, <2>5, <3>1, Stages, StageOf DEF L!Pipeline
  <2>7. [o \in {"order"} |-> order'.status]
          = [[o \in {"order"} |-> order.status] EXCEPT !["order"] = L!Pipeline[i + 1]]
    BY <2>6
  <2>8. CASE i = 4
    <3>1. order.status = "READY_FOR_PICKUP"
      BY <2>4, <2>5, <2>8, Stages, StageOf
    <3>2. order'.status = "OUT_FOR_DELIVERY"
      BY <2>4, <2>5, <2>8, Stages, StageOf
    <3>3. PICK d \in Driver : order'.driver = d
      BY <2>3, <3>2
    <3>4. [o \in {"order"} |-> order'.driver]
            = [[o \in {"order"} |-> order.driver] EXCEPT !["order"] = d]
      BY <3>3
    <3> QED
      BY <2>6, <2>7, <2>8, <3>4 DEF L!Step, L!Advance
  <2>9. CASE i # 4
    <3>1. order.status # "READY_FOR_PICKUP"
      BY <2>5, <2>9, Stages
    <3>2. order'.driver = order.driver
      BY <2>3, <3>1
    <3> QED
      BY <2>6, <2>7, <2>9, <3>2 DEF L!Step, L!Advance
  <2> QED
    BY <2>8, <2>9
<1> QED
  BY <1>1, DeliveryInductive, PTL DEF DeliverySpec, UndisturbedFollowsLifecycle
=============================================================================
