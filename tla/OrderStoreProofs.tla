-------------------------- MODULE OrderStoreProofs --------------------------
(***************************************************************************)
(* What OrderStore's runs check on a few handlers and orders, proved for   *)
(* any number of them: types, that the handler alone on an order knows its *)
(* row and its cart, that it follows OrderLifecycle, which the service     *)
(* implements for such orders, and that one courier is told it took the    *)
(* order.  Then the pages that only show orders, for any number of orders  *)
(* and reads.                                                              *)
(***************************************************************************)
EXTENDS MCOrderStore, FiniteSetTheorems, TLAPS

(* A transition the table allows leads to a status of the enumeration.     *)
LEMMA TableType == ValidTransitions \subseteq Status \X Status
  BY DEF ValidTransitions, TransitionTable, Status

(* An allowed command makes a row of a row.                                *)
LEMMA AfterCommandType ==
  ASSUME NEW c \in Command \cup {PlaceCommand}, NEW e \in Row, Allowed(c, e)
  PROVE  AfterCommand(c, e) \in Row
<1>1. c.driver \in DriverOrNull
  BY DEF Command, PlaceCommand, DriverOrNull
<1>2. c.op # "updateOrder" => NewStatus(c.op) \in Status
  BY TableType DEF Allowed
<1> QED
  BY <1>1, <1>2 DEF AfterCommand, Row

(* What a save writes over a row is a row.                                 *)
LEMMA ChangedColumnsType ==
  ASSUME NEW e \in Row, NEW b \in Row, NEW current \in Row
  PROVE  ChangedColumns(e, b, current) \in Row
  BY DEF ChangedColumns, Row

(* A handler that ends leaves the types of its slot alone.                 *)
LEMMA FinishType ==
  ASSUME TypeOK, NEW r \in Request, Finish(r)
  PROVE  /\ pc' \in [Request -> Step]
         /\ target' \in [Request -> Order \cup {NoOrder}]
         /\ \A s \in Request : pc'[s] # "idle" => target'[s] \in Order
         /\ command' \in [Request -> Command \cup {PlaceCommand}]
         /\ ent' \in [Request -> Row]
         /\ base' \in [Request -> Row]
         /\ cart' \in [Request -> Nat]
         /\ started' \in Nat
  BY DEF TypeOK, Finish, Step, Row, Absent, DriverOrNull

(* A handler that goes on leaves the types of its slot alone.              *)
LEMMA GoToType ==
  ASSUME TypeOK, NEW r \in Request, NEW step \in Step, pc[r] # "idle", GoTo(r, step)
  PROVE  /\ pc' \in [Request -> Step]
         /\ target' \in [Request -> Order \cup {NoOrder}]
         /\ \A s \in Request : pc'[s] # "idle" => target'[s] \in Order
         /\ command' \in [Request -> Command \cup {PlaceCommand}]
         /\ started' \in Nat
  BY DEF TypeOK, GoTo

(* A handler that starts leaves the types of its slot alone.               *)
LEMMA StartType ==
  ASSUME TypeOK, NEW r \in Request, NEW o \in Order,
         NEW c \in Command \cup {PlaceCommand}, NEW step \in Step, Start(r, o, c, step)
  PROVE  /\ pc' \in [Request -> Step]
         /\ target' \in [Request -> Order \cup {NoOrder}]
         /\ \A s \in Request : pc'[s] # "idle" => target'[s] \in Order
         /\ command' \in [Request -> Command \cup {PlaceCommand}]
         /\ started' \in Nat
         /\ disturbed' \in SUBSET Order
  BY DEF TypeOK, Start

(* The empty tables are well typed.                                        *)
LEMMA TypeOKInit == Init => TypeOK
  BY DEF Init, TypeOK, Row, Absent, Step, DriverOrNull

(* Every step of a handler keeps the types.                                *)
LEMMA TypeOKNext == TypeOK /\ [Next]_vars => TypeOK'
<1> SUFFICES ASSUME TypeOK, [Next]_vars PROVE TypeOK'
  OBVIOUS
<1>1. ASSUME NEW r \in Request, NEW o \in Order, PlaceOrder(r, o) PROVE TypeOK'
  <2>1. PlaceCommand \in Command \cup {PlaceCommand} /\ "deleteItems" \in Step
    BY DEF Step
  <2>2. [status |-> "PENDING", driver |-> NoDriver] \in Row
    BY DEF Row, Status, DriverOrNull
  <2> QED
    BY <1>1, <2>1, <2>2, StartType DEF TypeOK, PlaceOrder
<1>2. ASSUME NEW r \in Request, NEW o \in Order, NEW c \in Command, FindOrder(r, o, c)
      PROVE TypeOK'
  <2>1. "findItems" \in Step
    BY DEF Step
  <2> QED
    BY <1>2, <2>1, StartType DEF TypeOK, FindOrder, tables
<1>3. ASSUME NEW r \in Request, RunCommand(r) PROVE TypeOK'
  <2>1. target[r] \in Order /\ pc[r] # "idle"
    BY <1>3 DEF RunCommand, TypeOK
  <2>2. CASE command[r].op = "softDelete"
    <3>1. GoTo(r, "softDelete") /\ UNCHANGED <<memory, tables, served, disturbed>>
      BY <1>3, <2>2 DEF RunCommand
    <3>2. "softDelete" \in Step
      BY DEF Step
    <3> QED
      BY <2>1, <3>1, <3>2, GoToType DEF TypeOK, memory, tables
  <2>3. CASE command[r].op # "softDelete" /\ Allowed(command[r], ent[r])
    <3>1. /\ ent' = [ent EXCEPT ![r] = AfterCommand(command[r], ent[r])]
          /\ cart' = [cart EXCEPT ![r] = items[target[r]]]
          /\ GoTo(r, "select")
          /\ UNCHANGED <<base, tables, served, disturbed>>
      BY <1>3, <2>3 DEF RunCommand
    <3>2. AfterCommand(command[r], ent[r]) \in Row
      BY <2>3, AfterCommandType DEF TypeOK
    <3>3. "select" \in Step
      BY DEF Step
    <3> QED
      BY <2>1, <3>1, <3>2, <3>3, GoToType DEF TypeOK, tables
  <2>4. CASE command[r].op # "softDelete" /\ ~Allowed(command[r], ent[r])
    <3>1. Finish(r) /\ UNCHANGED <<tables, served, disturbed>>
      BY <1>3, <2>4 DEF RunCommand
    <3> QED
      BY <3>1, FinishType DEF TypeOK, tables
  <2> QED
    BY <2>2, <2>3, <2>4
<1>4. ASSUME NEW r \in Request, SaveSelect(r) PROVE TypeOK'
  <2>1. "update" \in Step /\ target[r] \in Order /\ pc[r] # "idle"
    BY <1>4 DEF Step, SaveSelect, TypeOK
  <2> QED
    BY <1>4, <2>1, GoToType DEF TypeOK, SaveSelect, tables
<1>5. ASSUME NEW r \in Request, SaveUpdate(r) PROVE TypeOK'
  <2>1. "deleteItems" \in Step /\ target[r] \in Order /\ pc[r] # "idle"
    BY <1>5 DEF Step, SaveUpdate, TypeOK
  <2>2. ChangedColumns(ent[r], base[r], row[target[r]]) \in Row
    BY <2>1, ChangedColumnsType DEF TypeOK
  <2> QED
    BY <1>5, <2>1, <2>2, GoToType DEF TypeOK, SaveUpdate, memory
<1>6. ASSUME NEW r \in Request, DeleteItems(r) PROVE TypeOK'
  <2>1. "insertItems" \in Step /\ target[r] \in Order /\ pc[r] # "idle"
    BY <1>6 DEF Step, DeleteItems, TypeOK
  <2> QED
    BY <1>6, <2>1, GoToType DEF TypeOK, DeleteItems, memory
<1>7. ASSUME NEW r \in Request, InsertItems(r) PROVE TypeOK'
  <2>1. target[r] \in Order
    BY <1>7 DEF InsertItems, TypeOK
  <2>2. items' \in [Order -> Nat]
    BY <1>7, <2>1 DEF InsertItems, TypeOK
  <2>3. served' \in [Order -> SUBSET Driver]
    <3>1. command[r].op = "markOutForDelivery" => command[r].driver \in Driver
      BY DEF TypeOK, Command, PlaceCommand, Transitioning
    <3> QED
      BY <1>7, <2>1, <3>1 DEF InsertItems, TypeOK
  <2> QED
    BY <1>7, <2>2, <2>3, FinishType DEF InsertItems, TypeOK
<1>8. ASSUME NEW r \in Request, SoftDelete(r) PROVE TypeOK'
  <2>1. target[r] \in Order
    BY <1>8 DEF SoftDelete, TypeOK
  <2> QED
    BY <1>8, <2>1, FinishType DEF SoftDelete, TypeOK
<1>9. ASSUME NEW r \in Request, Abort(r) PROVE TypeOK'
  <2>1. target[r] \in Order
    BY <1>9 DEF Abort, TypeOK
  <2> QED
    BY <1>9, <2>1, FinishType DEF Abort, TypeOK, tables
<1>10. CASE UNCHANGED vars
  BY <1>10 DEF vars, TypeOK
<1> QED
  BY <1>1, <1>2, <1>3, <1>4, <1>5, <1>6, <1>7, <1>8, <1>9, <1>10 DEF Next

(* Every reachable state is well typed: no query of any interleaving puts  *)
(* a status outside the enumeration, or no courier id, into a column.      *)
THEOREM TypeCorrect == Spec => []TypeOK
  BY TypeOKInit, TypeOKNext, PTL DEF Spec

-----------------------------------------------------------------------------
(* Coherent is inductive.  A step of handler r works on one order o; the   *)
(* other orders and the other handlers are left as they are.               *)

SlotsKept(r) ==
  \A s \in Request \ {r} :
    /\ pc'[s] = pc[s] /\ target'[s] = target[s] /\ command'[s] = command[s]
    /\ ent'[s] = ent[s] /\ base'[s] = base[s] /\ cart'[s] = cart[s]

OrderKept(p) == row'[p] = row[p] /\ items'[p] = items[p] /\ served'[p] = served[p]

WorksOn(r, o) ==
  /\ SlotsKept(r)
  /\ target[r] \in {o, NoOrder}
  /\ target'[r] \in {o, NoOrder}
  /\ pc'[r] = "idle" => target'[r] = NoOrder
  /\ \A p \in Order \ {o} : OrderKept(p)
  /\ disturbed \subseteq disturbed'
  /\ o \notin disturbed' => OrderCoherent(o)'

(* Handlers of other orders keep what they know of theirs.                 *)
LEMMA CoherentFrame ==
  ASSUME TypeOK, Coherent, NEW r \in Request, NEW o \in Order, WorksOn(r, o)
  PROVE  Coherent'
<1>1. ASSUME NEW s \in Request, pc'[s] = "idle" PROVE target'[s] = NoOrder
  BY <1>1 DEF WorksOn, SlotsKept, Coherent
<1>2. ASSUME NEW p \in Order \ disturbed', p # o PROVE OrderCoherent(p)'
  <2>1. OrderCoherent(p) /\ OrderKept(p)
    BY <1>2 DEF Coherent, WorksOn
  <2>2. p # NoOrder
    BY NullAssumption
  <2>3. \A s \in Request : target'[s] = p <=> target[s] = p
    BY <1>2, <2>2 DEF WorksOn, SlotsKept
  <2>4. \A s \in Request : target'[s] = p => s # r
    BY <1>2, <2>2 DEF WorksOn
  <2>5. ASSUME NEW s \in Request, target'[s] = p PROVE HandlerCoherent(s, p)'
    <3>1. HandlerCoherent(s, p)
      BY <2>1, <2>3, <2>5 DEF OrderCoherent
    <3>2. /\ pc'[s] = pc[s] /\ command'[s] = command[s] /\ ent'[s] = ent[s]
          /\ base'[s] = base[s] /\ cart'[s] = cart[s]
      BY <2>4, <2>5 DEF WorksOn, SlotsKept
    <3> QED
      BY <2>1, <3>1, <3>2 DEF HandlerCoherent, OrderKept
  <2>6. Busy(p)' <=> Busy(p)
    BY <2>3 DEF Busy
  <2> QED
    BY <2>1, <2>3, <2>5, <2>6 DEF OrderCoherent, OrderKept
<1> QED
  BY <1>1, <1>2 DEF Coherent, WorksOn

(* The handler on an undisturbed order is alone there.                     *)
LEMMA Alone ==
  ASSUME TypeOK, Coherent, NEW r \in Request, pc[r] # "idle", target[r] \notin disturbed
  PROVE  /\ target[r] \in Order
         /\ OrderCoherent(target[r])
         /\ HandlerCoherent(r, target[r])
         /\ \A s \in Request : target[s] = target[r] => s = r
  BY DEF TypeOK, Coherent, OrderCoherent

(* A method that transitionTo lets through changes the status along the    *)
(* table and never back to "NONE".                                         *)
LEMMA AllowedEdge ==
  ASSUME NEW c \in Command \cup {PlaceCommand}, NEW e \in Row, Allowed(c, e),
         e.status # "NONE"
  PROVE  /\ AfterCommand(c, e).status # "NONE"
         /\ c.op = "updateOrder" => AfterCommand(c, e).status = e.status
         /\ c.op # "updateOrder" =>
              <<e.status, AfterCommand(c, e).status>> \in ValidTransitions
         /\ c.op = "markOutForDelivery" =>
              AfterCommand(c, e).status = "OUT_FOR_DELIVERY"
<1>1. c.op = "markOutForDelivery" => NewStatus(c.op) = "OUT_FOR_DELIVERY"
  BY DEF NewStatus
<1>2. \A x \in ValidTransitions : x[2] # "NONE"
  BY DEF ValidTransitions, TransitionTable
<1> QED
  BY <1>1, <1>2 DEF AfterCommand, Allowed

(* A save whose select and update saw the same row writes the order in     *)
(* memory.                                                                 *)
LEMMA FullWrite ==
  ASSUME NEW e \in Row, NEW b \in Row
  PROVE  ChangedColumns(e, b, b) = e
  BY DEF ChangedColumns, Row

(* No handler knows anything at first.                                     *)
LEMMA CoherentInit == Init => Coherent
  BY NullAssumption DEF Init, Coherent, OrderCoherent, HandlerCoherent, Busy, Absent

(* A handler that places an order is alone on a fresh one.                 *)
LEMMA CoherentPlaceOrder ==
  ASSUME TypeOK, Coherent, NEW r \in Request, NEW o \in Order, PlaceOrder(r, o)
  PROVE  Coherent'
<1>1. target[r] = NoOrder /\ target'[r] = o /\ pc'[r] = "deleteItems"
  BY DEF Coherent, PlaceOrder, Start, TypeOK
<1>2. o \notin disturbed' => OrderCoherent(o)'
  <2> SUFFICES ASSUME o \notin disturbed' PROVE OrderCoherent(o)'
    OBVIOUS
  <2>1. o \notin disturbed /\ ~Busy(o)
    BY DEF PlaceOrder, Start
  <2>2. OrderCoherent(o)
    BY <2>1 DEF Coherent
  <2>3. \A s \in Request : target'[s] = o => s = r
    BY <2>1 DEF Busy, PlaceOrder, Start, TypeOK
  <2>4. row'[o].status = "PENDING" /\ served'[o] = served[o]
    BY DEF PlaceOrder, TypeOK
  <2>5. served[o] = {}
    BY <2>2 DEF PlaceOrder, OrderCoherent, Absent
  <2>6. HandlerCoherent(r, o)'
    BY <1>1, <2>4 DEF PlaceOrder, Start, TypeOK, HandlerCoherent, PlaceCommand
  <2>7. Busy(o)'
    BY <1>1 DEF Busy
  <2> QED
    BY <2>3, <2>4, <2>5, <2>6, <2>7 DEF OrderCoherent
<1>3. SlotsKept(r) /\ (\A p \in Order \ {o} : OrderKept(p)) /\ disturbed \subseteq disturbed'
  BY DEF PlaceOrder, Start, SlotsKept, OrderKept, TypeOK
<1> QED
  BY <1>1, <1>2, <1>3, CoherentFrame DEF WorksOn

(* A handler that found its order has read the row as it is.               *)
LEMMA CoherentFindOrder ==
  ASSUME TypeOK, Coherent, NEW r \in Request, NEW o \in Order, NEW c \in Command,
         FindOrder(r, o, c)
  PROVE  Coherent'
<1>1. target[r] = NoOrder /\ target'[r] = o /\ pc'[r] = "findItems"
  BY DEF Coherent, FindOrder, Start, TypeOK
<1>2. o \notin disturbed' => OrderCoherent(o)'
  <2> SUFFICES ASSUME o \notin disturbed' PROVE OrderCoherent(o)'
    OBVIOUS
  <2>1. o \notin disturbed /\ ~Busy(o)
    BY DEF FindOrder, Start
  <2>2. OrderCoherent(o)
    BY <2>1 DEF Coherent
  <2>3. \A s \in Request : target'[s] = o => s = r
    BY <2>1 DEF Busy, FindOrder, Start, TypeOK
  <2>4. /\ row' = row /\ items' = items /\ served' = served
        /\ ent'[r] = row[o] /\ command'[r].op # "placeOrder"
    BY DEF FindOrder, Start, TypeOK, tables, Command, Transitioning
  <2>5. row[o].status # "NONE" /\ items[o] = 1
    BY <2>1, <2>2 DEF FindOrder, OrderCoherent
  <2>6. HandlerCoherent(r, o)'
    BY <1>1, <2>4, <2>5 DEF HandlerCoherent
  <2>7. Busy(o)'
    BY <1>1 DEF Busy
  <2> QED
    BY <2>2, <2>3, <2>4, <2>6, <2>7 DEF OrderCoherent
<1>3. SlotsKept(r) /\ (\A p \in Order \ {o} : OrderKept(p)) /\ disturbed \subseteq disturbed'
  BY DEF FindOrder, Start, SlotsKept, OrderKept, TypeOK, tables
<1> QED
  BY <1>1, <1>2, <1>3, CoherentFrame DEF WorksOn

(* A step that keeps the handler on its order keeps it the only one there. *)
LEMMA StaysOnOrder ==
  ASSUME TypeOK, Coherent, NEW r \in Request, NEW o \in Order, pc[r] # "idle",
         target[r] = o, target'[r] = o, SlotsKept(r), o \notin disturbed,
         row'[o].status = "NONE" => row'[o] = Absent,
         HandlerCoherent(r, o)',
         served'[o] # {} =>
           row'[o].status \in {"OUT_FOR_DELIVERY", "DELIVERED", "CANCELLED"},
         \A d, e \in served'[o] : d = e
  PROVE  OrderCoherent(o)'
<1>1. \A s \in Request : target[s] = o => s = r
  BY DEF Coherent, OrderCoherent
<1>2. \A s \in Request : target'[s] = o => s = r
  BY <1>1 DEF SlotsKept
<1>3. Busy(o)'
  BY DEF Busy
<1> QED
  BY <1>2, <1>3 DEF OrderCoherent

(* A handler that ends leaves its order to nobody.                         *)
LEMMA LeavesOrder ==
  ASSUME TypeOK, Coherent, NEW r \in Request, NEW o \in Order, pc[r] # "idle",
         target[r] = o, target'[r] = NoOrder, SlotsKept(r), o \notin disturbed,
         row' = row, row[o] # Absent, row[o].status # "NONE", items'[o] = 1,
         served'[o] # {} =>
           row[o].status \in {"OUT_FOR_DELIVERY", "DELIVERED", "CANCELLED"},
         \A d, e \in served'[o] : d = e
  PROVE  OrderCoherent(o)'
<1>1. \A s \in Request : target[s] = o => s = r
  BY DEF Coherent, OrderCoherent
<1>2. \A s \in Request : target'[s] # o
  BY <1>1, NullAssumption DEF SlotsKept
<1> QED
  BY <1>2 DEF OrderCoherent

(* The command changes what is in memory, and the row not yet.             *)
LEMMA CoherentRunCommand ==
  ASSUME TypeOK, Coherent, NEW r \in Request, RunCommand(r)
  PROVE  Coherent'
<1>1. PICK o \in Order : target[r] = o /\ pc[r] = "findItems"
  BY DEF RunCommand, TypeOK
<1>2. SlotsKept(r) /\ target'[r] \in {o, NoOrder} /\ (pc'[r] = "idle" => target'[r] = NoOrder)
  BY <1>1 DEF RunCommand, Finish, GoTo, memory, SlotsKept, TypeOK
<1>3. row' = row /\ items' = items /\ served' = served /\ disturbed' = disturbed
  BY DEF RunCommand, tables
<1>4. o \notin disturbed' => OrderCoherent(o)'
  <2> SUFFICES ASSUME o \notin disturbed PROVE OrderCoherent(o)'
    BY <1>3
  <2>1. /\ OrderCoherent(o) /\ HandlerCoherent(r, o)
        /\ row[o].status # "NONE" /\ items[o] = 1 /\ ent[r] = row[o]
        /\ command[r].op # "placeOrder"
    BY <1>1, Alone DEF HandlerCoherent
  <2>2. row[o] # Absent
    BY <2>1 DEF Absent
  <2>3. CASE command[r].op = "softDelete"
    <3>1. pc'[r] = "softDelete" /\ target'[r] = o
      BY <1>1, <2>3 DEF RunCommand, GoTo, TypeOK
    <3>2. HandlerCoherent(r, o)'
      BY <1>3, <2>1, <3>1 DEF HandlerCoherent
    <3> QED
      BY <1>1, <1>2, <1>3, <2>1, <3>1, <3>2, StaysOnOrder DEF OrderCoherent
  <2>4. CASE command[r].op # "softDelete" /\ Allowed(command[r], ent[r])
    <3>1. /\ pc'[r] = "select" /\ target'[r] = o /\ command' = command
          /\ ent'[r] = AfterCommand(command[r], row[o]) /\ cart'[r] = 1
      BY <1>1, <2>1, <2>4 DEF RunCommand, GoTo, TypeOK
    <3>2. HandlerCoherent(r, o)'
      BY <1>3, <2>1, <2>4, <3>1 DEF HandlerCoherent
    <3> QED
      BY <1>1, <1>2, <1>3, <2>1, <3>1, <3>2, StaysOnOrder DEF OrderCoherent
  <2>5. CASE command[r].op # "softDelete" /\ ~Allowed(command[r], ent[r])
    <3>1. target'[r] = NoOrder
      BY <2>5 DEF RunCommand, Finish, TypeOK
    <3> QED
      BY <1>1, <1>2, <1>3, <2>1, <2>2, <3>1, LeavesOrder DEF OrderCoherent
  <2> QED
    BY <2>3, <2>4, <2>5
<1>5. \A p \in Order \ {o} : OrderKept(p)
  BY <1>3 DEF OrderKept
<1> QED
  BY <1>1, <1>2, <1>3, <1>4, <1>5, CoherentFrame DEF WorksOn

(* TypeORM's select reads the row that was loaded.                         *)
LEMMA CoherentSaveSelect ==
  ASSUME TypeOK, Coherent, NEW r \in Request, SaveSelect(r)
  PROVE  Coherent'
<1>1. PICK o \in Order : target[r] = o /\ pc[r] = "select"
  BY DEF SaveSelect, TypeOK
<1>2. SlotsKept(r) /\ target'[r] = o /\ pc'[r] = "update" /\ base'[r] = row[o]
  BY <1>1 DEF SaveSelect, GoTo, SlotsKept, TypeOK
<1>3. /\ row' = row /\ items' = items /\ served' = served /\ disturbed' = disturbed
      /\ command' = command /\ ent' = ent /\ cart' = cart
  BY DEF SaveSelect, GoTo, tables
<1>4. o \notin disturbed' => OrderCoherent(o)'
  <2> SUFFICES ASSUME o \notin disturbed PROVE OrderCoherent(o)'
    BY <1>3
  <2>1. OrderCoherent(o) /\ HandlerCoherent(r, o)
    BY <1>1, Alone
  <2>2. HandlerCoherent(r, o)'
    BY <1>1, <1>2, <1>3, <2>1 DEF HandlerCoherent
  <2> QED
    BY <1>1, <1>2, <1>3, <2>1, <2>2, StaysOnOrder DEF OrderCoherent
<1>5. \A p \in Order \ {o} : OrderKept(p)
  BY <1>3 DEF OrderKept
<1> QED
  BY <1>1, <1>2, <1>3, <1>4, <1>5, CoherentFrame DEF WorksOn

(* The update of an undisturbed order writes the method's result.          *)
LEMMA UpdateWrites ==
  ASSUME TypeOK, Coherent, NEW r \in Request, SaveUpdate(r), target[r] \notin disturbed
  PROVE  /\ target[r] \in Order
         /\ row[target[r]] \in Row
         /\ command[r] \in Command \cup {PlaceCommand}
         /\ command[r].op \notin {"placeOrder", "softDelete"}
         /\ Allowed(command[r], row[target[r]])
         /\ row[target[r]].status # "NONE"
         /\ row' = [row EXCEPT ![target[r]] = AfterCommand(command[r], row[target[r]])]
<1>1. pc[r] = "update" /\ target[r] \in Order
  BY DEF SaveUpdate, TypeOK
<1>2. HandlerCoherent(r, target[r])
  BY <1>1, Alone
<1>3. row[target[r]] \in Row /\ ent[r] \in Row /\ base[r] = row[target[r]]
  BY <1>1, <1>2 DEF TypeOK, HandlerCoherent
<1>4. ChangedColumns(ent[r], base[r], row[target[r]]) = ent[r]
  BY <1>3, FullWrite
<1> QED
  BY <1>1, <1>2, <1>3, <1>4 DEF SaveUpdate, HandlerCoherent, TypeOK

(* The update leaves the row as it was in memory.                          *)
LEMMA CoherentSaveUpdate ==
  ASSUME TypeOK, Coherent, NEW r \in Request, SaveUpdate(r)
  PROVE  Coherent'
<1>1. PICK o \in Order : target[r] = o /\ pc[r] = "update"
  BY DEF SaveUpdate, TypeOK
<1>2. SlotsKept(r) /\ target'[r] = o /\ pc'[r] = "deleteItems"
  BY <1>1 DEF SaveUpdate, GoTo, memory, SlotsKept, TypeOK
<1>3. /\ items' = items /\ served' = served /\ disturbed' = disturbed
      /\ command' = command /\ cart' = cart
  BY DEF SaveUpdate, GoTo, memory
<1>4. \A p \in Order \ {o} : row'[p] = row[p]
  BY <1>1 DEF SaveUpdate, TypeOK
<1>5. o \notin disturbed' => OrderCoherent(o)'
  <2> SUFFICES ASSUME o \notin disturbed PROVE OrderCoherent(o)'
    BY <1>3
  <2> DEFINE new == AfterCommand(command[r], row[o])
  <2>1. OrderCoherent(o) /\ HandlerCoherent(r, o) /\ cart[r] = 1
    BY <1>1, Alone DEF HandlerCoherent
  <2>2. /\ row[o] \in Row /\ row[o].status # "NONE"
        /\ command[r] \in Command \cup {PlaceCommand}
        /\ Allowed(command[r], row[o])
        /\ row'[o] = new
    BY <1>1, UpdateWrites DEF TypeOK
  <2>3. /\ new.status # "NONE"
        /\ command[r].op = "updateOrder" => new.status = row[o].status
        /\ command[r].op # "updateOrder" =>
             <<row[o].status, new.status>> \in ValidTransitions
        /\ command[r].op = "markOutForDelivery" => new.status = "OUT_FOR_DELIVERY"
    BY <2>2, AllowedEdge
  <2> HIDE DEF new
  <2>4. command[r].op = "markOutForDelivery" => served[o] = {}
    <3>1. ~(<<row[o].status, "OUT_FOR_DELIVERY">> \in ValidTransitions
            /\ row[o].status \in {"OUT_FOR_DELIVERY", "DELIVERED", "CANCELLED"})
      BY DEF ValidTransitions, TransitionTable
    <3> QED
      BY <2>1, <2>3, <3>1 DEF OrderCoherent
  <2>5. served[o] # {} => new.status \in {"OUT_FOR_DELIVERY", "DELIVERED", "CANCELLED"}
    <3>1. \A x \in ValidTransitions :
            x[1] \in {"OUT_FOR_DELIVERY", "DELIVERED", "CANCELLED"} =>
              x[2] \in {"DELIVERED", "CANCELLED"}
      BY DEF ValidTransitions, TransitionTable
    <3>2. command[r].op # "updateOrder"
            /\ row[o].status \in {"OUT_FOR_DELIVERY", "DELIVERED", "CANCELLED"}
          => new.status \in {"DELIVERED", "CANCELLED"}
      BY <2>3, <3>1
    <3> QED
      BY <2>1, <2>3, <3>2 DEF OrderCoherent
  <2>6. HandlerCoherent(r, o)'
    BY <1>2, <1>3, <2>1, <2>2, <2>3, <2>4 DEF HandlerCoherent
  <2> QED
    BY <1>1, <1>2, <1>3, <2>1, <2>2, <2>3, <2>5, <2>6, StaysOnOrder DEF OrderCoherent
<1>6. \A p \in Order \ {o} : OrderKept(p)
  BY <1>3, <1>4 DEF OrderKept
<1> QED
  BY <1>1, <1>2, <1>3, <1>5, <1>6, CoherentFrame DEF WorksOn

(* The items are gone while the cart is in memory.                         *)
LEMMA CoherentDeleteItems ==
  ASSUME TypeOK, Coherent, NEW r \in Request, DeleteItems(r)
  PROVE  Coherent'
<1>1. PICK o \in Order : target[r] = o /\ pc[r] = "deleteItems"
  BY DEF DeleteItems, TypeOK
<1>2. /\ SlotsKept(r) /\ target'[r] = o /\ pc'[r] = "insertItems"
      /\ items'[o] = 0 /\ \A p \in Order \ {o} : items'[p] = items[p]
  BY <1>1 DEF DeleteItems, GoTo, memory, SlotsKept, TypeOK
<1>3. /\ row' = row /\ served' = served /\ disturbed' = disturbed
      /\ command' = command /\ cart' = cart
  BY DEF DeleteItems, GoTo, memory
<1>4. o \notin disturbed' => OrderCoherent(o)'
  <2> SUFFICES ASSUME o \notin disturbed PROVE OrderCoherent(o)'
    BY <1>3
  <2>1. OrderCoherent(o) /\ HandlerCoherent(r, o)
    BY <1>1, Alone
  <2>2. HandlerCoherent(r, o)'
    BY <1>1, <1>2, <1>3, <2>1 DEF HandlerCoherent
  <2> QED
    BY <1>1, <1>2, <1>3, <2>1, <2>2, StaysOnOrder DEF OrderCoherent
<1>5. \A p \in Order \ {o} : OrderKept(p)
  BY <1>2, <1>3 DEF OrderKept
<1> QED
  BY <1>1, <1>2, <1>3, <1>4, <1>5, CoherentFrame DEF WorksOn

(* The items are back as they were loaded.                                 *)
LEMMA CoherentInsertItems ==
  ASSUME TypeOK, Coherent, NEW r \in Request, InsertItems(r)
  PROVE  Coherent'
<1>1. PICK o \in Order : target[r] = o /\ pc[r] = "insertItems"
  BY DEF InsertItems, TypeOK
<1>2. /\ SlotsKept(r) /\ target'[r] = NoOrder /\ pc'[r] = "idle"
      /\ items'[o] = items[o] + cart[r] /\ \A p \in Order \ {o} : items'[p] = items[p]
      /\ \A p \in Order \ {o} : served'[p] = served[p]
  BY <1>1 DEF InsertItems, Finish, SlotsKept, TypeOK
<1>3. row' = row /\ disturbed' = disturbed
  BY DEF InsertItems
<1>4. o \notin disturbed' => OrderCoherent(o)'
  <2> SUFFICES ASSUME o \notin disturbed PROVE OrderCoherent(o)'
    BY <1>3
  <2>1. OrderCoherent(o) /\ HandlerCoherent(r, o)
    BY <1>1, Alone
  <2>2. row[o].status # "NONE" /\ row[o] # Absent /\ items'[o] = 1
    BY <1>1, <1>2, <2>1 DEF HandlerCoherent, Absent
  <2>3. /\ served'[o] # {} =>
             row[o].status \in {"OUT_FOR_DELIVERY", "DELIVERED", "CANCELLED"}
        /\ \A d, e \in served'[o] : d = e
    <3>1. CASE command[r].op = "markOutForDelivery"
      <4>1. served'[o] = {command[r].driver}
        BY <1>1, <2>1, <3>1 DEF HandlerCoherent, InsertItems, TypeOK
      <4>2. row[o].status = "OUT_FOR_DELIVERY"
        BY <1>1, <2>1, <3>1 DEF HandlerCoherent
      <4> QED
        BY <4>1, <4>2
    <3>2. CASE command[r].op # "markOutForDelivery"
      BY <2>1, <3>2 DEF InsertItems, OrderCoherent
    <3> QED
      BY <3>1, <3>2
  <2> QED
    BY <1>1, <1>2, <1>3, <2>2, <2>3, LeavesOrder
<1>5. \A p \in Order \ {o} : OrderKept(p)
  BY <1>2, <1>3 DEF OrderKept
<1> QED
  BY <1>1, <1>2, <1>3, <1>4, <1>5, CoherentFrame DEF WorksOn

(* An order that is deleted has no handler left.                           *)
LEMMA CoherentSoftDelete ==
  ASSUME TypeOK, Coherent, NEW r \in Request, SoftDelete(r)
  PROVE  Coherent'
<1>1. PICK o \in Order : target[r] = o /\ pc[r] = "softDelete"
  BY DEF SoftDelete, TypeOK
<1>2. SlotsKept(r) /\ target'[r] = NoOrder /\ pc'[r] = "idle"
  BY <1>1 DEF SoftDelete, Finish, SlotsKept, TypeOK
<1>3. row' = row /\ items' = items /\ served' = served /\ disturbed' = disturbed
  BY DEF SoftDelete
<1>4. o \notin disturbed' => OrderCoherent(o)'
  <2> SUFFICES ASSUME o \notin disturbed PROVE OrderCoherent(o)'
    BY <1>3
  <2>1. OrderCoherent(o) /\ HandlerCoherent(r, o)
    BY <1>1, Alone
  <2>2. row[o].status # "NONE" /\ row[o] # Absent /\ items'[o] = 1
    BY <1>1, <1>3, <2>1 DEF HandlerCoherent, Absent
  <2> QED
    BY <1>1, <1>2, <1>3, <2>1, <2>2, LeavesOrder DEF OrderCoherent
<1>5. \A p \in Order \ {o} : OrderKept(p)
  BY <1>3 DEF OrderKept
<1> QED
  BY <1>1, <1>2, <1>3, <1>4, <1>5, CoherentFrame DEF WorksOn

(* A failure outside a save leaves the order whole; one inside a save      *)
(* disturbs it.                                                            *)
LEMMA CoherentAbort ==
  ASSUME TypeOK, Coherent, NEW r \in Request, Abort(r)
  PROVE  Coherent'
<1>1. PICK o \in Order : target[r] = o /\ pc[r] # "idle"
  BY DEF Abort, TypeOK
<1>2. SlotsKept(r) /\ target'[r] = NoOrder /\ pc'[r] = "idle"
  BY <1>1 DEF Abort, Finish, SlotsKept, TypeOK
<1>3. /\ row' = row /\ items' = items /\ served' = served
      /\ disturbed \subseteq disturbed'
  BY DEF Abort, tables
<1>4. o \notin disturbed' => OrderCoherent(o)'
  <2> SUFFICES ASSUME o \notin disturbed' PROVE OrderCoherent(o)'
    OBVIOUS
  <2>1. o \notin disturbed /\ pc[r] \in {"findItems", "select", "update", "softDelete"}
    BY <1>1 DEF Abort, TypeOK, Step
  <2>2. OrderCoherent(o) /\ HandlerCoherent(r, o)
    BY <1>1, <2>1, Alone
  <2>3. row[o].status # "NONE" /\ row[o] # Absent /\ items'[o] = 1
    BY <1>3, <2>1, <2>2 DEF HandlerCoherent, Absent
  <2> QED
    BY <1>1, <1>2, <1>3, <2>1, <2>2, <2>3, LeavesOrder DEF OrderCoherent
<1>5. \A p \in Order \ {o} : OrderKept(p)
  BY <1>3 DEF OrderKept
<1> QED
  BY <1>1, <1>2, <1>3, <1>4, <1>5, CoherentFrame DEF WorksOn

(* Nothing is forgotten when nothing happens.                              *)
LEMMA CoherentStutter ==
  ASSUME Coherent, UNCHANGED vars
  PROVE  Coherent'
  BY DEF vars, Coherent, OrderCoherent, HandlerCoherent, Busy

(* Every step keeps what the handler alone on an order knows.              *)
LEMMA CoherentNext == TypeOK /\ Coherent /\ [Next]_vars => Coherent'
<1> SUFFICES ASSUME TypeOK, Coherent, [Next]_vars PROVE Coherent'
  OBVIOUS
<1>1. CASE \E r \in Request : \E o \in Order : PlaceOrder(r, o)
  BY <1>1, CoherentPlaceOrder
<1>2. CASE \E r \in Request : \E o \in Order, c \in Command : FindOrder(r, o, c)
  BY <1>2, CoherentFindOrder
<1>3. CASE \E r \in Request : RunCommand(r)
  BY <1>3, CoherentRunCommand
<1>4. CASE \E r \in Request : SaveSelect(r)
  BY <1>4, CoherentSaveSelect
<1>5. CASE \E r \in Request : SaveUpdate(r)
  BY <1>5, CoherentSaveUpdate
<1>6. CASE \E r \in Request : DeleteItems(r)
  BY <1>6, CoherentDeleteItems
<1>7. CASE \E r \in Request : InsertItems(r)
  BY <1>7, CoherentInsertItems
<1>8. CASE \E r \in Request : SoftDelete(r)
  BY <1>8, CoherentSoftDelete
<1>9. CASE \E r \in Request : Abort(r)
  BY <1>9, CoherentAbort
<1>10. CASE UNCHANGED vars
  BY <1>10, CoherentStutter
<1> QED
  BY <1>1, <1>2, <1>3, <1>4, <1>5, <1>6, <1>7, <1>8, <1>9, <1>10 DEF Next

(* However many handlers run, the one alone on an undisturbed order has in *)
(* memory what the tables hold or what its save is about to write.         *)
THEOREM MemoryCoherent == Spec => []Coherent
<1>1. Init => Coherent
  BY CoherentInit
<1>2. Spec => []TypeOK
  BY TypeCorrect
<1> QED
  BY <1>1, <1>2, CoherentNext, PTL DEF Spec

(* save's delete-and-insert loses and duplicates no item of an order, as   *)
(* long as no two handlers work on the order at once and none fails        *)
(* halfway through a save.                                                 *)
THEOREM CartSafe == Spec => []CartKept
<1>1. Coherent => CartKept
  BY DEF Coherent, OrderCoherent, CartKept
<1> QED
  BY <1>1, MemoryCoherent, PTL

-----------------------------------------------------------------------------
(* An undisturbed order follows OrderLifecycle.                            *)

(* A change of one row that follows the table is a step of the lifecycle.  *)
LEMMA TableIsLifecycle ==
  ASSUME TypeOK, NEW o \in Order, NEW new \in Row,
         row' = [row EXCEPT ![o] = new],
         row[o].status # "NONE",
         <<row[o].status, new.status>> \in ValidTransitions,
         new.status = "OUT_FOR_DELIVERY" => new.driver \in Driver,
         new.status # "OUT_FOR_DELIVERY" => new.driver = row[o].driver
  PROVE  Lifecycle!Step(o)
<1> DEFINE S == [p \in Order |-> row[p].status]
           D == [p \in Order |-> row[p].driver]
<1>1. S' = [S EXCEPT ![o] = new.status] /\ D' = [D EXCEPT ![o] = new.driver]
  BY DEF TypeOK
<1>2. S[o] = row[o].status /\ D[o] = row[o].driver
  OBVIOUS
<1>3. new.status # "OUT_FOR_DELIVERY" => D' = D
  BY <1>1, <1>2
<1> HIDE DEF S, D
<1>4. ASSUME NEW i \in 1 .. 5, S[o] = Lifecycle!Pipeline[i],
             new.status = Lifecycle!Pipeline[i + 1]
      PROVE  Lifecycle!Advance(o)
  <2>1. i = 4 <=> new.status = "OUT_FOR_DELIVERY"
    BY <1>4 DEF Lifecycle!Pipeline
  <2>2. CASE i = 4
    BY <1>1, <1>4, <2>1, <2>2 DEF Lifecycle!Advance, S, D
  <2>3. CASE i # 4
    BY <1>1, <1>3, <1>4, <2>1, <2>3 DEF Lifecycle!Advance, S, D
  <2> QED
    BY <2>2, <2>3
<1>5. CASE new.status = "CANCELLED"
  <2>1. \E i \in 1 .. 5 : S[o] = Lifecycle!Pipeline[i]
    BY <1>2, <1>5 DEF ValidTransitions, TransitionTable, Lifecycle!Pipeline
  <2>2. Lifecycle!Cancel(o)
    BY <1>1, <1>3, <1>5, <2>1 DEF Lifecycle!Cancel, S, D
  <2> QED
    BY <2>2 DEF Lifecycle!Step
<1>6. CASE new.status = "REJECTED"
  <2>1. S[o] = "PENDING"
    BY <1>2, <1>6 DEF ValidTransitions, TransitionTable
  <2>2. Lifecycle!Reject(o)
    BY <1>1, <1>3, <1>6, <2>1 DEF Lifecycle!Reject, S, D
  <2> QED
    BY <2>2 DEF Lifecycle!Step
<1>7. CASE new.status \notin {"CANCELLED", "REJECTED"}
  <2>1. \E i \in 1 .. 5 : S[o] = Lifecycle!Pipeline[i] /\ new.status = Lifecycle!Pipeline[i + 1]
    BY <1>2, <1>7 DEF ValidTransitions, TransitionTable, Lifecycle!Pipeline
  <2> QED
    BY <1>4, <2>1 DEF Lifecycle!Step
<1> QED
  BY <1>5, <1>6, <1>7

(* Placing an order is the lifecycle's first step.                         *)
LEMMA PlaceIsLifecycle ==
  ASSUME TypeOK, NEW r \in Request, NEW o \in Order, PlaceOrder(r, o)
  PROVE  Lifecycle!Step(o)
<1> DEFINE S == [p \in Order |-> row[p].status]
           D == [p \in Order |-> row[p].driver]
<1>1. S[o] = "NONE" /\ D[o] = NoDriver
  BY DEF PlaceOrder, Absent
<1>2. S' = [S EXCEPT ![o] = "PENDING"] /\ D' = [D EXCEPT ![o] = NoDriver]
  BY DEF PlaceOrder, TypeOK
<1>3. D' = D
  BY <1>1, <1>2
<1> QED
  BY <1>1, <1>2, <1>3 DEF Lifecycle!Step, Lifecycle!Place

(* updateOrder replaces the courier, in a final status too late, or leaves *)
(* the row as it is.                                                       *)
LEMMA UpdateOrderIsLifecycle ==
  ASSUME TypeOK, NEW o \in Order, NEW c \in Command \cup {PlaceCommand},
         c.op = "updateOrder", row[o].status # "NONE",
         row' = [row EXCEPT ![o] = AfterCommand(c, row[o])]
  PROVE  Lifecycle!Step(o) \/ LateAssignment(o) \/ row'[o] = row[o]
<1> DEFINE S == [p \in Order |-> row[p].status]
           D == [p \in Order |-> row[p].driver]
<1>1. row[o] \in Row
  BY DEF TypeOK
<1>2. CASE c.driver = NoDriver
  BY <1>1, <1>2 DEF AfterCommand, Row, TypeOK
<1>3. CASE c.driver # NoDriver
  <2>1. c.driver \in Driver
    BY <1>3 DEF Command, PlaceCommand, DriverOrNull
  <2>2. AfterCommand(c, row[o]) = [row[o] EXCEPT !.driver = c.driver]
    BY <1>1, <1>3 DEF AfterCommand, Row
  <2>3. S[o] # "NONE" /\ S' = S /\ D' = [D EXCEPT ![o] = c.driver]
    BY <1>3 DEF AfterCommand, TypeOK
  <2>4. CASE row[o].status \in Lifecycle!Final
    <3>1. row' = [row EXCEPT ![o].driver = c.driver]
      BY <2>2
    <3> QED
      BY <2>1, <2>4, <3>1 DEF LateAssignment
  <2>5. CASE row[o].status \notin Lifecycle!Final
    BY <2>1, <2>3, <2>5 DEF Lifecycle!Step, Lifecycle!Reassign
  <2> QED
    BY <2>4, <2>5
<1> QED
  BY <1>2, <1>3

(* The update of a handler alone on its order is a step of the lifecycle,  *)
(* a late assignment, or none.                                             *)
LEMMA UpdateIsLifecycle ==
  ASSUME TypeOK, Coherent, NEW r \in Request, SaveUpdate(r), target[r] \notin disturbed
  PROVE  \E o \in Order :
           /\ o = target[r]
           /\ Lifecycle!Step(o) \/ LateAssignment(o) \/ row'[o] = row[o]
<1>1. PICK o \in Order, c \in Command \cup {PlaceCommand} :
        /\ o = target[r] /\ row[o] \in Row
        /\ c.op \notin {"placeOrder", "softDelete"}
        /\ Allowed(c, row[o]) /\ row[o].status # "NONE"
        /\ row' = [row EXCEPT ![o] = AfterCommand(c, row[o])]
  BY UpdateWrites
<1>2. CASE c.op = "updateOrder"
  BY <1>1, <1>2, UpdateOrderIsLifecycle
<1>3. CASE c.op # "updateOrder"
  <2>1. PICK new \in Row : new = AfterCommand(c, row[o])
    BY <1>1, AfterCommandType
  <2>2. <<row[o].status, new.status>> \in ValidTransitions
    BY <1>1, <1>3, <2>1, AllowedEdge
  <2>3. new.status = "OUT_FOR_DELIVERY" => new.driver \in Driver
    <3>1. c.op \in Transitioning \cup {"markOutForDelivery"}
      BY <1>1, <1>3 DEF Command, PlaceCommand
    <3>2. new.status = "OUT_FOR_DELIVERY" => c.op = "markOutForDelivery"
      BY <1>3, <2>1, <3>1 DEF AfterCommand, NewStatus, Transitioning
    <3>3. c.op = "markOutForDelivery" => c.driver \in Driver
      BY DEF Command, PlaceCommand, Transitioning
    <3> QED
      BY <2>1, <3>2, <3>3, NullAssumption DEF AfterCommand
  <2>4. new.status # "OUT_FOR_DELIVERY" => new.driver = row[o].driver
    <3>1. c.op # "markOutForDelivery" => c.driver = NoDriver
      BY <1>3 DEF Command, PlaceCommand
    <3>2. c.op = "markOutForDelivery" => new.status = "OUT_FOR_DELIVERY"
      BY <2>1 DEF AfterCommand, NewStatus
    <3> QED
      BY <2>1, <3>1, <3>2 DEF AfterCommand
  <2> QED
    BY <1>1, <2>1, <2>2, <2>3, <2>4, TableIsLifecycle
<1> QED
  BY <1>2, <1>3, <1>1

(* Every step leaves an undisturbed order as it is, is a step of its       *)
(* promised life, or assigns a courier late.                               *)
LEMMA StepFollows ==
  TypeOK /\ Coherent /\ [Next]_vars =>
    \A o \in Order :
      \/ o \in disturbed'
      \/ Lifecycle!Step(o)
      \/ LateAssignment(o)
      \/ row'[o] = row[o]
<1> DEFINE Good == \A o \in Order :
             o \in disturbed' \/ Lifecycle!Step(o) \/ LateAssignment(o) \/ row'[o] = row[o]
<1> SUFFICES ASSUME TypeOK, Coherent, [Next]_vars PROVE Good
  OBVIOUS
<1>1. ASSUME NEW r \in Request, NEW o \in Order, PlaceOrder(r, o) PROVE Good
  <2>1. Lifecycle!Step(o)
    BY <1>1, PlaceIsLifecycle
  <2>2. \A p \in Order \ {o} : row'[p] = row[p]
    BY <1>1 DEF PlaceOrder, TypeOK
  <2> QED
    BY <2>1, <2>2
<1>2. ASSUME NEW r \in Request, SaveUpdate(r) PROVE Good
  <2>1. disturbed' = disturbed /\ target[r] \in Order
    BY <1>2 DEF SaveUpdate, TypeOK
  <2>2. \A p \in Order : p # target[r] => row'[p] = row[p]
    BY <1>2, <2>1 DEF SaveUpdate, TypeOK
  <2>3. CASE target[r] \in disturbed
    BY <2>1, <2>2, <2>3
  <2>4. CASE target[r] \notin disturbed
    <3>1. PICK o \in Order : o = target[r]
                               /\ (Lifecycle!Step(o) \/ LateAssignment(o) \/ row'[o] = row[o])
      BY <1>2, <2>4, UpdateIsLifecycle
    <3> QED
      BY <2>2, <3>1
  <2> QED
    BY <2>3, <2>4
<1>3. ASSUME row' = row PROVE Good
  BY <1>3
<1>4. \/ \E r \in Request, o \in Order : PlaceOrder(r, o)
      \/ \E r \in Request : SaveUpdate(r)
      \/ row' = row
  BY DEF Next, FindOrder, RunCommand, SaveSelect, DeleteItems, InsertItems, SoftDelete,
         Abort, tables, vars
<1> QED
  BY <1>1, <1>2, <1>3, <1>4

(* Whatever the interleaving, an undisturbed order moves along the         *)
(* promised lifecycle, but for a courier assigned late.                    *)
THEOREM FollowsLifecycle == Spec => UndisturbedFollowsLifecycle
<1>1. TypeOK /\ Coherent /\ [Next]_vars =>
        [\A o \in Order :
           \/ o \in disturbed'
           \/ Lifecycle!Step(o)
           \/ LateAssignment(o)
           \/ row'[o] = row[o]]_vars
  BY StepFollows
<1> QED
  BY <1>1, TypeCorrect, MemoryCoherent, PTL DEF Spec, UndisturbedFollowsLifecycle

(* As long as no order is disturbed and no courier is assigned late,       *)
(* order-service implements OrderLifecycle: every step is one of it, or    *)
(* nothing it can see.                                                     *)
THEOREM LifecycleImplemented == Spec => ImplementsLifecycle
<1>1. Init => Lifecycle!Init
  BY DEF Init, Lifecycle!Init, Absent
<1>2. TypeOK /\ Coherent /\ NoneDisturbed' /\ [Next]_vars
        /\ [\A o \in Order : ~LateAssignment(o)]_vars
        => [Lifecycle!Next]_Lifecycle!lifecycleVars
  <2> SUFFICES ASSUME TypeOK, Coherent, NoneDisturbed', [Next]_vars,
                      [\A o \in Order : ~LateAssignment(o)]_vars
               PROVE  [Lifecycle!Next]_Lifecycle!lifecycleVars
    OBVIOUS
  <2>1. \A o \in Order : Lifecycle!Step(o) \/ row'[o] = row[o]
    <3>1. UNCHANGED vars => row' = row
      BY DEF vars
    <3> QED
      BY <3>1, StepFollows DEF NoneDisturbed
  <2>2. CASE \E o \in Order : Lifecycle!Step(o)
    BY <2>2 DEF Lifecycle!Next
  <2>3. CASE \A o \in Order : row'[o] = row[o]
    <3>1. /\ [o \in Order |-> row'[o].status] = [o \in Order |-> row[o].status]
          /\ [o \in Order |-> row'[o].driver] = [o \in Order |-> row[o].driver]
      BY <2>3
    <3> QED
      BY <3>1 DEF Lifecycle!lifecycleVars
  <2> QED
    BY <2>1, <2>2, <2>3
<1> QED
  BY <1>1, <1>2, TypeCorrect, MemoryCoherent, PTL DEF Spec, ImplementsLifecycle,
     Lifecycle!Spec

(* At most one courier is told that it took an undisturbed order: the      *)
(* table lets OUT_FOR_DELIVERY be entered once.                            *)
THEOREM OneCourier == Spec => []OneCourierServed
<1>1. ASSUME TypeOK, Coherent PROVE OneCourierServed
  <2> SUFFICES ASSUME NEW o \in Order, o \notin disturbed
    PROVE Cardinality(served[o]) <= 1
    BY DEF OneCourierServed
  <2>1. \A d, e \in served[o] : d = e
    BY <1>1 DEF Coherent, OrderCoherent
  <2>2. CASE served[o] = {}
    BY <2>2, FS_EmptySet
  <2>3. CASE served[o] # {}
    <3>1. PICK d : served[o] = {d}
      BY <2>1, <2>3
    <3>2. Cardinality({d}) = 1
      BY FS_Singleton
    <3> QED
      BY <3>1, <3>2
  <2> QED
    BY <2>2, <2>3
<1> QED
  BY <1>1, TypeCorrect, MemoryCoherent, PTL

-----------------------------------------------------------------------------
(* The pages that show orders.  Statuses and ranks first.                  *)

(* The instance counts as everybody else does.                             *)
LEMMA SameCount == \A S : Pages!Cardinality(S) = Cardinality(S)
BY DEF Pages!Cardinality, Cardinality

(* Where in the pipeline each status stands.                               *)
LEMMA GivenIs ==
  /\ Pages!Given("PENDING") = {1} /\ Pages!Given("CONFIRMED") = {2} /\ Pages!Given("PREPARING") = {3}
  /\ Pages!Given("READY_FOR_PICKUP") = {4} /\ Pages!Given("OUT_FOR_DELIVERY") = {5}
  /\ Pages!Given("DELIVERED") = {6}
<1>1. /\ Pages!Pipeline[1] = "PENDING" /\ Pages!Pipeline[2] = "CONFIRMED" /\ Pages!Pipeline[3] = "PREPARING"
      /\ Pages!Pipeline[4] = "READY_FOR_PICKUP" /\ Pages!Pipeline[5] = "OUT_FOR_DELIVERY"
      /\ Pages!Pipeline[6] = "DELIVERED"
  BY DEF Pages!Pipeline
<1>2. 1 .. 6 = {1, 2, 3, 4, 5, 6} OBVIOUS
<1>3. \A s : Pages!Given(s) = {i \in {1, 2, 3, 4, 5, 6} : Pages!Pipeline[i] = s}
  BY <1>2 DEF Pages!Given
<1> QED BY <1>1, <1>3

(* The statuses one by one.                                                *)
LEMMA StatusIs ==
  Pages!Status = {"NONE", "PENDING", "CONFIRMED", "PREPARING", "READY_FOR_PICKUP",
            "OUT_FOR_DELIVERY", "DELIVERED", "CANCELLED", "REJECTED"}
<1>1. /\ Pages!Pipeline[1] = "PENDING" /\ Pages!Pipeline[2] = "CONFIRMED" /\ Pages!Pipeline[3] = "PREPARING"
      /\ Pages!Pipeline[4] = "READY_FOR_PICKUP" /\ Pages!Pipeline[5] = "OUT_FOR_DELIVERY"
      /\ Pages!Pipeline[6] = "DELIVERED"
  BY DEF Pages!Pipeline
<1>2. 1 .. 6 = {1, 2, 3, 4, 5, 6} OBVIOUS
<1>3. {Pages!Pipeline[i] : i \in 1 .. 6} = {"PENDING", "CONFIRMED", "PREPARING",
         "READY_FOR_PICKUP", "OUT_FOR_DELIVERY", "DELIVERED"}
  BY <1>1, <1>2
<1> QED BY <1>3 DEF Pages!Status, Pages!Ended

(* How far an order of each status has come.                               *)
LEMMA RankIs ==
  /\ Pages!Rank("NONE") = 0 /\ Pages!Rank("PENDING") = 1 /\ Pages!Rank("CONFIRMED") = 2
  /\ Pages!Rank("PREPARING") = 3 /\ Pages!Rank("READY_FOR_PICKUP") = 4 /\ Pages!Rank("OUT_FOR_DELIVERY") = 5
  /\ Pages!Rank("DELIVERED") = 6 /\ Pages!Rank("CANCELLED") = 7 /\ Pages!Rank("REJECTED") = 7
<1>1. \A n : (CHOOSE i \in {n} : TRUE) = n OBVIOUS
<1> QED BY <1>1, GivenIs DEF Pages!Rank, Pages!Ended

Final == {"DELIVERED", "CANCELLED", "REJECTED"}

(* What was the status of an order that is s now.                          *)
Behind(a, s) == a = s \/ (a \in Pages!Status \ Final /\ s \in Pages!Status /\ Pages!Rank(a) <= Pages!Rank(s))

(* Ranks go from 0 to 7.                                                   *)
LEMMA RankNat == \A s \in Pages!Status : Pages!Rank(s) \in 0 .. 7
BY RankIs, StatusIs

(* What was the status of an order ranks no higher, and is the status still*)
(* if it is a final one.                                                   *)
LEMMA BehindIs ==
  ASSUME NEW s \in Pages!Status, NEW a \in Pages!Status, Behind(a, s)
  PROVE  /\ Pages!Rank(a) <= Pages!Rank(s) /\ Pages!Rank(a) \in Nat /\ Pages!Rank(s) \in Nat
         /\ a \in Final => a = s
BY RankNat DEF Behind

(* An order moves forward, and never from its end.                         *)
LEMMA MovesForward ==
  ASSUME NEW s \in Pages!Status, s # "NONE", NEW t \in Pages!Moves(s)
  PROVE  t \in Pages!Status /\ t # "NONE" /\ s \notin Final /\ Pages!Rank(s) <= Pages!Rank(t)
<1>1. /\ Pages!Pipeline[1 + 1] = "CONFIRMED" /\ Pages!Pipeline[2 + 1] = "PREPARING"
      /\ Pages!Pipeline[3 + 1] = "READY_FOR_PICKUP" /\ Pages!Pipeline[4 + 1] = "OUT_FOR_DELIVERY"
      /\ Pages!Pipeline[5 + 1] = "DELIVERED"
  BY DEF Pages!Pipeline
<1>2. CASE s = "CANCELLED" \/ s = "REJECTED"
  <2>1. Pages!Given(s) = {}
    <3>1. /\ Pages!Pipeline[1] = "PENDING" /\ Pages!Pipeline[2] = "CONFIRMED" /\ Pages!Pipeline[3] = "PREPARING"
          /\ Pages!Pipeline[4] = "READY_FOR_PICKUP" /\ Pages!Pipeline[5] = "OUT_FOR_DELIVERY"
          /\ Pages!Pipeline[6] = "DELIVERED"
      BY DEF Pages!Pipeline
    <3>2. 1 .. 6 = {1, 2, 3, 4, 5, 6} OBVIOUS
    <3> QED BY <1>2, <3>1, <3>2 DEF Pages!Given
  <2>2. Pages!Rank(s) \notin 1 .. 5 BY <1>2, RankIs
  <2> QED BY <1>2, <2>1, <2>2 DEF Pages!Moves
<1>3. CASE s = "DELIVERED"
  <2>1. Pages!Rank(s) \notin 1 .. 5 /\ Pages!Given(s) \ {6} = {} BY <1>3, RankIs, GivenIs
  <2> QED BY <1>3, <2>1 DEF Pages!Moves
<1>4. CASE s \notin Final
  <2>1. t \in {"CONFIRMED", "PREPARING", "READY_FOR_PICKUP", "OUT_FOR_DELIVERY", "DELIVERED",
               "CANCELLED", "REJECTED"}
    BY <1>1, <1>4, GivenIs, StatusIs DEF Pages!Moves, Final
  <2>2. t \in {Pages!Pipeline[i + 1] : i \in Pages!Given(s) \ {6}} \/ t \in {"CANCELLED", "REJECTED"}
    BY DEF Pages!Moves
  <2>3. CASE t \in {"CANCELLED", "REJECTED"} BY <1>4, <2>3, RankIs, StatusIs
  <2>4. CASE t \in {Pages!Pipeline[i + 1] : i \in Pages!Given(s) \ {6}}
    <3>1. CASE s = "PENDING" BY <1>1, <1>4, <2>4, <3>1, GivenIs, RankIs, StatusIs
    <3>2. CASE s = "CONFIRMED" BY <1>1, <1>4, <2>4, <3>2, GivenIs, RankIs, StatusIs
    <3>3. CASE s = "PREPARING" BY <1>1, <1>4, <2>4, <3>3, GivenIs, RankIs, StatusIs
    <3>4. CASE s = "READY_FOR_PICKUP" BY <1>1, <1>4, <2>4, <3>4, GivenIs, RankIs, StatusIs
    <3>5. CASE s = "OUT_FOR_DELIVERY" BY <1>1, <1>4, <2>4, <3>5, GivenIs, RankIs, StatusIs
    <3> QED BY <1>4, <3>1, <3>2, <3>3, <3>4, <3>5, StatusIs DEF Final
  <2> QED BY <2>2, <2>3, <2>4
<1> QED BY <1>2, <1>3, <1>4 DEF Final

-----------------------------------------------------------------------------
(* The invariant.                                                          *)

(* Orders are numbered as they are placed.                                 *)
Contiguous == \E n \in Pages!Number : Pages!Placed = 1 .. n

UpTo(old, new) == \A o \in Pages!Number : Behind(old[o], new[o])

(* A page reads one thing at a time unless reads cross.                    *)
OneRead == \A f, g \in Reading : read[f].at # "idle" /\ read[g].at # "idle" => f = g

(* An answer is of this page, of what the orders were since it was opened. *)
AnswerGood(f) ==
  read[f].at = "answered" =>
    /\ \A o \in Pages!Number : Behind(read[f].answer[o], stage[o])
    /\ \A o \in Pages!Reliable : Pages!Rank(read[f].answer[o]) >= Pages!Rank(opened[o])

Answers == \A f \in Reading : AnswerGood(f)

(* The admin's reads are for the status chosen.                            *)
Chosing == open = "admin" /\ ~crossing => \A f \in Reading : read[f].at # "idle" => read[f].choice = choice

PagesKept ==
  /\ Pages!TypeOK /\ Contiguous /\ UpTo(opened, stage) /\ UpTo(listed, stage)
  /\ Answers /\ (~crossing => OneRead) /\ Chosing
  /\ Pages!NoStepBack /\ Pages!FreshWhenOpened /\ Pages!ListIsForStatus

-----------------------------------------------------------------------------
(* What was behind stays behind as the order moves on.                     *)
LEMMA BehindStays ==
  ASSUME NEW a \in Pages!Status, NEW s \in Pages!Status, NEW t \in Pages!Status,
         Behind(a, s), Behind(s, t)
  PROVE  Behind(a, t)
BY RankNat DEF Behind

(* An order that was not placed is behind every status, and each status    *)
(* behind itself.                                                          *)
LEMMA NothingBehind == Behind("NONE", "NONE") /\ \A s \in Pages!Status : Behind("NONE", s) /\ Behind(s, s)
BY RankNat, RankIs, StatusIs DEF Behind, Final

(* The orders a page may be relied on to show are among those it asks for. *)
LEMMA ReliableWanted ==
  ASSUME Pages!TypeOK, Contiguous, UpTo(opened, stage), NEW c, NEW o \in Pages!Reliable
  PROVE  /\ o \in Pages!Number /\ o \in Pages!Wanted(open, c)
<1>1. PICK n \in Pages!Number : Pages!Placed = 1 .. n BY DEF Contiguous
<1>2. n \in Nat /\ Pages!Number \subseteq Nat BY DEF Pages!Number
<1>3. Cardinality(Pages!Placed) = n BY <1>1, <1>2, FS_Interval
<1>4. ASSUME NEW x \in Pages!Placed, n - x < Take PROVE x \in Pages!Newest(Pages!Placed)
  <2>1. x \in Nat /\ x <= n BY <1>1, <1>2, <1>4
  <2>2. {y \in Pages!Placed : y > x} = (x + 1) .. n BY <1>1, <1>2, <2>1
  <2>3. Cardinality((x + 1) .. n) = n - x
    <3>1. PICK m \in Int : m = x + 1 BY <2>1
    <3>2. Cardinality(m .. n) = IF m > n THEN 0 ELSE n - m + 1 BY <1>2, FS_Interval
    <3> QED BY <1>2, <2>1, <3>1, <3>2
  <2> QED BY <1>4, <2>2, <2>3, SameCount DEF Pages!Newest
<1>5. Pages!Recent \subseteq Pages!Newest(Pages!Placed)
  BY <1>3, <1>4, SameCount DEF Pages!Recent
<1>6. Pages!Recent \subseteq Pages!Number /\ Pages!Placed \subseteq Pages!Number
  BY DEF Pages!Recent, Pages!Placed
<1>7. open \in Pages!Page BY DEF Pages!TypeOK
<1>8. ASSUME NEW x \in Pages!Number, opened[x] # "NONE" PROVE x \in Pages!Placed
  <2>1. Behind(opened[x], stage[x]) /\ opened[x] \in Pages!Status /\ stage[x] \in Pages!Status
    BY DEF UpTo, Pages!TypeOK
  <2>2. stage[x] # "NONE" BY <1>8, <2>1, BehindIs, RankIs, RankNat, StatusIs DEF Behind
  <2> QED BY <2>2 DEF Pages!Placed
<1>9. ASSUME NEW x \in Pages!Number, opened[x] = "DELIVERED" PROVE stage[x] = "DELIVERED"
  BY <1>9 DEF UpTo, Pages!TypeOK, Behind, Final
<1>10. Pages!Followed \in Pages!Number BY PagesAssumption DEF Pages!Followed, Pages!Number
<1>11. CASE open = "tracking" BY <1>10, <1>11 DEF Pages!Reliable, Pages!Wanted
<1>12. CASE open = "merchant" BY <1>8, <1>12 DEF Pages!Reliable, Pages!Wanted
<1>13. CASE open = "earnings"
  <2>1. o \in Pages!Number /\ opened[o] = "DELIVERED" BY <1>13 DEF Pages!Reliable
  <2>2. o \in Pages!Placed /\ stage[o] = "DELIVERED" BY <1>8, <1>9, <2>1
  <2> QED BY <1>13, <2>1, <2>2 DEF Pages!Wanted
<1>14. CASE open = "home" BY <1>5, <1>6, <1>14 DEF Pages!Reliable, Pages!Wanted
<1>15. CASE open \in {"orders", "overview"}
  BY <1>5, <1>6, <1>15 DEF Pages!Reliable, Pages!Wanted
<1>16. CASE open = "admin" BY <1>16 DEF Pages!Reliable
<1> QED BY <1>7, <1>11, <1>12, <1>13, <1>14, <1>15, <1>16 DEF Pages!Page

(* The invariant of the pages holds when the tracking page shows the first *)
(* order.                                                                  *)
LEMMA InitKept == Pages!Init => PagesKept
<1> SUFFICES ASSUME Pages!Init PROVE PagesKept OBVIOUS
<1>1. LastOrder \in Nat \ {0} /\ Pages!Followed \in Pages!Number /\ Pages!Number \subseteq Nat
  BY PagesAssumption DEF Pages!Followed, Pages!Number
<1>2. PICK s \in {"PENDING", "OUT_FOR_DELIVERY"} : stage = [Pages!Nowhere EXCEPT ![Pages!Followed] = s]
  BY DEF Pages!Init
<1>3. /\ stage \in [Pages!Number -> Pages!Status] /\ stage[Pages!Followed] # "NONE"
      /\ \A o \in Pages!Number : o # Pages!Followed => stage[o] = "NONE"
  BY <1>1, <1>2, StatusIs DEF Pages!Nowhere
<1>4. /\ listed = stage /\ opened = stage /\ open = "tracking" /\ choice = "ALL"
      /\ shownFor = "ALL" /\ loading = FALSE /\ crossing = FALSE /\ failing = FALSE
      /\ whose = [o \in Pages!Number |-> "me"] /\ hour = 0 /\ pages = 0 /\ moves = 0
      /\ age = Pages!Some(Age) /\ weekday = Pages!Some(Weekday)
  BY DEF Pages!Init
<1>5. read \in [Reading -> Pages!Read] /\ \A f \in Reading : read[f] = Pages!Idle
  <2>1. Pages!Idle \in Pages!Read BY StatusIs DEF Pages!Idle, Pages!Read, Pages!Nowhere
  <2> QED BY <2>1 DEF Pages!Init
<1>6. \A f \in Reading : read[f].at = "idle" BY <1>5 DEF Pages!Idle
<1>7. age \in Age /\ weekday \in Weekday BY <1>4, PagesAssumption DEF Pages!Some
<1>8. Pages!TypeOK
  <2>1. 0 \in 0 .. MaxOpened /\ 0 \in 0 .. MaxMoves /\ 0 \in 0 .. 1 BY PagesAssumption
  <2>2. whose \in [Pages!Number -> {"me", "another"}] /\ {FALSE} \subseteq BOOLEAN BY <1>4
  <2> QED BY <1>3, <1>4, <1>5, <1>7, <2>1, <2>2 DEF Pages!TypeOK, Pages!Page
<1>9. Contiguous
  <2>1. Pages!Placed = {Pages!Followed} BY <1>1, <1>3 DEF Pages!Placed
  <2> QED BY <1>1, <2>1 DEF Contiguous, Pages!Followed
<1>10. UpTo(opened, stage) /\ UpTo(listed, stage) BY <1>3, <1>4, NothingBehind DEF UpTo
<1>11. Answers /\ OneRead /\ Chosing /\ Pages!NoStepBack
  BY <1>6 DEF Answers, AnswerGood, OneRead, Chosing, Pages!NoStepBack
<1>12. Pages!FreshWhenOpened /\ Pages!ListIsForStatus
  <2>1. Pages!Reliable = {Pages!Followed} BY <1>4 DEF Pages!Reliable
  <2>2. Pages!Rank(stage[Pages!Followed]) >= Pages!Rank(stage[Pages!Followed])
    BY <1>1, <1>3, RankNat
  <2> QED BY <1>4, <2>1, <2>2 DEF Pages!FreshWhenOpened, Pages!ListIsForStatus
<1> QED BY <1>8, <1>9, <1>10, <1>11, <1>12 DEF PagesKept

(* While orders move on, the page stays as it is.                          *)
LEMMA OrdersFrame ==
  ASSUME PagesKept, Pages!TypeOK', Contiguous', UpTo(stage, stage'),
         \A o \in Pages!Number : o \in Pages!Reliable' => o \in Pages!Reliable,
         Pages!Reliable' \subseteq Pages!Number,
         UNCHANGED <<open, choice, loading, read, listed, age, hour, weekday,
                     pages, opened, shownFor, crossing, failing>>
  PROVE  PagesKept'
<1>1. ASSUME NEW old \in [Pages!Number -> Pages!Status], UpTo(old, stage)
  PROVE UpTo(old, stage')
  BY <1>1, BehindStays DEF UpTo, Pages!TypeOK, PagesKept
<1>2. UpTo(opened, stage)' /\ UpTo(listed, stage)'
  <2>1. opened \in [Pages!Number -> Pages!Status] /\ listed \in [Pages!Number -> Pages!Status]
    BY DEF PagesKept, Pages!TypeOK
  <2>2. UpTo(opened, stage') /\ UpTo(listed, stage') BY <1>1, <2>1 DEF PagesKept
  <2> QED BY <2>2
<1>3. Answers'
  <2> SUFFICES ASSUME NEW f \in Reading, read[f].at = "answered" PROVE AnswerGood(f)'
    BY DEF Answers, AnswerGood
  <2>1. AnswerGood(f) /\ read[f].answer \in [Pages!Number -> Pages!Status]
    BY DEF PagesKept, Answers, Pages!TypeOK, Pages!Read
  <2>2. UpTo(read[f].answer, stage) BY <2>1 DEF AnswerGood, UpTo
  <2>3. UpTo(read[f].answer, stage') BY <1>1, <2>1, <2>2
  <2> QED BY <2>1, <2>3 DEF AnswerGood, UpTo
<1>4. OneRead' <=> OneRead BY DEF OneRead
<1>5. Chosing' /\ Pages!NoStepBack' BY DEF PagesKept, Chosing, Pages!NoStepBack
<1>6. Pages!FreshWhenOpened' /\ Pages!ListIsForStatus'
  BY DEF PagesKept, Pages!FreshWhenOpened, Pages!ListIsForStatus, Pages!UnderWay
<1> QED BY <1>2, <1>3, <1>4, <1>5, <1>6 DEF PagesKept

(* An order that moves on leaves the pages late, and not wrong.            *)
LEMMA MoveKept == ASSUME PagesKept, NEW o \in Pages!Number, Pages!Move(o) PROVE PagesKept'
<1>1. PICK s \in Pages!Moves(stage[o]) : stage' = [stage EXCEPT ![o] = s]
  BY DEF Pages!Move
<1>2. stage[o] \in Pages!Status /\ stage[o] # "NONE" /\ stage \in [Pages!Number -> Pages!Status]
  BY DEF PagesKept, Pages!TypeOK, Pages!Move
<1>3. s \in Pages!Status /\ s # "NONE" /\ Behind(stage[o], s)
  BY <1>2, MovesForward DEF Behind
<1>4. UpTo(stage, stage') BY <1>1, <1>2, <1>3, NothingBehind DEF UpTo
<1>5. Pages!Placed' = Pages!Placed BY <1>1, <1>2, <1>3 DEF Pages!Placed
<1>6. UNCHANGED <<whose, open, choice, loading, read, listed, age, hour, weekday, pages,
                  opened, shownFor, crossing, failing>> /\ moves' = moves + 1 /\ moves < MaxMoves
  BY DEF Pages!Move
<1>7. Pages!TypeOK' BY <1>1, <1>2, <1>3, <1>6, PagesAssumption DEF PagesKept, Pages!TypeOK
<1>8. Contiguous' BY <1>5 DEF PagesKept, Contiguous
<1>9. Pages!Reliable' = Pages!Reliable BY <1>5, <1>6 DEF Pages!Reliable, Pages!Recent
<1>10. Pages!Reliable \subseteq Pages!Number BY ReliableWanted DEF PagesKept
<1> QED BY <1>4, <1>6, <1>7, <1>8, <1>9, <1>10, OrdersFrame

(* A new order pushes older ones out of a page's reach, and adds none to   *)
(* those it must show.                                                     *)
LEMMA PlaceKept == ASSUME PagesKept, Pages!PlaceOrder PROVE PagesKept'
<1>1. PICK n \in Pages!Number : Pages!Placed = 1 .. n BY DEF PagesKept, Contiguous
<1>2. n \in Nat /\ Pages!Number = 1 .. LastOrder /\ LastOrder \in Nat /\ 1 <= n
  BY PagesAssumption DEF Pages!Number
<1>3. Cardinality(Pages!Placed) = n BY <1>1, <1>2, FS_Interval
<1>4. PICK p : p = n + 1 OBVIOUS
<1>5. PICK w \in {"me", "another"} :
        /\ p \in Pages!Number /\ stage' = [stage EXCEPT ![p] = "PENDING"]
        /\ whose' = [whose EXCEPT ![p] = w]
  BY <1>3, <1>4, SameCount DEF Pages!PlaceOrder
<1>6. UNCHANGED <<open, choice, loading, read, listed, age, hour, weekday, pages,
                  opened, shownFor, crossing, failing>> /\ moves' = moves + 1 /\ moves < MaxMoves
  BY DEF Pages!PlaceOrder
<1>7. stage \in [Pages!Number -> Pages!Status] /\ whose \in [Pages!Number -> {"me", "another"}]
  BY DEF PagesKept, Pages!TypeOK
<1>8. p \notin Pages!Placed /\ stage[p] = "NONE"
  <2>1. p \notin Pages!Placed BY <1>1, <1>2, <1>4
  <2> QED BY <1>5, <2>1 DEF Pages!Placed
<1>9. stage'[p] = "PENDING" /\ \A o \in Pages!Number : o # p => stage'[o] = stage[o] /\ whose'[o] = whose[o]
  BY <1>5, <1>7
<1>10. Pages!Placed' = Pages!Placed \cup {p} BY <1>5, <1>9 DEF Pages!Placed
<1>11. Pages!Placed' = 1 .. p BY <1>1, <1>2, <1>4, <1>10
<1>12. Contiguous' BY <1>5, <1>11 DEF Contiguous
<1>13. Pages!TypeOK' BY <1>5, <1>6, <1>7, StatusIs, PagesAssumption DEF PagesKept, Pages!TypeOK
<1>14. UpTo(stage, stage') BY <1>7, <1>8, <1>9, NothingBehind, StatusIs DEF UpTo
<1>15. Cardinality(Pages!Placed') = p BY <1>2, <1>4, <1>11, FS_Interval
<1>16. opened[p] = "NONE"
  BY <1>5, <1>8, BehindIs, RankNat, RankIs, StatusIs DEF PagesKept, UpTo, Pages!TypeOK,
     Behind
<1>17. ASSUME NEW o \in Pages!Reliable' PROVE o \in Pages!Reliable
  <2>1. ASSUME o \in Pages!Recent', o # p PROVE o \in Pages!Recent
    <3>1. o \in Pages!Placed /\ p - o < Take
      BY <1>10, <1>15, <2>1, SameCount DEF Pages!Recent
    <3>2. n - o < Take BY <1>1, <1>2, <1>4, <3>1, PagesAssumption
    <3> QED BY <1>3, <3>1, <3>2, SameCount DEF Pages!Recent
  <2>2. Pages!Recent' \subseteq Pages!Number BY DEF Pages!Recent, Pages!Placed
  <2>3. open \in Pages!Page BY DEF PagesKept, Pages!TypeOK
  <2>4. CASE open = "home"
    <3>1. o \in Pages!Recent' /\ opened[o] # "NONE" /\ whose'[o] = "me"
      BY <1>6, <2>4 DEF Pages!Reliable
    <3>2. o # p /\ o \in Pages!Number BY <1>16, <2>2, <3>1
    <3> QED BY <1>9, <2>1, <2>4, <3>1, <3>2 DEF Pages!Reliable
  <2>5. CASE open \in {"orders", "overview"}
    <3>1. o \in Pages!Recent' /\ opened[o] # "NONE" BY <1>6, <2>5 DEF Pages!Reliable
    <3>2. o # p BY <1>16, <3>1
    <3> QED BY <2>1, <2>5, <3>1, <3>2 DEF Pages!Reliable
  <2>6. CASE open \in {"tracking", "merchant", "earnings", "admin"}
    BY <1>6, <2>6 DEF Pages!Reliable
  <2> QED BY <2>3, <2>4, <2>5, <2>6 DEF Pages!Page
<1>18. Pages!Reliable \subseteq Pages!Number BY ReliableWanted DEF PagesKept
<1>19. Pages!Reliable' \subseteq Pages!Number BY <1>17, <1>18
<1> QED BY <1>6, <1>12, <1>13, <1>14, <1>17, <1>19, OrdersFrame

-----------------------------------------------------------------------------
(* The page.                                                               *)

(* A read goes on, and the orders stay.                                    *)
LEMMA ReadFrame ==
  ASSUME PagesKept, NEW f \in Reading, NEW g \in Pages!Read,
         read' = [read EXCEPT ![f] = g],
         UNCHANGED <<stage, whose, open, age, hour, weekday, pages, moves, opened>>,
         choice' \in Chosen \cup {"ALL"}, shownFor' \in Chosen \cup {"ALL"},
         {loading', crossing', failing'} \subseteq BOOLEAN, listed' \in [Pages!Number -> Pages!Status],
         UpTo(listed, stage)',
         g.at = "answered" =>
           /\ \A o \in Pages!Number : Behind(g.answer[o], stage[o])
           /\ \A o \in Pages!Reliable : Pages!Rank(g.answer[o]) >= Pages!Rank(opened[o])
  PROVE  /\ Pages!TypeOK' /\ Contiguous' /\ UpTo(opened, stage)' /\ UpTo(listed, stage)' /\ Answers'
         /\ Pages!Reliable' = Pages!Reliable
         /\ read'[f] = g /\ \A x \in Reading \ {f} : read'[x] = read[x]
<1>1. read' \in [Reading -> Pages!Read] /\ read'[f] = g /\ \A x \in Reading \ {f} : read'[x] = read[x]
  BY DEF PagesKept, Pages!TypeOK
<1>2. Pages!TypeOK' BY <1>1 DEF PagesKept, Pages!TypeOK
<1>3. Contiguous' /\ UpTo(opened, stage)' /\ Pages!Reliable' = Pages!Reliable
  BY DEF PagesKept, Contiguous, Pages!Placed, UpTo, Pages!Reliable, Pages!Recent
<1>4. Answers'
  <2> SUFFICES ASSUME NEW x \in Reading, read'[x].at = "answered" PROVE AnswerGood(x)'
    BY DEF Answers, AnswerGood
  <2>1. CASE x = f BY <1>1, <1>3, <2>1 DEF AnswerGood
  <2>2. CASE x # f
    <3>1. read'[x] = read[x] /\ AnswerGood(x) BY <1>1, <2>2 DEF PagesKept, Answers
    <3> QED BY <1>3, <3>1 DEF AnswerGood
  <2> QED BY <2>1, <2>2
<1> QED BY <1>1, <1>2, <1>3, <1>4

(* A read whose state changes.                                             *)
LEMMA ReadBecomes ==
  ASSUME NEW r \in Pages!Read, NEW at \in {"idle", "before", "asked", "answered"}
  PROVE  LET g == [r EXCEPT !.at = at] IN
         g \in Pages!Read /\ g.at = at /\ g.choice = r.choice /\ g.answer = r.answer
<1>1. PICK a, b, c, d : r = [at |-> a, first |-> b, choice |-> c, answer |-> d]
  BY DEF Pages!Read
<1>2. PICK g : g = [r EXCEPT !.at = at] OBVIOUS
<1>3. g = [at |-> at, first |-> b, choice |-> c, answer |-> d] BY <1>1, <1>2
<1> QED BY <1>1, <1>2, <1>3 DEF Pages!Read

(* The first read of a page.                                               *)
LEMMA PageRead ==
  ASSUME NEW at \in {"before", "asked"}
  PROVE  LET g == [Pages!Idle EXCEPT !.at = at, !.first = TRUE] IN
         g \in Pages!Read /\ g.at = at /\ g.choice = "ALL"
BY StatusIs DEF Pages!Idle, Pages!Read, Pages!Nowhere

(* The answer to the read before the orders keeps the invariant.           *)
LEMMA LookUpKept == ASSUME PagesKept, NEW f \in Reading, Pages!LookUp(f) PROVE PagesKept'
<1>1. PICK g \in Pages!Read : /\ read' = [read EXCEPT ![f] = g] /\ g.at = "asked"
                        /\ g.choice = read[f].choice
  <2>1. read[f] \in Pages!Read BY DEF PagesKept, Pages!TypeOK
  <2> QED BY <2>1, ReadBecomes DEF Pages!LookUp
<1>2. read' = [read EXCEPT ![f] = g] BY <1>1
<1>3. UNCHANGED <<stage, whose, open, choice, loading, listed, age, hour, weekday,
                  pages, moves, opened, shownFor, crossing, failing>> /\ read[f].at = "before"
  BY DEF Pages!LookUp
<1>4. UpTo(listed, stage)' BY <1>3 DEF PagesKept, UpTo
<1>5. /\ Pages!TypeOK' /\ Contiguous' /\ UpTo(opened, stage)' /\ UpTo(listed, stage)' /\ Answers'
      /\ Pages!Reliable' = Pages!Reliable
      /\ read'[f] = g /\ \A x \in Reading \ {f} : read'[x] = read[x]
  BY <1>1, <1>2, <1>3, <1>4, ReadFrame DEF PagesKept, Pages!TypeOK
<1>6. (~crossing => OneRead)' BY <1>1, <1>3, <1>5 DEF PagesKept, OneRead
<1>7. Chosing' BY <1>1, <1>3, <1>5 DEF PagesKept, Chosing
<1>8. Pages!NoStepBack' BY <1>1, <1>3, <1>5 DEF PagesKept, Pages!NoStepBack
<1>9. Pages!FreshWhenOpened' BY <1>3, <1>5 DEF PagesKept, Pages!FreshWhenOpened
<1>10. Pages!ListIsForStatus'
  <2>1. Pages!UnderWay' BY <1>1, <1>5 DEF Pages!UnderWay
  <2> QED BY <2>1 DEF Pages!ListIsForStatus
<1> QED BY <1>5, <1>6, <1>7, <1>8, <1>9, <1>10 DEF PagesKept

(* order-service answers with the orders as they are.                      *)
LEMMA ServeKept == ASSUME PagesKept, NEW f \in Reading, Pages!Serve(f) PROVE PagesKept'
<1>1. PICK a : a = [o \in Pages!Number |-> IF o \in Pages!Wanted(open, read[f].choice) THEN stage[o] ELSE "NONE"]
  OBVIOUS
<1>2. a \in [Pages!Number -> Pages!Status] /\ \A o \in Pages!Number : a[o] = stage[o] \/ a[o] = "NONE"
  BY <1>1, StatusIs DEF PagesKept, Pages!TypeOK
<1>3. PICK g \in Pages!Read : /\ read' = [read EXCEPT ![f] = g]
                        /\ g.at = "answered" /\ g.answer = a /\ g.choice = read[f].choice
  <2>1. PICK r \in Pages!Read : r = read[f] BY DEF PagesKept, Pages!TypeOK
  <2>2. PICK g : g = [[r EXCEPT !.at = "answered"] EXCEPT !.answer = a] OBVIOUS
  <2>3. read' = [read EXCEPT ![f] = g] BY <1>1, <2>1, <2>2 DEF Pages!Serve
  <2>4. PICK x, b, c, d : r = [at |-> x, first |-> b, choice |-> c, answer |-> d]
    BY <2>1 DEF Pages!Read
  <2>5. g = [at |-> "answered", first |-> b, choice |-> c, answer |-> a] BY <2>2, <2>4
  <2>6. g \in Pages!Read /\ g.at = "answered" /\ g.answer = a /\ g.choice = r.choice
    BY <1>2, <2>1, <2>4, <2>5 DEF Pages!Read
  <2> QED BY <2>1, <2>3, <2>6
<1>4. read' = [read EXCEPT ![f] = g] BY <1>3
<1>5. UNCHANGED <<stage, whose, open, choice, loading, listed, age, hour, weekday,
                  pages, moves, opened, shownFor, crossing, failing>> /\ read[f].at = "asked"
  BY DEF Pages!Serve
<1>6. UpTo(listed, stage)' BY <1>5 DEF PagesKept, UpTo
<1>7. \A o \in Pages!Number : Behind(a[o], stage[o])
  BY <1>2, NothingBehind DEF PagesKept, Pages!TypeOK
<1>8. \A o \in Pages!Reliable : Pages!Rank(a[o]) >= Pages!Rank(opened[o])
  <2> SUFFICES ASSUME NEW o \in Pages!Reliable
    PROVE Pages!Rank(a[o]) >= Pages!Rank(opened[o]) OBVIOUS
  <2>1. o \in Pages!Number /\ o \in Pages!Wanted(open, read[f].choice)
    BY ReliableWanted DEF PagesKept
  <2>2. a[o] = stage[o] BY <1>1, <2>1
  <2>3. Behind(opened[o], stage[o]) /\ opened[o] \in Pages!Status /\ stage[o] \in Pages!Status
    BY <2>1 DEF PagesKept, UpTo, Pages!TypeOK
  <2> QED BY <2>2, <2>3, BehindIs
<1>9. /\ Pages!TypeOK' /\ Contiguous' /\ UpTo(opened, stage)' /\ UpTo(listed, stage)' /\ Answers'
      /\ Pages!Reliable' = Pages!Reliable
      /\ read'[f] = g /\ \A x \in Reading \ {f} : read'[x] = read[x]
  BY <1>3, <1>4, <1>5, <1>6, <1>7, <1>8, ReadFrame DEF PagesKept, Pages!TypeOK
<1>10. (~crossing => OneRead)' BY <1>3, <1>5, <1>9 DEF PagesKept, OneRead
<1>11. Chosing' BY <1>3, <1>5, <1>9 DEF PagesKept, Chosing
<1>12. Pages!NoStepBack'
  <2> SUFFICES ASSUME ~crossing, NEW x \in Reading, NEW o \in Pages!Number,
                      read'[x].at = "answered", read'[x].answer[o] # "NONE"
               PROVE  Pages!Rank(read'[x].answer[o]) >= Pages!Rank(listed[o])
    BY <1>5 DEF Pages!NoStepBack
  <2>1. CASE x = f
    <3>1. read'[x].answer[o] = stage[o] BY <1>2, <1>3, <1>9, <2>1
    <3>2. Behind(listed[o], stage[o]) /\ listed[o] \in Pages!Status /\ stage[o] \in Pages!Status
      BY DEF PagesKept, UpTo, Pages!TypeOK
    <3> QED BY <3>1, <3>2, BehindIs
  <2>2. CASE x # f BY <1>9, <2>2 DEF PagesKept, Pages!NoStepBack
  <2> QED BY <2>1, <2>2
<1>13. Pages!FreshWhenOpened' BY <1>5, <1>9 DEF PagesKept, Pages!FreshWhenOpened
<1>14. Pages!ListIsForStatus'
  <2>1. Pages!UnderWay' BY <1>3, <1>9 DEF Pages!UnderWay
  <2> QED BY <2>1 DEF Pages!ListIsForStatus
<1> QED BY <1>9, <1>10, <1>11, <1>12, <1>13, <1>14 DEF PagesKept

(* The fields of a read that is not under way.                             *)
LEMMA IdleIs ==
  /\ Pages!Idle \in Pages!Read /\ Pages!Idle.at = "idle" /\ Pages!Idle.choice = "ALL" /\ Pages!Nowhere \in [Pages!Number -> Pages!Status]
  /\ \A o \in Pages!Number : Pages!Nowhere[o] = "NONE"
BY StatusIs DEF Pages!Idle, Pages!Read, Pages!Nowhere

(* An answer that arrives keeps the invariant.                             *)
LEMMA AnswerKept == ASSUME PagesKept, NEW f \in Reading, Pages!Answer(f) PROVE PagesKept'
<1>1. /\ read[f].at = "answered" /\ listed' = read[f].answer /\ shownFor' = read[f].choice
      /\ loading' = Pages!StillLoading(f) /\ read' = [read EXCEPT ![f] = Pages!Idle]
      /\ UNCHANGED <<stage, whose, open, choice, age, hour, weekday, pages, moves, opened,
                     crossing, failing>>
  BY DEF Pages!Answer
<1>2. read[f] \in Pages!Read /\ loading' \in BOOLEAN
  BY <1>1 DEF PagesKept, Pages!TypeOK, Pages!StillLoading
<1>3. listed' \in [Pages!Number -> Pages!Status] /\ shownFor' \in Chosen \cup {"ALL"}
  BY <1>1, <1>2 DEF Pages!Read
<1>4. AnswerGood(f) BY DEF PagesKept, Answers
<1>5. UpTo(listed, stage)' BY <1>1, <1>4 DEF AnswerGood, UpTo
<1>6. /\ Pages!TypeOK' /\ Contiguous' /\ UpTo(opened, stage)' /\ UpTo(listed, stage)' /\ Answers'
      /\ Pages!Reliable' = Pages!Reliable
      /\ read'[f] = Pages!Idle /\ \A x \in Reading \ {f} : read'[x] = read[x]
  BY <1>1, <1>2, <1>3, <1>5, IdleIs, ReadFrame DEF PagesKept, Pages!TypeOK
<1>7. (~crossing => OneRead)' BY <1>1, <1>6, IdleIs DEF PagesKept, OneRead
<1>8. Chosing' BY <1>1, <1>6, IdleIs DEF PagesKept, Chosing
<1>9. Pages!NoStepBack'
  <2> SUFFICES ASSUME ~crossing, NEW x \in Reading, read'[x].at = "answered" PROVE FALSE
    BY <1>1 DEF Pages!NoStepBack
  <2>1. x # f /\ read[x].at = "answered" BY <1>6, IdleIs
  <2> QED BY <1>1, <2>1 DEF PagesKept, OneRead
<1>10. Pages!FreshWhenOpened' BY <1>1, <1>4, <1>6 DEF Pages!FreshWhenOpened, AnswerGood
<1>11. Pages!ListIsForStatus' BY <1>1 DEF PagesKept, Pages!ListIsForStatus, Chosing
<1> QED BY <1>6, <1>7, <1>8, <1>9, <1>10, <1>11 DEF PagesKept

(* A read that fails leaves what is shown.                                 *)
LEMMA FailKept == ASSUME PagesKept, NEW f \in Reading, Pages!Fail(f) PROVE PagesKept'
<1>1. /\ loading' = Pages!StillLoading(f) /\ read' = [read EXCEPT ![f] = Pages!Idle] /\ failing' = TRUE
      /\ UNCHANGED <<stage, whose, open, choice, listed, age, hour, weekday, pages,
                     moves, opened, shownFor, crossing>>
  BY DEF Pages!Fail
<1>2. read[f] \in Pages!Read /\ loading' \in BOOLEAN
  BY <1>1 DEF PagesKept, Pages!TypeOK, Pages!StillLoading
<1>3. UpTo(listed, stage)' BY <1>1 DEF PagesKept, UpTo
<1>4. /\ Pages!TypeOK' /\ Contiguous' /\ UpTo(opened, stage)' /\ UpTo(listed, stage)' /\ Answers'
      /\ Pages!Reliable' = Pages!Reliable
      /\ read'[f] = Pages!Idle /\ \A x \in Reading \ {f} : read'[x] = read[x]
  BY <1>1, <1>2, <1>3, IdleIs, ReadFrame DEF PagesKept, Pages!TypeOK
<1>5. (~crossing => OneRead)' BY <1>1, <1>4, IdleIs DEF PagesKept, OneRead
<1>6. Chosing' BY <1>1, <1>4, IdleIs DEF PagesKept, Chosing
<1>7. Pages!NoStepBack' BY <1>1, <1>4, IdleIs DEF PagesKept, Pages!NoStepBack
<1>8. Pages!FreshWhenOpened' /\ Pages!ListIsForStatus'
  BY <1>1 DEF Pages!FreshWhenOpened, Pages!ListIsForStatus
<1> QED BY <1>4, <1>5, <1>6, <1>7, <1>8 DEF PagesKept

(* A tick of the tracking page's timer keeps the invariant.                *)
LEMMA PollKept == ASSUME PagesKept, NEW f \in Reading, Pages!Poll(f) PROVE PagesKept'
<1>1. PICK g \in Pages!Read : read' = [read EXCEPT ![f] = g] /\ g.at = "asked"
  <2>1. read[f] \in Pages!Read BY DEF PagesKept, Pages!TypeOK
  <2> QED BY <2>1, ReadBecomes DEF Pages!Poll
<1>2. read' = [read EXCEPT ![f] = g] BY <1>1
<1>3. /\ open = "tracking" /\ read[f].at = "idle" /\ crossing' = (crossing \/ Pages!UnderWay)
      /\ UNCHANGED <<stage, whose, open, choice, loading, listed, age, hour, weekday,
                     pages, moves, opened, shownFor, failing>>
  BY DEF Pages!Poll
<1>4. UpTo(listed, stage)' /\ crossing' \in BOOLEAN
  BY <1>3 DEF PagesKept, UpTo, Pages!TypeOK, Pages!UnderWay
<1>5. /\ Pages!TypeOK' /\ Contiguous' /\ UpTo(opened, stage)' /\ UpTo(listed, stage)' /\ Answers'
      /\ Pages!Reliable' = Pages!Reliable
      /\ read'[f] = g /\ \A x \in Reading \ {f} : read'[x] = read[x]
  BY <1>1, <1>2, <1>3, <1>4, ReadFrame DEF PagesKept, Pages!TypeOK
<1>6. (~crossing => OneRead)' BY <1>3, <1>5 DEF OneRead, Pages!UnderWay
<1>7. Chosing' /\ Pages!ListIsForStatus' BY <1>3 DEF Chosing, Pages!ListIsForStatus
<1>8. Pages!NoStepBack' BY <1>1, <1>3, <1>5 DEF PagesKept, Pages!NoStepBack
<1>9. Pages!FreshWhenOpened' BY <1>3, <1>5 DEF PagesKept, Pages!FreshWhenOpened
<1> QED BY <1>5, <1>6, <1>7, <1>8, <1>9 DEF PagesKept

(* The admin's choice of a status keeps the invariant.                     *)
LEMMA ChooseKept ==
  ASSUME PagesKept, NEW f \in Reading, NEW c \in Chosen \cup {"ALL"}, Pages!Choose(c, f)
  PROVE PagesKept'
<1>1. PICK g \in Pages!Read : /\ read' = [read EXCEPT ![f] = g] /\ g.at = "asked" /\ g.choice = c
  <2>1. PICK i : i = Pages!Idle OBVIOUS
  <2>2. PICK g : g = [[[i EXCEPT !.at = "asked"] EXCEPT !.first = TRUE] EXCEPT !.choice = c] OBVIOUS
  <2>3. read' = [read EXCEPT ![f] = g] BY <2>1, <2>2 DEF Pages!Choose
  <2>4. i = [at |-> "idle", first |-> FALSE, choice |-> "ALL", answer |-> Pages!Nowhere]
    BY <2>1 DEF Pages!Idle
  <2>5. g = [at |-> "asked", first |-> TRUE, choice |-> c, answer |-> Pages!Nowhere]
    BY <2>2, <2>4
  <2>6. g \in Pages!Read /\ g.at = "asked" /\ g.choice = c BY <2>5, IdleIs DEF Pages!Read
  <2> QED BY <2>3, <2>6
<1>2. read' = [read EXCEPT ![f] = g] BY <1>1
<1>3. /\ open = "admin" /\ read[f].at = "idle" /\ choice' = c /\ loading' = TRUE
      /\ crossing' = (crossing \/ Pages!UnderWay) /\ failing' = FALSE
      /\ UNCHANGED <<stage, whose, open, listed, age, hour, weekday, pages, moves,
                     opened, shownFor>>
  BY DEF Pages!Choose
<1>4. UpTo(listed, stage)' /\ crossing' \in BOOLEAN
  BY <1>3 DEF PagesKept, UpTo, Pages!TypeOK, Pages!UnderWay
<1>5. /\ Pages!TypeOK' /\ Contiguous' /\ UpTo(opened, stage)' /\ UpTo(listed, stage)' /\ Answers'
      /\ Pages!Reliable' = Pages!Reliable
      /\ read'[f] = g /\ \A x \in Reading \ {f} : read'[x] = read[x]
  BY <1>1, <1>2, <1>3, <1>4, ReadFrame DEF PagesKept, Pages!TypeOK
<1>6. (~crossing => OneRead)' BY <1>3, <1>5 DEF OneRead, Pages!UnderWay
<1>7. Chosing' BY <1>1, <1>3, <1>5 DEF Chosing, Pages!UnderWay
<1>8. Pages!NoStepBack' BY <1>1, <1>3, <1>5 DEF PagesKept, Pages!NoStepBack
<1>9. Pages!FreshWhenOpened' BY <1>3 DEF Pages!FreshWhenOpened
<1>10. Pages!ListIsForStatus'
  <2>1. Pages!UnderWay' BY <1>1, <1>5 DEF Pages!UnderWay
  <2> QED BY <2>1 DEF Pages!ListIsForStatus
<1> QED BY <1>5, <1>6, <1>7, <1>8, <1>9, <1>10 DEF PagesKept

(* A page that is opened shows nothing yet.                                *)
LEMMA OpenKept ==
  ASSUME PagesKept, NEW f \in Reading, NEW p \in Pages!Page, Pages!Open(p, f)
  PROVE  PagesKept'
<1>1. PICK g \in Pages!Read : /\ read' = [[x \in Reading |-> Pages!Idle] EXCEPT ![f] = g]
                        /\ g.at \in {"before", "asked"} /\ g.choice = "ALL"
  <2>1. PICK at \in {"before", "asked"} : at = Pages!Before(p) BY DEF Pages!Before
  <2> QED BY <2>1, PageRead DEF Pages!Open
<1>2. /\ pages < MaxOpened
      /\ pages' = pages + 1 /\ open' = p /\ choice' = "ALL" /\ shownFor' = "ALL"
      /\ loading' = TRUE /\ listed' = Pages!Nowhere /\ opened' = stage /\ crossing' = FALSE
      /\ failing' = FALSE /\ UNCHANGED <<stage, whose, moves>>
  BY DEF Pages!Open
<1>3. age' \in Age /\ hour' \in 0 .. 1 /\ weekday' \in Weekday
  BY DEF Pages!Open, PagesKept, Pages!TypeOK
<1>4. read'[f] = g /\ \A x \in Reading \ {f} : read'[x] = Pages!Idle BY <1>1
<1>5. read' \in [Reading -> Pages!Read] BY <1>1, IdleIs
<1>6. Pages!TypeOK'
  <2>1. pages' \in 0 .. MaxOpened /\ moves' \in 0 .. MaxMoves
    BY <1>2, PagesAssumption DEF PagesKept, Pages!TypeOK
  <2>2. {loading', crossing', failing'} \subseteq BOOLEAN BY <1>2
  <2>3. /\ stage' \in [Pages!Number -> Pages!Status] /\ whose' \in [Pages!Number -> {"me", "another"}]
        /\ opened' \in [Pages!Number -> Pages!Status] /\ listed' \in [Pages!Number -> Pages!Status]
    BY <1>2, IdleIs DEF PagesKept, Pages!TypeOK
  <2> QED BY <1>2, <1>3, <1>5, <2>1, <2>2, <2>3 DEF Pages!TypeOK
<1>7. Contiguous' BY <1>2 DEF PagesKept, Contiguous, Pages!Placed
<1>8. UpTo(opened, stage)' /\ UpTo(listed, stage)'
  BY <1>2, IdleIs, NothingBehind DEF PagesKept, Pages!TypeOK, UpTo
<1>9. Answers' /\ Pages!NoStepBack'
  BY <1>1, <1>4, IdleIs DEF Answers, AnswerGood, Pages!NoStepBack
<1>10. OneRead' /\ Chosing' BY <1>1, <1>2, <1>4, IdleIs DEF OneRead, Chosing
<1>11. Pages!UnderWay' BY <1>1, <1>4 DEF Pages!UnderWay
<1>12. Pages!FreshWhenOpened' /\ Pages!ListIsForStatus'
  BY <1>2, <1>11 DEF Pages!FreshWhenOpened, Pages!ListIsForStatus
<1> QED BY <1>6, <1>7, <1>8, <1>9, <1>10, <1>12 DEF PagesKept

(* Every step of orders and pages keeps the invariant.                     *)
LEMMA PagesStep == PagesKept /\ [Pages!Next]_(Pages!ordersVars) => PagesKept'
<1> SUFFICES ASSUME PagesKept, [Pages!Next]_(Pages!ordersVars) PROVE PagesKept' OBVIOUS
<1>1. CASE UNCHANGED Pages!ordersVars
  BY <1>1 DEF Pages!ordersVars, PagesKept, Pages!TypeOK, Contiguous, Pages!Placed, UpTo,
     Answers, AnswerGood,
              Pages!Reliable, Pages!Recent, OneRead, Chosing, Pages!NoStepBack, Pages!FreshWhenOpened, Pages!ListIsForStatus,
              Pages!UnderWay
<1>2. CASE Pages!Next
  BY <1>2, PlaceKept, MoveKept, PollKept, LookUpKept, ServeKept, AnswerKept, FailKept,
     OpenKept, ChooseKept DEF Pages!Next, Pages!Proceed
<1> QED BY <1>1, <1>2

(* The tracker: a status it shows is one the order was in.                 *)
LEMMA TrackerIsRight == PagesKept => Pages!TrackerTells
<1> SUFFICES ASSUME PagesKept PROVE Pages!TrackerTells OBVIOUS
<1>1. Pages!Followed \in Pages!Number BY PagesAssumption DEF Pages!Followed, Pages!Number
<1>2. /\ Behind(listed[Pages!Followed], stage[Pages!Followed])
      /\ listed[Pages!Followed] \in Pages!Status /\ stage[Pages!Followed] \in Pages!Status
  BY <1>1 DEF PagesKept, UpTo, Pages!TypeOK
<1>3. Pages!Banner(listed[Pages!Followed]) = "delivered" => stage[Pages!Followed] = "DELIVERED"
  BY <1>2, BehindIs DEF Pages!Banner, Final, Pages!Ended
<1>4. Pages!Banner(listed[Pages!Followed]) = "cancelled" => stage[Pages!Followed] = listed[Pages!Followed]
  BY <1>2, BehindIs DEF Pages!Banner, Final, Pages!Ended
<1>5. \A i \in Pages!Done(listed[Pages!Followed]) : i <= Pages!Rank(stage[Pages!Followed])
  BY <1>2, BehindIs DEF Pages!Done
<1> QED BY <1>3, <1>4, <1>5 DEF Pages!TrackerTells

(* The bars: spans of 24 hours and calendar days are a day apart at most.  *)
LEMMA BarsAreNear == Pages!TypeOK => Pages!BarsNearTheDay
<1> SUFFICES ASSUME Pages!TypeOK PROVE Pages!BarsNearTheDay OBVIOUS
<1>1. age \in Nat /\ weekday \in 0 .. 6 /\ hour \in {0, 1}
  BY PagesAssumption DEF Pages!TypeOK
<1>2. Pages!CalendarDaysAgo = Pages!DaysAgo \/ Pages!CalendarDaysAgo = Pages!DaysAgo + 1
  BY <1>1 DEF Pages!CalendarDaysAgo, Pages!DaysAgo
<1>3. Pages!Bar = Pages!DayOf(Pages!CalendarDaysAgo) \/ Pages!Bar = Pages!DayOf(Pages!CalendarDaysAgo - 1)
  <2>1. Pages!DaysAgo \in Int BY <1>1 DEF Pages!DaysAgo
  <2>2. Pages!CalendarDaysAgo = Pages!DaysAgo + 1 => Pages!CalendarDaysAgo - 1 = Pages!DaysAgo
    BY <2>1
  <2> QED BY <1>2, <2>2 DEF Pages!Bar
<1>4. Pages!Today => Pages!Bar = weekday
  <2>1. Pages!Today => Pages!DaysAgo = 0 BY <1>1 DEF Pages!Today, Pages!DaysAgo
  <2> QED BY <1>1, <2>1 DEF Pages!Bar, Pages!DayOf
<1> QED BY <1>3, <1>4 DEF Pages!BarsNearTheDay

(* However reads and orders interleave, the tracker may be late and is     *)
(* never wrong; a page goes back only when two reads crossed; nothing is   *)
(* left out that was there when the page was opened and is within its      *)
(* reach; the admin's list is of the status chosen; and the bars are at    *)
(* most a day off.                                                         *)
THEOREM PagesHold == Pages!Spec => []Pages!Inv
<1>1. PagesKept => Pages!Inv
  BY TrackerIsRight, BarsAreNear DEF PagesKept, Pages!Inv
<1> QED BY <1>1, InitKept, PagesStep, PTL DEF Pages!Spec
(* The service and the pages share no variable, so what the pages do beside *)
(* the service is what they do by themselves.                              *)
LEMMA PagesByThemselves == SpecHalves => Pages!Spec
<1>1. InitHalves => Pages!Init BY DEF InitHalves
<1>2. [InService \/ InPages]_<<half, vars, pagesVars>> => [Pages!Next]_(Pages!ordersVars)
  BY DEF InService, InPages, pagesVars, Pages!ordersVars
<1> QED BY <1>1, <1>2, PTL DEF SpecHalves, Pages!Spec

(* Beside the service the pages keep their invariant.                      *)
THEOREM PagesInvHolds == SpecHalves => []PagesInv
BY PagesByThemselves, PagesHold, PTL DEF PagesInv
=============================================================================
