------------------------ MODULE DispatchStoreProofs ------------------------
(***************************************************************************)
(* What the dispatch run checks on two handlers, two dispatches and a few  *)
(* couriers, proved for any number of them: first the dispatches, then the *)
(* search for a courier.  Then what the run of Screens checks of the pages *)
(* over the services: the wallet pages, the location page and the pages    *)
(* that list and decide, for any number of calls, payments and rows.       *)
(***************************************************************************)
EXTENDS MCDispatchStore, Screens, FiniteSetTheorems, TLAPS

-----------------------------------------------------------------------------
(* Types.                                                                  *)

(* A dispatch that is not in the table has a well-typed row.               *)
LEMMA AbsentType == Absent \in Row
  BY DEF Absent, Row, DriverOrNull

(* create() (dispatch.aggregate.ts) makes a well-typed row that is there.  *)
LEMMA CreatedType == \A o \in Order : Created(o) \in Row /\ Created(o) # Absent
  BY DEF Created, Absent, Row, DriverOrNull, Status

(* Every command of the aggregate leaves a well-typed row.                 *)
LEMMA AfterCommandType ==
  ASSUME NEW c \in Command, NEW e \in Row
  PROVE  AfterCommand(c, e) \in Row
<1>1. CASE c.op = "assignDriver"
  <2>1. c.driver \in Driver
    BY <1>1 DEF Command
  <2> QED
    BY <1>1, <2>1 DEF AfterCommand, AfterAssign, Row, Status, DriverOrNull
<1>2. CASE c.op = "driverDecline"
  <2>1. AfterCommand(c, e) = AfterDecline(e)
    BY <1>2 DEF AfterCommand
  <2>2. e.retry + 1 \in Nat
    BY DEF Row
  <2> QED
    BY <2>1, <2>2 DEF AfterDecline, Row, Status, DriverOrNull
<1>3. CASE c.op = "updateNotes"
  BY <1>3 DEF AfterCommand
<1>4. CASE c.op \notin {"assignDriver", "driverDecline", "updateNotes"}
  <2>1. NewStatus(c.op) \in Status
    BY <1>4 DEF Command, NewStatus, Status
  <2> QED
    BY <1>4, <2>1 DEF AfterCommand, Row
<1> QED
  BY <1>1, <1>2, <1>3, <1>4

(* What the update of a save writes is a well-typed row.                   *)
LEMMA SavedType ==
  ASSUME NEW e \in Row, NEW b \in Row, NEW current \in Row
  PROVE  Saved(e, b, current) \in Row
<1>1. ChangedColumns(e, b, current) \in Row
  BY DEF ChangedColumns, Row
<1> QED
  BY <1>1, AbsentType DEF Saved

(* The end of a request keeps the handlers well typed.                     *)
LEMMA FinishType ==
  ASSUME TypeOK, NEW r \in Request, Finish(r)
  PROVE  /\ pc' \in [Request -> {"idle", "insert", "select", "update"}]
         /\ target' \in [Request -> Dispatch \cup {NoDispatch}]
         /\ \A s \in Request : pc'[s] \in {"select", "update"} => target'[s] \in Dispatch
         /\ command' \in [Request -> Command \cup {CreateCommand}]
         /\ ent' \in [Request -> Row]
         /\ base' \in [Request -> Row]
  BY AbsentType DEF TypeOK, Finish

(* The empty table and the idle handlers are well typed.                   *)
LEMMA TypeOKInit == Init => TypeOK
  BY AbsentType DEF Init, TypeOK

(* Every statement of the service keeps the types.                         *)
LEMMA TypeOKNext == TypeOK /\ [Next]_vars => TypeOK'
<1> SUFFICES ASSUME TypeOK, [Next]_vars PROVE TypeOK'
  OBVIOUS
<1>1. ASSUME NEW r \in Request, NEW o \in Order, CreateCheck(r, o) PROVE TypeOK'
  BY <1>1, CreatedType DEF TypeOK, CreateCheck, Start, GoTo, tables, history
<1>2. ASSUME NEW r \in Request, NEW d \in Dispatch, Insert(r, d) PROVE TypeOK'
  BY <1>2, FinishType DEF TypeOK, Insert, history
<1>3. ASSUME NEW r \in Request, NEW d \in Dispatch, NEW c \in Command, Load(r, d, c)
      PROVE TypeOK'
  <2>1. AfterCommand(c, row[d]) \in Row
    BY AfterCommandType DEF TypeOK
  <2> QED
    BY <1>3, <2>1 DEF TypeOK, Load, Start, GoTo, tables, history
<1>4. ASSUME NEW r \in Request, SaveSelect(r) PROVE TypeOK'
  <2>1. target[r] \in Dispatch
    BY <1>4 DEF SaveSelect, TypeOK
  <2> QED
    BY <1>4, <2>1 DEF TypeOK, SaveSelect, GoTo, tables, history
<1>5. ASSUME NEW r \in Request, SaveUpdate(r) PROVE TypeOK'
  <2>1. target[r] \in Dispatch
    BY <1>5 DEF SaveUpdate, TypeOK
  <2>2. Saved(ent[r], base[r], row[target[r]]) \in Row
    BY <2>1, SavedType DEF TypeOK
  <2>3. row' \in [Dispatch -> Row]
    BY <1>5, <2>1, <2>2 DEF SaveUpdate, TypeOK
  <2>4. command[r].op = "assignDriver" => command[r].driver \in Driver
    BY DEF TypeOK, Command, CreateCommand
  <2>5. asked' \in [Dispatch -> SUBSET Driver] /\ again' \in SUBSET Dispatch
    BY <1>5, <2>1, <2>4 DEF SaveUpdate, Asks, TypeOK
  <2> QED
    BY <1>5, <2>3, <2>5, FinishType DEF TypeOK, SaveUpdate
<1>6. ASSUME NEW r \in Request, NEW d \in Dispatch, Delete(r, d) PROVE TypeOK'
  BY <1>6, AbsentType DEF TypeOK, Delete, Start, handler, history
<1>7. ASSUME NEW r \in Request, Abort(r) PROVE TypeOK'
  BY <1>7, FinishType DEF TypeOK, Abort, tables, history
<1>8. CASE UNCHANGED vars
  BY <1>8 DEF vars, TypeOK
<1> QED
  BY <1>1, <1>2, <1>3, <1>4, <1>5, <1>6, <1>7, <1>8 DEF Next

(* Every reachable state is well typed: the intermediate DRIVER_DECLINED   *)
(* and foreign values never reach the table, whatever the interleaving.    *)
THEOREM TypeCorrect == Spec => []TypeOK
  BY TypeOKInit, TypeOKNext, PTL DEF Spec

-----------------------------------------------------------------------------
(* The aggregate keeps the columns of a row in agreement.                  *)

(* A command whose guard held keeps the columns of a row in agreement; only*)
(* assignDriver adds a courier to those already matched.                   *)
LEMMA AfterCommandCoherent ==
  ASSUME NEW c \in Command, NEW e \in Row, RowCoherent(e), Allowed(c, e)
  PROVE  /\ RowCoherent(AfterCommand(c, e))
         /\ AfterCommand(c, e).order = e.order
         /\ AfterCommand(c, e).matched =
              IF c.op = "assignDriver" THEN e.matched \cup {c.driver} ELSE e.matched
         /\ AfterCommand(c, e) # Absent
<1>1. AfterCommand(c, e) \in Row
  BY AfterCommandType
<1>2. e.retry \in Nat /\ Cardinality(e.matched) \in Nat /\ IsFiniteSet(e.matched)
  BY FS_CardinalityType DEF Row, RowCoherent
<1>3. CASE c.op = "assignDriver"
  <2>1. /\ e.status = "MATCHING" /\ e.driver = NoDriver /\ e.retry < MaxMatchingAttempts
        /\ c.driver \in Driver /\ c.driver \notin e.matched
    BY <1>3 DEF Allowed, AllowedIn, RowCoherent, Command
  <2>2. /\ AfterCommand(c, e).status = "DRIVER_ASSIGNED"
        /\ AfterCommand(c, e).driver = c.driver
        /\ AfterCommand(c, e).matched = e.matched \cup {c.driver}
        /\ AfterCommand(c, e).retry = e.retry
        /\ AfterCommand(c, e).order = e.order
    BY <1>3 DEF AfterCommand, AfterAssign, Row
  <2>3. /\ IsFiniteSet(e.matched \cup {c.driver})
        /\ Cardinality(e.matched \cup {c.driver}) = Cardinality(e.matched) + 1
    BY <1>2, <2>1, FS_AddElement
  <2>4. Cardinality(e.matched) = e.retry
    BY <1>2, <2>1 DEF RowCoherent
  <2> QED
    BY <1>2, <1>3, <2>1, <2>2, <2>3, <2>4, NullAssumption
    DEF RowCoherent, Absent, MaxMatchingAttempts
<1>4. CASE c.op = "driverDecline"
  <2>1. /\ e.status = "DRIVER_ASSIGNED" /\ e.driver # NoDriver
        /\ e.retry < MaxMatchingAttempts
    BY <1>4 DEF Allowed, AllowedIn, RowCoherent
  <2>2. /\ AfterCommand(c, e).status =
             IF e.retry + 1 < MaxMatchingAttempts THEN "MATCHING" ELSE "EXPIRED"
        /\ AfterCommand(c, e).driver = NoDriver
        /\ AfterCommand(c, e).matched = e.matched
        /\ AfterCommand(c, e).retry = e.retry + 1
        /\ AfterCommand(c, e).order = e.order
    BY <1>4 DEF AfterCommand, AfterDecline, Row
  <2> QED
    BY <1>2, <1>4, <2>1, <2>2 DEF RowCoherent, Absent, MaxMatchingAttempts
<1>5. CASE c.op = "updateNotes"
  BY <1>5 DEF AfterCommand, RowCoherent, Absent
<1>6. CASE c.op \notin {"assignDriver", "driverDecline", "updateNotes"}
  <2>1. /\ AfterCommand(c, e).status = NewStatus(c.op)
        /\ AfterCommand(c, e).driver = e.driver
        /\ AfterCommand(c, e).matched = e.matched
        /\ AfterCommand(c, e).retry = e.retry
        /\ AfterCommand(c, e).order = e.order
    BY <1>6 DEF AfterCommand, Row
  <2>2. /\ NewStatus(c.op) \notin {"NONE", "MATCHING"}
        /\ \/ NewStatus(c.op) \in {"EXPIRED", "CANCELLED"}
           \/ e.status \in {"DRIVER_ASSIGNED", "DRIVER_ACCEPTED", "DRIVER_ARRIVED",
                            "PICKED_UP", "DELIVERING"}
    BY <1>6 DEF Command, NewStatus, Allowed, AllowedIn
  <2> QED
    BY <1>6, <2>1, <2>2 DEF RowCoherent, Absent
<1> QED
  BY <1>3, <1>4, <1>5, <1>6

(* At most three couriers are in a row.                                    *)
LEMMA ThreeMatched ==
  ASSUME NEW e \in Row, RowCoherent(e)
  PROVE  Cardinality(e.matched) <= MaxMatchingAttempts
  BY DEF RowCoherent, Row, MaxMatchingAttempts

(* A save whose select and update saw the same row writes the dispatch in  *)
(* memory.                                                                 *)
LEMMA FullWrite ==
  ASSUME NEW e \in Row, NEW b \in Row, b # Absent, e.order = b.order
  PROVE  Saved(e, b, b) = e
  BY DEF Saved, ChangedColumns, Row

-----------------------------------------------------------------------------
(* Coherent is inductive.  A step of handler r works on one dispatch d;    *)
(* the other dispatches and the other handlers are left as they are.       *)

(* The handlers other than r are where they were.                          *)
SlotsKept(r) ==
  \A s \in Request \ {r} :
    /\ pc'[s] = pc[s] /\ target'[s] = target[s] /\ command'[s] = command[s]
    /\ ent'[s] = ent[s] /\ base'[s] = base[s]

(* A step that works on another dispatch leaves e as it is: its row, its   *)
(* offers, and what is known of the handlers that met on it.               *)
DispatchKept(e) ==
  /\ row'[e] = row[e] /\ asked'[e] = asked[e]
  /\ e \in again' => e \in again
  /\ e \in spent => e \in spent'
  /\ e \in disturbed <=> e \in disturbed'

(* A step of handler r on dispatch d: what it leaves alone, and that d is  *)
(* coherent after it.                                                      *)
WorksOn(r, d) ==
  /\ SlotsKept(r)
  /\ target[r] \in {d, NoDispatch}
  /\ target'[r] \in {d, NoDispatch}
  /\ pc'[r] \in {"idle", "insert"} <=> target'[r] = NoDispatch
  /\ pc'[r] = "insert" => \E o \in Order : ent'[r] = Created(o)
  /\ \A e \in Dispatch \ {d} : DispatchKept(e)
  /\ d \in disturbed => d \in disturbed'
  /\ d \notin disturbed' => DispatchCoherent(d)'

(* A step that works on one dispatch leaves what the handlers of every     *)
(* other dispatch know of it as true as it was.                            *)
LEMMA DispatchFrame ==
  ASSUME TypeOK, Coherent, NEW r \in Request, NEW d \in Dispatch, WorksOn(r, d)
  PROVE  /\ \A s \in Request :
              /\ pc'[s] \in {"idle", "insert"} <=> target'[s] = NoDispatch
              /\ pc'[s] = "insert" => \E o \in Order : ent'[s] = Created(o)
         /\ \A e \in Dispatch \ disturbed' : DispatchCoherent(e)'
<1>1. ASSUME NEW s \in Request
      PROVE  /\ pc'[s] \in {"idle", "insert"} <=> target'[s] = NoDispatch
             /\ pc'[s] = "insert" => \E o \in Order : ent'[s] = Created(o)
  BY DEF WorksOn, SlotsKept, Coherent
<1>2. ASSUME NEW e \in Dispatch \ disturbed', e # d PROVE DispatchCoherent(e)'
  <2>1. DispatchCoherent(e) /\ DispatchKept(e)
    BY <1>2 DEF Coherent, WorksOn, DispatchKept
  <2>2. e # NoDispatch
    BY NullAssumption
  <2>3. \A s \in Request : target'[s] = e <=> target[s] = e
    BY <1>2, <2>2 DEF WorksOn, SlotsKept
  <2>4. \A s \in Request : target'[s] = e => s # r
    BY <1>2, <2>2 DEF WorksOn
  <2>5. ASSUME NEW s \in Request, target'[s] = e PROVE HandlerCoherent(s, e)'
    <3>1. HandlerCoherent(s, e)
      BY <2>1, <2>3, <2>5 DEF DispatchCoherent
    <3>2. /\ pc'[s] = pc[s] /\ command'[s] = command[s] /\ ent'[s] = ent[s]
          /\ base'[s] = base[s]
      BY <2>4, <2>5 DEF WorksOn, SlotsKept
    <3> QED
      BY <2>1, <3>1, <3>2 DEF HandlerCoherent, DispatchKept, Exists
  <2> QED
    BY <2>1, <2>3, <2>5 DEF DispatchCoherent, DispatchKept, Exists
<1> QED
  BY <1>1, <1>2 DEF WorksOn

(* A step that neither inserts a dispatch nor starts to create one leaves  *)
(* the question of second dispatches as it is.                             *)
NothingCreated ==
  /\ \A d \in Dispatch \ disturbed' :
       /\ Exists(d)' => Exists(d) /\ row'[d].order = row[d].order
       /\ row'[d].order \in {row[d].order, NoOrder}
  /\ \A s \in Request :
       pc'[s] = "insert" => pc[s] = "insert" /\ ent'[s] = ent[s]
  /\ disturbed \subseteq disturbed'
  /\ raced' = raced

(* A step that creates nothing brings no second dispatch of an order.      *)
LEMMA CreationFrame ==
  ASSUME Coherent, NothingCreated
  PROVE  /\ SingleDispatch'
         /\ \A o \in Order \ raced', s \in Request : CreationCoherent(s, o)'
<1>1. SingleDispatch'
  <2> SUFFICES ASSUME NEW d \in Dispatch \ disturbed', NEW e \in Dispatch \ disturbed',
                      Exists(d)', Exists(e)', row'[d].order = row'[e].order
               PROVE  d = e \/ row'[d].order \in raced'
    BY DEF SingleDispatch, Exists
  <2>1. /\ d \notin disturbed /\ e \notin disturbed /\ Exists(d) /\ Exists(e)
        /\ row'[d].order = row[d].order /\ row'[e].order = row[e].order
    BY DEF NothingCreated
  <2> QED
    BY <2>1 DEF Coherent, SingleDispatch, NothingCreated
<1>2. ASSUME NEW o \in Order \ raced', NEW s \in Request PROVE CreationCoherent(s, o)'
  <2>1. CreationCoherent(s, o)
    BY DEF Coherent, NothingCreated
  <2> QED
    BY <2>1, NullAssumption DEF CreationCoherent, NothingCreated
<1> QED
  BY <1>1, <1>2

(* The two frames together: a step on one dispatch that creates nothing    *)
(* keeps Coherent when it keeps that dispatch coherent.                    *)
LEMMA CoherentFrame ==
  ASSUME TypeOK, Coherent, NEW r \in Request, NEW d \in Dispatch, WorksOn(r, d),
         NothingCreated, d \notin spent' => row'[d] = Absent /\ d \notin disturbed'
  PROVE  Coherent'
<1>1. \A e \in Dispatch : e \notin spent' => row'[e] = Absent /\ e \notin disturbed'
  BY DEF Coherent, WorksOn, DispatchKept
<1> QED
  BY <1>1, DispatchFrame, CreationFrame DEF Coherent

(* The handler on an undisturbed dispatch is alone there.                  *)
LEMMA Alone ==
  ASSUME TypeOK, Coherent, NEW r \in Request, pc[r] \in {"select", "update"},
         target[r] \notin disturbed
  PROVE  /\ target[r] \in Dispatch
         /\ DispatchCoherent(target[r])
         /\ HandlerCoherent(r, target[r])
         /\ \A s \in Request : target[s] = target[r] => s = r
  BY DEF TypeOK, Coherent, DispatchCoherent

(* The empty table is coherent.                                            *)
LEMMA CoherentInit == Init => Coherent
<1> SUFFICES ASSUME Init PROVE Coherent
  OBVIOUS
<1>1. Cardinality({}) = 0
  BY FS_EmptySet
<1>2. ASSUME NEW d \in Dispatch PROVE DispatchCoherent(d)
  BY <1>1, NullAssumption DEF Init, DispatchCoherent, Exists, MaxMatchingAttempts
<1> QED
  BY <1>2, NullAssumption
  DEF Init, Coherent, SingleDispatch, CreationCoherent, Exists

(* Looking for a dispatch of the order, before one is created, keeps       *)
(* Coherent.                                                               *)
LEMMA CoherentCreateCheck ==
  ASSUME TypeOK, Coherent, NEW r \in Request, NEW o \in Order, CreateCheck(r, o)
  PROVE  Coherent'
<1>1. /\ target' = target /\ target[r] = NoDispatch /\ pc'[r] = "insert"
      /\ ent'[r] = Created(o) /\ SlotsKept(r)
  BY DEF CreateCheck, GoTo, SlotsKept, TypeOK, Coherent
<1>2. /\ row' = row /\ asked' = asked /\ again' = again /\ spent' = spent
      /\ disturbed' = disturbed
  BY DEF CreateCheck, tables, history
<1>3. \A s \in Request :
        /\ pc'[s] \in {"idle", "insert"} <=> target'[s] = NoDispatch
        /\ pc'[s] = "insert" => \E q \in Order : ent'[s] = Created(q)
  BY <1>1 DEF SlotsKept, Coherent
<1>4. ASSUME NEW d \in Dispatch \ disturbed' PROVE DispatchCoherent(d)'
  <2>1. DispatchCoherent(d)
    BY <1>2 DEF Coherent
  <2>2. \A s \in Request : target[s] = d => s # r
    BY <1>1, NullAssumption
  <2>3. ASSUME NEW s \in Request, target'[s] = d PROVE HandlerCoherent(s, d)'
    BY <1>1, <1>2, <2>1, <2>2, <2>3 DEF DispatchCoherent, HandlerCoherent, SlotsKept,
       Exists
  <2> QED
    BY <1>1, <1>2, <2>1, <2>3 DEF DispatchCoherent, Exists
<1>5. ASSUME NEW q \in Order \ raced', NEW s \in Request PROVE CreationCoherent(s, q)'
  <2>1. q \notin raced /\ (q = o => ~Creating(o)) /\ \A d \in Dispatch : row[d].order # o
    BY <1>5 DEF CreateCheck
  <2>2. \A t \in Request \ {r} : CreationCoherent(t, q)
    BY <2>1 DEF Coherent
  <2>3. CASE q = o
    <3>1. \A t \in Request : pc'[t] = "insert" /\ ent'[t].order = o => t = r
      BY <1>1, <2>1, <2>3 DEF Creating, SlotsKept
    <3> QED
      BY <1>2, <2>1, <2>3, <3>1 DEF CreationCoherent
  <2>4. CASE q # o
    <3>1. ent'[r].order # q
      BY <1>1, <2>4 DEF Created
    <3> QED
      BY <1>1, <1>2, <2>2, <3>1 DEF CreationCoherent, SlotsKept
  <2> QED
    BY <2>3, <2>4
<1>6. SingleDispatch'
  <2>1. raced \subseteq raced'
    BY DEF CreateCheck
  <2> QED
    BY <1>2, <2>1 DEF Coherent, SingleDispatch, Exists
<1>7. \A d \in Dispatch : d \notin spent' => row'[d] = Absent /\ d \notin disturbed'
  BY <1>2 DEF Coherent
<1> QED
  BY <1>3, <1>4, <1>5, <1>6, <1>7 DEF Coherent

(* A dispatch just created has no couriers and columns in agreement.       *)
LEMMA CreatedCoherent ==
  ASSUME NEW o \in Order
  PROVE  RowCoherent(Created(o)) /\ Created(o).order = o /\ Created(o).matched = {}
<1>1. IsFiniteSet({}) /\ Cardinality({}) = 0
  BY FS_EmptySet
<1> QED
  BY <1>1 DEF RowCoherent, Created, MaxMatchingAttempts

(* The end of a request frees its own handler and touches no other.        *)
LEMMA FinishSlot ==
  ASSUME TypeOK, NEW r \in Request, Finish(r)
  PROVE  SlotsKept(r) /\ target'[r] = NoDispatch /\ pc'[r] = "idle"
  BY DEF Finish, SlotsKept, TypeOK

(* Inserting the dispatch keeps Coherent: unless two creations of one order*)
(* crossed, it is the order's only one.                                    *)
LEMMA CoherentInsert ==
  ASSUME TypeOK, Coherent, NEW r \in Request, NEW d \in Dispatch, Insert(r, d)
  PROVE  Coherent'
<1>1. PICK o \in Order : ent[r] = Created(o) /\ ent[r].order = o
  BY CreatedCoherent DEF Insert, Coherent
<1>2. /\ d \notin spent /\ row[d] = Absent /\ d \notin disturbed
      /\ DispatchCoherent(d) /\ target[r] = NoDispatch /\ pc[r] = "insert"
  BY DEF Insert, Coherent
<1>3. /\ row' = [row EXCEPT ![d] = Created(o)] /\ row'[d] = Created(o)
      /\ spent' = spent \cup {d} /\ disturbed' = disturbed /\ raced' = raced
      /\ asked' = asked /\ again' = again
  BY <1>1 DEF Insert, history, TypeOK
<1>4. SlotsKept(r) /\ target'[r] = NoDispatch /\ pc'[r] = "idle"
  BY FinishSlot DEF Insert
<1>5. DispatchCoherent(d)'
  <2>1. \A s \in Request : target[s] # d
    BY <1>2 DEF DispatchCoherent, HandlerCoherent, Exists
  <2>2. \A s \in Request : target'[s] # d
    BY <1>4, <2>1, NullAssumption DEF SlotsKept
  <2>3. asked[d] = {}
    BY <1>2 DEF DispatchCoherent
  <2> QED
    BY <1>2, <1>3, <2>2, <2>3, CreatedCoherent DEF DispatchCoherent
<1>6. \A e \in Dispatch \ {d} : DispatchKept(e)
  BY <1>3 DEF DispatchKept, TypeOK
<1>7. WorksOn(r, d)
  BY <1>2, <1>3, <1>4, <1>5, <1>6 DEF WorksOn
<1>8. SingleDispatch'
  <2> SUFFICES ASSUME NEW x \in Dispatch \ disturbed', NEW y \in Dispatch \ disturbed',
                      Exists(x)', Exists(y)', row'[x].order = row'[y].order, x # y
               PROVE  row'[x].order \in raced'
    BY DEF SingleDispatch, Exists
  <2>1. CASE x # d /\ y # d
    BY <1>3, <1>6, <2>1 DEF DispatchKept, Exists, Coherent, SingleDispatch
  <2>2. CASE x = d \/ y = d
    <3>1. PICK e \in Dispatch \ disturbed : e # d /\ row[e].order = o /\ row'[x].order = o
      BY <1>3, <1>6, <2>2, CreatedCoherent DEF DispatchKept
    <3>2. ~CreationCoherent(r, o)
      BY <1>1, <1>2, <3>1 DEF CreationCoherent
    <3> QED
      BY <1>3, <3>1, <3>2 DEF Coherent
  <2> QED
    BY <2>1, <2>2
<1>9. ASSUME NEW q \in Order \ raced', NEW s \in Request PROVE CreationCoherent(s, q)'
  <2> SUFFICES ASSUME pc'[s] = "insert", ent'[s].order = q
               PROVE  /\ \A e \in Dispatch \ disturbed' : row'[e].order # q
                      /\ \A t \in Request : pc'[t] = "insert" /\ ent'[t].order = q => s = t
    BY DEF CreationCoherent
  <2>1. s # r /\ pc[s] = "insert" /\ ent[s].order = q
    BY <1>4 DEF SlotsKept
  <2>2. CreationCoherent(s, q)
    BY <1>3 DEF Coherent
  <2>3. q # o
    BY <1>1, <1>2, <2>1, <2>2 DEF CreationCoherent
  <2>4. \A e \in Dispatch \ disturbed' : row'[e].order # q
    BY <1>3, <1>6, <2>1, <2>2, <2>3, CreatedCoherent DEF CreationCoherent, DispatchKept
  <2>5. \A t \in Request : pc'[t] = "insert" /\ ent'[t].order = q => s = t
    BY <1>4, <2>1, <2>2 DEF CreationCoherent, SlotsKept
  <2> QED
    BY <2>4, <2>5
<1>10. \A e \in Dispatch : e \notin spent' => row'[e] = Absent /\ e \notin disturbed'
  BY <1>3, <1>6 DEF Coherent, DispatchKept
<1> QED
  BY <1>7, <1>8, <1>9, <1>10, DispatchFrame DEF Coherent

(* Loading a dispatch and applying a command in memory keeps Coherent.     *)
LEMMA CoherentLoad ==
  ASSUME TypeOK, Coherent, NEW r \in Request, NEW d \in Dispatch, NEW c \in Command,
         Load(r, d, c)
  PROVE  Coherent'
<1>1. /\ target[r] = NoDispatch /\ target'[r] = d /\ pc'[r] = "select"
      /\ command'[r] = c /\ ent'[r] = AfterCommand(c, row[d]) /\ SlotsKept(r)
  BY DEF Load, GoTo, SlotsKept, TypeOK, Coherent
<1>2. /\ row' = row /\ spent' = spent /\ asked' = asked /\ again' = again
      /\ raced' = raced /\ Exists(d) /\ Allowed(c, row[d])
  BY DEF Load, tables, history
<1>3. \A e \in Dispatch \ {d} : DispatchKept(e)
  BY <1>2 DEF Load, DispatchKept
<1>4. disturbed \subseteq disturbed' /\ d \in spent
  BY <1>2 DEF Load, Coherent, Exists
<1>5. d \notin disturbed' => DispatchCoherent(d)'
  <2> SUFFICES ASSUME d \notin disturbed' PROVE DispatchCoherent(d)'
    OBVIOUS
  <2>1. d \notin disturbed /\ ~Busy(d)
    BY DEF Load
  <2>2. DispatchCoherent(d)
    BY <2>1 DEF Coherent
  <2>3. \A s \in Request : target'[s] = d => s = r
    BY <1>1, <2>1 DEF Busy, SlotsKept
  <2>4. HandlerCoherent(r, d)'
    BY <1>1, <1>2 DEF HandlerCoherent, Exists
  <2> QED
    BY <1>2, <2>2, <2>3, <2>4 DEF DispatchCoherent, Exists
<1>6. WorksOn(r, d)
  BY <1>1, <1>3, <1>4, <1>5, NullAssumption DEF WorksOn
<1>7. NothingCreated
  BY <1>1, <1>2, <1>4 DEF NothingCreated, Exists, SlotsKept
<1> QED
  BY <1>2, <1>4, <1>6, <1>7, CoherentFrame

(* The select of a save keeps Coherent.                                    *)
LEMMA CoherentSaveSelect ==
  ASSUME TypeOK, Coherent, NEW r \in Request, SaveSelect(r)
  PROVE  Coherent'
<1>1. PICK d \in Dispatch : target[r] = d /\ pc[r] = "select"
  BY DEF SaveSelect, TypeOK
<1>2. /\ target' = target /\ pc'[r] = "update" /\ base'[r] = row[d]
      /\ command' = command /\ ent' = ent /\ SlotsKept(r)
  BY <1>1 DEF SaveSelect, GoTo, SlotsKept, TypeOK
<1>3. /\ row' = row /\ spent' = spent /\ asked' = asked /\ again' = again
      /\ raced' = raced /\ disturbed' = disturbed
  BY DEF SaveSelect, tables, history
<1>4. d \notin disturbed => DispatchCoherent(d)'
  <2> SUFFICES ASSUME d \notin disturbed PROVE DispatchCoherent(d)'
    OBVIOUS
  <2>1. DispatchCoherent(d) /\ HandlerCoherent(r, d)
    BY <1>1, Alone
  <2>2. HandlerCoherent(r, d)'
    BY <1>2, <1>3, <2>1 DEF HandlerCoherent, Exists
  <2>3. \A s \in Request : target'[s] = d => s = r
    BY <1>1, <1>2, <2>1 DEF DispatchCoherent
  <2> QED
    BY <1>3, <2>1, <2>2, <2>3 DEF DispatchCoherent, Exists
<1>5. WorksOn(r, d)
  BY <1>1, <1>2, <1>3, <1>4, NullAssumption DEF WorksOn, DispatchKept
<1>6. NothingCreated
  BY <1>2, <1>3 DEF NothingCreated, Exists, SlotsKept
<1> QED
  BY <1>3, <1>5, <1>6, CoherentFrame DEF Coherent

(* The update of an undisturbed dispatch writes the method's result, and   *)
(* an assignment asks a courier not asked before.                          *)
LEMMA UpdateWrites ==
  ASSUME TypeOK, Coherent, NEW r \in Request, SaveUpdate(r),
         NEW d \in Dispatch, target[r] = d, d \notin disturbed
  PROVE  /\ command[r] \in Command
         /\ row[d] \in Row /\ Exists(d) /\ RowCoherent(row[d])
         /\ Allowed(command[r], row[d])
         /\ row' = [row EXCEPT ![d] = AfterCommand(command[r], row[d])]
         /\ asked'[d] = AfterCommand(command[r], row[d]).matched
         /\ again' = again
<1>1. pc[r] = "update"
  BY DEF SaveUpdate
<1>2. DispatchCoherent(d) /\ HandlerCoherent(r, d)
  BY <1>1, Alone
<1>3. /\ command[r] \in Command /\ Exists(d) /\ Allowed(command[r], row[d])
      /\ RowCoherent(row[d]) /\ asked[d] = row[d].matched
      /\ ent[r] = AfterCommand(command[r], row[d]) /\ base[r] = row[d]
  BY <1>1, <1>2 DEF HandlerCoherent, DispatchCoherent
<1>4. row[d] \in Row /\ ent[r] \in Row
  BY DEF TypeOK
<1>5. /\ ent[r].order = row[d].order
      /\ ent[r].matched = IF command[r].op = "assignDriver"
                          THEN row[d].matched \cup {command[r].driver} ELSE row[d].matched
  BY <1>3, <1>4, AfterCommandCoherent
<1>6. Saved(ent[r], base[r], row[d]) = ent[r]
  BY <1>3, <1>4, <1>5, FullWrite DEF Exists
<1>7. row' = [row EXCEPT ![d] = AfterCommand(command[r], row[d])]
  BY <1>3, <1>6 DEF SaveUpdate
<1>8. CASE command[r].op = "assignDriver"
  <2>1. Asks(r)
    BY <1>3, <1>8 DEF Asks, Exists
  <2>2. command[r].driver \notin asked[d]
    BY <1>3, <1>8 DEF Allowed
  <2>3. asked'[d] = asked[d] \cup {command[r].driver} /\ again' = again
    BY <2>1, <2>2 DEF SaveUpdate, TypeOK
  <2> QED
    BY <1>3, <1>4, <1>5, <1>7, <1>8, <2>3
<1>9. CASE command[r].op # "assignDriver"
  <2>1. ~Asks(r)
    BY <1>9 DEF Asks
  <2>2. asked' = asked /\ again' = again
    BY <2>1 DEF SaveUpdate
  <2> QED
    BY <1>3, <1>4, <1>5, <1>7, <1>9, <2>2
<1> QED
  BY <1>8, <1>9

(* The update of a save keeps Coherent: undisturbed, it writes exactly the *)
(* dispatch in memory.                                                     *)
LEMMA CoherentSaveUpdate ==
  ASSUME TypeOK, Coherent, NEW r \in Request, SaveUpdate(r)
  PROVE  Coherent'
<1>1. PICK d \in Dispatch : target[r] = d /\ pc[r] = "update"
  BY DEF SaveUpdate, TypeOK
<1>2. SlotsKept(r) /\ target'[r] = NoDispatch /\ pc'[r] = "idle"
  BY FinishSlot DEF SaveUpdate
<1>3. spent' = spent /\ raced' = raced /\ disturbed' = disturbed
  BY DEF SaveUpdate
<1>4. \A e \in Dispatch \ {d} : DispatchKept(e)
  BY <1>1 DEF SaveUpdate, DispatchKept, TypeOK
<1>5. ASSUME d \notin disturbed
      PROVE  /\ DispatchCoherent(d)' /\ Exists(d) /\ row'[d].order = row[d].order
  <2>1. /\ command[r] \in Command /\ row[d] \in Row /\ Exists(d)
        /\ RowCoherent(row[d]) /\ Allowed(command[r], row[d])
        /\ row'[d] = AfterCommand(command[r], row[d])
        /\ asked'[d] = row'[d].matched /\ again' = again
    BY <1>1, <1>5, UpdateWrites DEF TypeOK
  <2>2. /\ RowCoherent(row'[d]) /\ row'[d].order = row[d].order /\ Exists(d)'
        /\ row'[d] \in Row
    BY <2>1, AfterCommandCoherent, AfterCommandType DEF Exists
  <2>3. Cardinality(asked'[d]) <= MaxMatchingAttempts
    BY <2>1, <2>2, ThreeMatched
  <2>4. DispatchCoherent(d) /\ d \in spent
    BY <1>5, <2>1 DEF Coherent, Exists
  <2>5. \A s \in Request : target'[s] # d
    BY <1>1, <1>2, <2>4, NullAssumption DEF SlotsKept, DispatchCoherent
  <2> QED
    BY <1>3, <2>1, <2>2, <2>3, <2>4, <2>5 DEF DispatchCoherent
<1>6. WorksOn(r, d)
  BY <1>1, <1>2, <1>3, <1>4, <1>5 DEF WorksOn
<1>7. NothingCreated
  BY <1>2, <1>3, <1>4, <1>5 DEF NothingCreated, DispatchKept, Exists, SlotsKept
<1>8. d \in spent
  BY <1>5 DEF Coherent, Exists
<1> QED
  BY <1>3, <1>6, <1>7, <1>8, CoherentFrame

(* Deleting a dispatch keeps Coherent.                                     *)
LEMMA CoherentDelete ==
  ASSUME TypeOK, Coherent, NEW r \in Request, NEW d \in Dispatch, Delete(r, d)
  PROVE  Coherent'
<1>1. /\ target' = target /\ pc' = pc /\ command' = command /\ ent' = ent
      /\ base' = base /\ target[r] = NoDispatch /\ pc[r] = "idle"
  BY DEF Delete, handler, Coherent
<1>2. /\ row' = [row EXCEPT ![d] = Absent] /\ row'[d] = Absent /\ spent' = spent
      /\ asked' = asked /\ again' = again /\ raced' = raced /\ Exists(d)
  BY DEF Delete, history, TypeOK
<1>3. \A e \in Dispatch \ {d} : DispatchKept(e)
  BY <1>2 DEF Delete, DispatchKept, TypeOK
<1>4. disturbed \subseteq disturbed' /\ d \in spent
  BY <1>2 DEF Delete, Coherent, Exists
<1>5. d \notin disturbed' => DispatchCoherent(d)'
  <2> SUFFICES ASSUME d \notin disturbed' PROVE DispatchCoherent(d)'
    OBVIOUS
  <2>1. d \notin disturbed /\ ~Busy(d)
    BY DEF Delete
  <2>2. DispatchCoherent(d)
    BY <2>1 DEF Coherent
  <2>3. \A s \in Request : target'[s] # d
    BY <1>1, <2>1 DEF Busy
  <2> QED
    BY <1>2, <2>2, <2>3 DEF DispatchCoherent, Exists
<1>6. WorksOn(r, d)
  BY <1>1, <1>3, <1>4, <1>5 DEF WorksOn, SlotsKept
<1>7. NothingCreated
  BY <1>1, <1>2, <1>3, <1>4 DEF NothingCreated, DispatchKept, Exists, Absent
<1> QED
  BY <1>2, <1>4, <1>6, <1>7, CoherentFrame

(* A request that is cut off keeps Coherent.                               *)
LEMMA CoherentAbort ==
  ASSUME TypeOK, Coherent, NEW r \in Request, Abort(r)
  PROVE  Coherent'
<1>1. SlotsKept(r) /\ target'[r] = NoDispatch /\ pc'[r] = "idle"
  BY FinishSlot DEF Abort
<1>2. /\ row' = row /\ spent' = spent /\ asked' = asked /\ again' = again
      /\ raced' = raced /\ disturbed' = disturbed
  BY DEF Abort, tables, history
<1>3. ASSUME NEW d \in Dispatch \ disturbed' PROVE DispatchCoherent(d)'
  <2>1. DispatchCoherent(d)
    BY <1>2 DEF Coherent
  <2>2. ASSUME NEW s \in Request, target'[s] = d
    PROVE target[s] = d /\ HandlerCoherent(s, d)'
    <3>1. s # r /\ target[s] = d
      BY <1>1, <2>2, NullAssumption DEF SlotsKept
    <3> QED
      BY <1>1, <1>2, <2>1, <3>1 DEF SlotsKept, DispatchCoherent, HandlerCoherent, Exists
  <2> QED
    BY <1>2, <2>1, <2>2 DEF DispatchCoherent, Exists
<1>4. \A s \in Request :
        /\ pc'[s] \in {"idle", "insert"} <=> target'[s] = NoDispatch
        /\ pc'[s] = "insert" => \E o \in Order : ent'[s] = Created(o)
  BY <1>1 DEF SlotsKept, Coherent
<1>5. NothingCreated
  BY <1>1, <1>2 DEF NothingCreated, Exists, SlotsKept
<1> QED
  BY <1>2, <1>3, <1>4, <1>5, CreationFrame DEF Coherent

(* Every step keeps Coherent.                                              *)
LEMMA CoherentNext == TypeOK /\ Coherent /\ [Next]_vars => Coherent'
<1> SUFFICES ASSUME TypeOK, Coherent, [Next]_vars PROVE Coherent'
  OBVIOUS
<1>1. CASE UNCHANGED vars
  BY <1>1 DEF vars, Coherent, DispatchCoherent, HandlerCoherent, SingleDispatch,
              CreationCoherent, Exists
<1>2. CASE Next
  BY <1>2, CoherentCreateCheck, CoherentInsert, CoherentLoad, CoherentSaveSelect,
     CoherentSaveUpdate, CoherentDelete, CoherentAbort DEF Next
<1> QED
  BY <1>1, <1>2

(* The inductive invariant: the handler alone on a dispatch holds what the *)
(* table holds or what its save is about to write, the columns of an       *)
(* undisturbed row agree with each other and with the couriers asked.      *)
THEOREM MemoryCoherent == Spec => []Coherent
  BY TypeOKInit, TypeOKNext, CoherentInit, CoherentNext, PTL DEF Spec

(* An undisturbed dispatch asks nobody twice and at most three couriers.   *)
THEOREM AskedAtMostOnce == Spec => []AskedOnce
<1>1. Coherent => AskedOnce
  BY DEF Coherent, AskedOnce, DispatchCoherent
<1> QED
  BY <1>1, MemoryCoherent, PTL

(* An order has two undisturbed dispatches only after two createDispatch   *)
(* overlapped on it.                                                       *)
THEOREM OneUnlessRaced == Spec => []SingleDispatch
<1>1. Coherent => SingleDispatch
  BY DEF Coherent
<1> QED
  BY <1>1, MemoryCoherent, PTL

-----------------------------------------------------------------------------
(* The dispatches' life is DispatchOffers.                                 *)

(* The instance brings its own copy of Cardinality.                        *)
LEMMA SameCardinality == \A S : Offers!Cardinality(S) = Cardinality(S)
  BY DEF Offers!Cardinality, Cardinality

(* A step that writes w into row d shows in the mapped variables at d.     *)
LEMMA MappedWrite ==
  ASSUME TypeOK, NEW d \in Dispatch, NEW w, row' = [row EXCEPT ![d] = w]
  PROVE  /\ [e \in Dispatch |-> Phase(row'[e].status)] =
              [[e \in Dispatch |-> Phase(row[e].status)] EXCEPT ![d] = Phase(w.status)]
         /\ [e \in Dispatch |-> row'[e].driver] =
              [[e \in Dispatch |-> row[e].driver] EXCEPT ![d] = w.driver]
         /\ [e \in Dispatch |-> row'[e].matched] =
              [[e \in Dispatch |-> row[e].matched] EXCEPT ![d] = w.matched]
         /\ \A e \in Dispatch \ {d} : row'[e] = row[e]
  BY DEF TypeOK

(* Each method of the aggregate is one step of the promise, or invisible.  *)
LEMMA CommandIsStep ==
  ASSUME TypeOK, NEW d \in Dispatch, NEW c \in Command, RowCoherent(row[d]),
         Allowed(c, row[d]), row' = [row EXCEPT ![d] = AfterCommand(c, row[d])]
  PROVE  Offers!Step(d) \/ Offers!Same(d)
<1> DEFINE w == AfterCommand(c, row[d])
<1>1. row[d] \in Row
  BY DEF TypeOK
<1>2. /\ [e \in Dispatch |-> Phase(row'[e].status)] =
            [[e \in Dispatch |-> Phase(row[e].status)] EXCEPT ![d] = Phase(w.status)]
      /\ [e \in Dispatch |-> row'[e].driver] =
            [[e \in Dispatch |-> row[e].driver] EXCEPT ![d] = w.driver]
      /\ [e \in Dispatch |-> row'[e].matched] =
            [[e \in Dispatch |-> row[e].matched] EXCEPT ![d] = w.matched]
  BY MappedWrite
<1>3. CASE c.op = "assignDriver"
  <2>1. /\ row[d].status = "MATCHING" /\ c.driver \notin row[d].matched
        /\ c.driver \in Driver
        /\ Cardinality(row[d].matched) < MaxMatchingAttempts
    BY <1>1, <1>3 DEF Allowed, AllowedIn, RowCoherent, Command, Row
  <2>2. /\ w.status = "DRIVER_ASSIGNED" /\ w.driver = c.driver
        /\ w.matched = row[d].matched \cup {c.driver}
    BY <1>1, <1>3 DEF AfterCommand, AfterAssign, Row
  <2>3. Offers!Offer(d, c.driver)
    BY <1>2, <2>1, <2>2, SameCardinality DEF Offers!Offer, Offers!Becomes, Phase
  <2> QED
    BY <2>1, <2>3 DEF Offers!Step
<1>4. CASE c.op = "driverDecline"
  <2>1. row[d].status = "DRIVER_ASSIGNED" /\ row[d].driver # NoDriver
    BY <1>4 DEF Allowed, AllowedIn, RowCoherent
  <2>2. /\ w.driver = NoDriver /\ w.matched = row[d].matched
        /\ w.status = IF row[d].retry + 1 < MaxMatchingAttempts
                      THEN "MATCHING" ELSE "EXPIRED"
    BY <1>1, <1>4 DEF AfterCommand, AfterDecline, Row
  <2>3. Cardinality(row[d].matched) = row[d].retry + 1
    BY <2>1 DEF RowCoherent
  <2>4. Offers!Refuse(d)
    BY <1>2, <2>1, <2>2, <2>3, SameCardinality DEF Offers!Refuse, Offers!Becomes, Phase
  <2> QED
    BY <2>4 DEF Offers!Step
<1>5. CASE c.op = "updateNotes"
  BY <1>5 DEF AfterCommand, Offers!Same, TypeOK
<1>6. CASE c.op \notin {"assignDriver", "driverDecline", "updateNotes"}
  <2>1. w.status = NewStatus(c.op) /\ w.driver = row[d].driver /\ w.matched = row[d].matched
    BY <1>1, <1>6 DEF AfterCommand, Row
  <2>2. /\ [e \in Dispatch |-> row'[e].driver] = [e \in Dispatch |-> row[e].driver]
        /\ [e \in Dispatch |-> row'[e].matched] = [e \in Dispatch |-> row[e].matched]
    BY <1>2, <2>1
  <2>3. CASE c.op = "driverAccept"
    <3>1. row[d].status = "DRIVER_ASSIGNED" /\ w.status = "DRIVER_ACCEPTED"
      BY <2>1, <2>3 DEF Allowed, AllowedIn, NewStatus
    <3> QED
      BY <1>2, <2>2, <3>1 DEF Offers!Step, Offers!Take, Offers!Becomes, Phase
  <2>4. CASE c.op = "driverArrived"
    <3>1. row[d].status = "DRIVER_ACCEPTED" /\ w.status = "DRIVER_ARRIVED"
      BY <2>1, <2>4 DEF Allowed, AllowedIn, NewStatus
    <3> QED
      BY <1>2, <2>2, <3>1 DEF Offers!Step, Offers!Arrive, Offers!Becomes, Phase
  <2>5. CASE c.op \in {"markPickedUp", "startDelivering"}
    <3>1. Phase(row[d].status) = "underway" /\ Phase(w.status) = "underway"
      BY <2>1, <2>5 DEF Allowed, AllowedIn, NewStatus, Phase
    <3> QED
      BY <2>1, <3>1 DEF Offers!Same, TypeOK
  <2>6. CASE c.op = "markDelivered"
    <3>1. row[d].status = "DELIVERING" /\ w.status = "DELIVERED"
      BY <2>1, <2>6 DEF Allowed, AllowedIn, NewStatus
    <3> QED
      BY <1>2, <2>2, <3>1 DEF Offers!Step, Offers!Deliver, Offers!Becomes, Phase
  <2>7. CASE c.op \in {"expire", "cancel"}
    <3>1. /\ Phase(row[d].status) \in {"searching", "offered", "taken"}
          /\ Phase(w.status) = "failed"
      BY <2>1, <2>7 DEF Allowed, AllowedIn, NewStatus, Phase
    <3> QED
      BY <1>2, <2>2, <3>1 DEF Offers!Step, Offers!Fail, Offers!Becomes
  <2> QED
    BY <1>6, <2>3, <2>4, <2>5, <2>6, <2>7 DEF Command
<1> QED
  BY <1>3, <1>4, <1>5, <1>6

(* The dispatch a step works on takes a step of the promise, unless it was *)
(* disturbed; no other dispatch moves.                                     *)
LEMMA OneStep ==
  ASSUME TypeOK, Coherent, Next
  PROVE  \/ row' = row
         \/ \E d \in Dispatch :
              /\ \A e \in Dispatch \ {d} : row'[e] = row[e]
              /\ d \in disturbed' \/ Offers!Step(d) \/ Offers!Same(d)
<1>1. ASSUME NEW r \in Request, NEW d \in Dispatch, Insert(r, d)
      PROVE  Offers!Step(d) /\ \A e \in Dispatch \ {d} : row'[e] = row[e]
  <2>1. PICK o \in Order : ent[r] = Created(o)
    BY <1>1 DEF Insert, Coherent
  <2>2. row' = [row EXCEPT ![d] = Created(o)] /\ row[d] = Absent
    BY <1>1, <2>1 DEF Insert, Coherent
  <2>3. Offers!Open(d)
    <3>1. /\ Created(o).status = "MATCHING" /\ Created(o).driver = row[d].driver
          /\ Created(o).matched = row[d].matched /\ row[d].status = "NONE"
      BY <2>2 DEF Created, Absent
    <3> QED
      <4>1. Phase("NONE") = "none" /\ Phase("MATCHING") = "searching"
        BY DEF Phase
      <4>2. /\ [e \in Dispatch |-> Phase(row'[e].status)] =
                 [[e \in Dispatch |-> Phase(row[e].status)] EXCEPT ![d] = Phase(Created(o).status)]
            /\ [e \in Dispatch |-> row'[e].driver] =
                 [[e \in Dispatch |-> row[e].driver] EXCEPT ![d] = Created(o).driver]
            /\ [e \in Dispatch |-> row'[e].matched] =
                 [[e \in Dispatch |-> row[e].matched] EXCEPT ![d] = Created(o).matched]
        BY <2>2, MappedWrite
      <4>3. /\ [e \in Dispatch |-> row'[e].driver] = [e \in Dispatch |-> row[e].driver]
            /\ [e \in Dispatch |-> row'[e].matched] = [e \in Dispatch |-> row[e].matched]
        BY <3>1, <4>2
      <4> QED
        BY <3>1, <4>1, <4>2, <4>3 DEF Offers!Open, Offers!Becomes
  <2> QED
    BY <2>2, <2>3, MappedWrite DEF Offers!Step
<1>2. ASSUME NEW r \in Request, SaveUpdate(r)
      PROVE  \E d \in Dispatch :
               /\ \A e \in Dispatch \ {d} : row'[e] = row[e]
               /\ d \in disturbed' \/ Offers!Step(d) \/ Offers!Same(d)
  <2>1. PICK d \in Dispatch : target[r] = d
    BY <1>2 DEF SaveUpdate, TypeOK
  <2>2. \A e \in Dispatch \ {d} : row'[e] = row[e]
    BY <1>2, <2>1 DEF SaveUpdate, TypeOK
  <2>3. disturbed' = disturbed
    BY <1>2 DEF SaveUpdate
  <2>4. d \in disturbed \/ Offers!Step(d) \/ Offers!Same(d)
    BY <1>2, <2>1, UpdateWrites, CommandIsStep
  <2> QED
    BY <2>2, <2>3, <2>4
<1>3. ASSUME NEW r \in Request, NEW d \in Dispatch, Delete(r, d)
      PROVE  Offers!Step(d) /\ \A e \in Dispatch \ {d} : row'[e] = row[e]
  <2>1. row' = [row EXCEPT ![d] = Absent]
    BY <1>3 DEF Delete
  <2>2. Offers!Remove(d)
    <3>1. /\ Absent.driver = NoDriver /\ Absent.matched = {}
          /\ Phase(Absent.status) = "none"
      BY DEF Absent, Phase
    <3>2. /\ [e \in Dispatch |-> Phase(row'[e].status)] =
               [[e \in Dispatch |-> Phase(row[e].status)] EXCEPT ![d] = Phase(Absent.status)]
          /\ [e \in Dispatch |-> row'[e].driver] =
               [[e \in Dispatch |-> row[e].driver] EXCEPT ![d] = Absent.driver]
          /\ [e \in Dispatch |-> row'[e].matched] =
               [[e \in Dispatch |-> row[e].matched] EXCEPT ![d] = Absent.matched]
      BY <2>1, MappedWrite
    <3> QED
      BY <3>1, <3>2 DEF Offers!Remove, Offers!Becomes
  <2> QED
    BY <2>1, <2>2, MappedWrite DEF Offers!Step
<1>4. ASSUME NEW r \in Request,
             \/ \E o \in Order : CreateCheck(r, o)
             \/ \E d \in Dispatch, c \in Command : Load(r, d, c)
             \/ SaveSelect(r) \/ Abort(r)
      PROVE  row' = row
  BY <1>4 DEF CreateCheck, Load, SaveSelect, Abort, tables
<1> QED
  BY <1>1, <1>2, <1>3, <1>4 DEF Next

(* Every step on an undisturbed dispatch is a step of DispatchOffers or    *)
(* invisible there.                                                        *)
THEOREM FollowsOffers == Spec => UndisturbedFollowsOffers
<1>1. ASSUME TypeOK, Coherent, [Next]_vars, NEW d \in Dispatch
      PROVE  d \in disturbed' \/ Offers!Step(d) \/ Offers!Same(d)
  <2>1. CASE row'[d] = row[d]
    BY <2>1 DEF Offers!Same
  <2>2. CASE row'[d] # row[d]
    <3>1. Next
      BY <1>1, <2>2 DEF vars
    <3> QED
      BY <1>1, <2>2, <3>1, OneStep
  <2> QED
    BY <2>1, <2>2
<1>2. TypeOK /\ Coherent /\ [Next]_vars =>
        [\A d \in Dispatch : d \in disturbed' \/ Offers!Step(d) \/ Offers!Same(d)]_vars
  BY <1>1
<1> QED
  BY <1>2, TypeCorrect, MemoryCoherent, PTL DEF Spec, UndisturbedFollowsOffers

(* No two handlers met on a dispatch.                                      *)
NoneDisturbed == disturbed = {}

(* When handlers never overlap, the service implements DispatchOffers,     *)
(* whatever queries of a handler fail.                                     *)
THEOREM SerialImplementsOffers ==
  ASSUME \A r, s \in Request : r = s
  PROVE  Spec => ImplementsOffers
<1>1. Init => NoneDisturbed
  BY DEF Init, NoneDisturbed
<1>2. Init => Offers!Init
  BY DEF Init, Offers!Init, Absent, Phase
<1>3. ASSUME TypeOK, Coherent, disturbed = {}, [Next]_vars PROVE disturbed' = {}
  <2>1. ASSUME NEW r \in Request, NEW d \in Dispatch, pc[r] = "idle" PROVE ~Busy(d)
    BY <1>3, <2>1, NullAssumption DEF Coherent, Busy
  <2>2. CASE UNCHANGED vars
    BY <1>3, <2>2 DEF vars
  <2>3. CASE Next
    BY <1>3, <2>1, <2>3
    DEF Next, CreateCheck, Insert, Load, SaveSelect, SaveUpdate, Delete, Abort
  <2> QED
    BY <1>3, <2>2, <2>3
<1>4. ASSUME TypeOK, Coherent, disturbed' = {}, [Next]_vars
      PROVE  [Offers!Next]_Offers!offerVars
  <2>1. CASE row' = row
    BY <2>1 DEF Offers!offerVars
  <2>2. CASE row' # row
    <3>1. Next
      BY <1>4, <2>2 DEF vars
    <3>2. PICK d \in Dispatch :
            /\ \A e \in Dispatch \ {d} : row'[e] = row[e]
            /\ Offers!Step(d) \/ Offers!Same(d)
      BY <1>4, <2>2, <3>1, OneStep
    <3>3. CASE Offers!Step(d)
      BY <3>3 DEF Offers!Next
    <3>4. CASE Offers!Same(d)
      <4>1. \A e \in Dispatch :
              /\ Phase(row'[e].status) = Phase(row[e].status)
              /\ row'[e].driver = row[e].driver
              /\ row'[e].matched = row[e].matched
        <5>1. /\ Phase(row'[d].status) = Phase(row[d].status)
              /\ row'[d].driver = row[d].driver /\ row'[d].matched = row[d].matched
          BY <3>4 DEF Offers!Same
        <5> QED
          BY <3>2, <5>1
      <4>2. [e \in Dispatch |-> Phase(row'[e].status)] = [e \in Dispatch |-> Phase(row[e].status)]
        BY <4>1
      <4>3. /\ [e \in Dispatch |-> row'[e].driver] = [e \in Dispatch |-> row[e].driver]
            /\ [e \in Dispatch |-> row'[e].matched] = [e \in Dispatch |-> row[e].matched]
        BY <4>1
      <4> QED
        BY <4>2, <4>3 DEF Offers!offerVars
    <3> QED
      BY <3>2, <3>3, <3>4
  <2> QED
    BY <2>1, <2>2
<1>5. TypeOK /\ Coherent /\ NoneDisturbed /\ [Next]_vars => NoneDisturbed'
  BY <1>3 DEF NoneDisturbed
<1>6. TypeOK /\ Coherent /\ NoneDisturbed' /\ [Next]_vars =>
        [Offers!Next]_Offers!offerVars
  BY <1>4 DEF NoneDisturbed
<1> QED
  BY <1>1, <1>2, <1>5, <1>6, TypeCorrect, MemoryCoherent, PTL
  DEF Spec, ImplementsOffers, Offers!Spec

-----------------------------------------------------------------------------
(* The search for a courier.                                               *)

(* What the query returned is of this ring and untried, and whoever stayed *)
(* where they were is in it or is no nearer than anybody in it.            *)
SeenIsNearest ==
  /\ DOMAIN seen \subseteq Courier \ round.tried
  /\ \A c \in DOMAIN seen : Search!InRing(Search!Ring(round.retry), seen[c])
  /\ \A c \in steady :
       \/ c \in DOMAIN seen /\ seen[c] = distance[c]
       \/ DOMAIN seen # {} /\ \A d \in DOMAIN seen : seen[d] <= distance[c]

(* While wallet-service is asked, whom it knew to be fit stays in the list. *)
AskedInOrder ==
  /\ round.cash /\ DOMAIN seen # {}
  /\ unchecked \subseteq DOMAIN seen /\ filtered \subseteq DOMAIN seen
  /\ vouched \subseteq filtered

(* The inductive invariant of the search: the page is the nearest of those *)
(* the query left, and whoever is asked is nearer than those not asked.    *)
SearchInv ==
  /\ Search!TypeOK
  /\ step # "idle" => SeenIsNearest
  /\ step = "checking" => AskedInOrder
  /\ Search!MatchIsNearest

(* The instance counts as everybody else does.                             *)
LEMMA SameCount == \A S : Search!Cardinality(S) = Cardinality(S)
BY DEF Search!Cardinality, Cardinality

(* Nobody of s is farther from the restaurant than c.                      *)
NoneFarther(s, c) == \A d \in s : distance[d] <= distance[c]

(* The query sees somebody untried when there is somebody: it returns more *)
(* couriers than were tried.                                               *)
LEMMA QueryFinds ==
  ASSUME NEW near, NEW s \in Search!Nearest(near),
         NEW r \in Search!Round, NEW c \in near \ r.tried
  PROVE  \/ c \in s
         \/ s \ r.tried # {} /\ NoneFarther(s, c)
<1> SUFFICES ASSUME c \notin s
             PROVE  s \ r.tried # {} /\ NoneFarther(s, c)
  OBVIOUS
<1>1. /\ s \subseteq near /\ s # near
      /\ Cardinality(s) = QueryLimit
      /\ NoneFarther(s, c)
  BY SameCount DEF Search!Nearest, NoneFarther
<1>2. r.tried \subseteq Courier /\ Cardinality(r.tried) < QueryLimit
  <2>1. r.tried \in {t \in SUBSET Courier : Search!Cardinality(t) < QueryLimit}
    BY DEF Search!Round
  <2> QED
    BY <2>1, SameCount
<1>3. IsFiniteSet(r.tried)
  BY <1>2, CourierAssumption, FS_Subset
<1>4. ASSUME s \subseteq r.tried PROVE FALSE
  <2>1. Cardinality(s) <= Cardinality(r.tried)
    BY <1>3, <1>4, FS_Subset
  <2>2. Cardinality(r.tried) \in Nat /\ Cardinality(s) \in Nat
    BY <1>3, <1>4, FS_Subset, FS_CardinalityType
  <2> QED
    BY <1>1, <1>2, <2>1, <2>2, SearchAssumption
<1> QED
  BY <1>1, <1>4

(* A query and, for an order that is not cash, the choice.                *)
LEMMA FindKeeps ==
  ASSUME SearchInv, NEW r \in Search!Round, Search!FindDrivers(r)
  PROVE  SearchInv'
<1>1. PICK s \in Search!Nearest(Search!InReach(r.retry)) :
        LET untried == s \ r.tried IN
        /\ seen' = [c \in untried |-> distance[c]]
        /\ filtered' = {} /\ codEligible' = FALSE
        /\ IF r.cash /\ untried # {}
           THEN /\ step' = "checking"
                /\ unchecked' = untried
                /\ UNCHANGED best
           ELSE /\ unchecked' = {}
                /\ Search!Conclude(untried, seen')
  BY DEF Search!FindDrivers
<1> DEFINE untried == s \ r.tried
<1>2. /\ round' = r /\ vouched' = {} /\ UNCHANGED <<distance, free, solvent, changes>>
      /\ steady' = Search!InReach(r.retry) \ r.tried
  BY DEF Search!FindDrivers, Search!couriers
<1>3. untried \subseteq Courier /\ DOMAIN seen' = untried
      /\ \A c \in untried : seen'[c] = distance[c]
  BY <1>1 DEF Search!Nearest, Search!InReach, SearchInv, Search!TypeOK
<1>4. seen' \in [untried -> Metre]
  BY <1>1, <1>3 DEF SearchInv, Search!TypeOK
<1>5. step' \in {"checking", "done"} /\ best' \in Courier \cup {NoCourier}
  BY <1>1, <1>3 DEF Search!Conclude, Search!Closest, SearchInv, Search!TypeOK
<1>6. Search!TypeOK'
  <2>1. untried \subseteq Courier /\ steady' \subseteq Courier
    BY <1>2, <1>3 DEF Search!InReach, SearchInv, Search!TypeOK
  <2>2. unchecked' \subseteq Courier /\ filtered' = {} /\ codEligible' = FALSE
    BY <1>1, <2>1
  <2>3. \E z \in SUBSET Courier : seen' \in [z -> Metre]
    BY <1>4, <2>1
  <2> QED
    BY <1>2, <1>5, <2>1, <2>2, <2>3 DEF SearchInv, Search!TypeOK
<1>7. SeenIsNearest'
  <2>1. \A c \in untried : Search!InRing(Search!Ring(r.retry), distance[c])
    BY DEF Search!Nearest, Search!InReach
  <2>2. ASSUME NEW c \in steady'
        PROVE  \/ c \in untried
               \/ untried # {} /\ \A d \in untried : distance[d] <= distance[c]
    <3>1. PICK near : near = Search!InReach(r.retry)
      OBVIOUS
    <3>2. s \in Search!Nearest(near) /\ c \in near \ r.tried
      BY <1>2, <2>2, <3>1
    <3>3. c \in s \/ (s \ r.tried # {} /\ NoneFarther(s, c))
      BY <3>2, QueryFinds
    <3> QED
      BY <3>2, <3>3 DEF NoneFarther
  <2> QED
    BY <1>2, <1>3, <2>1, <2>2 DEF SeenIsNearest
<1>8. step' = "checking" => AskedInOrder'
  BY <1>1, <1>2, <1>3 DEF AskedInOrder, Search!Conclude
<1>9. Search!MatchIsNearest'
  <2> SUFFICES ASSUME step' = "done"
               PROVE  IF best' = NoCourier
                      THEN \A c \in steady' : FALSE
                      ELSE /\ best' \notin round'.tried
                           /\ Search!InRing(Search!Ring(round'.retry), seen'[best'])
                           /\ \A c \in steady' : seen'[best'] <= distance'[c]
    BY DEF Search!MatchIsNearest
  <2>1. IF untried = {} THEN best' = NoCourier ELSE best' \in Search!Closest(seen')
    BY <1>1 DEF Search!Conclude
  <2>2. CASE untried = {}
    BY <1>3, <1>7, <2>1, <2>2 DEF SeenIsNearest
  <2>3. CASE untried # {}
    <3>1. best' \in untried /\ \A d \in untried : seen'[best'] <= seen'[d]
      BY <1>3, <2>1, <2>3 DEF Search!Closest
    <3>2. best' # NoCourier
      BY <1>3, <3>1, SearchAssumption
    <3>3. \A c \in steady' : seen'[best'] <= distance'[c]
      BY <1>2, <1>3, <1>7, <3>1 DEF SeenIsNearest
    <3> QED
      BY <1>2, <1>3, <1>7, <3>1, <3>2, <3>3 DEF SeenIsNearest
  <2> QED
    BY <2>2, <2>3
<1> QED
  BY <1>6, <1>7, <1>8, <1>9 DEF SearchInv

(* An answer of wallet-service and, after the last one, the choice.        *)
LEMMA CheckKeeps ==
  ASSUME SearchInv, NEW c \in Courier, NEW answer \in Search!Answer,
         Search!CheckEligibility(c, answer)
  PROVE  SearchInv'
<1>1. /\ step = "checking" /\ SeenIsNearest /\ AskedInOrder /\ Search!TypeOK
      /\ UNCHANGED <<distance, free, solvent, round, seen, changes, steady>>
  BY DEF Search!CheckEligibility, Search!couriers, SearchInv
<1>2. c \in unchecked
  BY <1>1 DEF Search!CheckEligibility, Search!Closest, Search!TypeOK
<1>3. /\ unchecked' = unchecked \ {c}
      /\ filtered' = Search!Kept(c, answer)
      /\ codEligible' = (codEligible \/ answer = "eligible")
      /\ vouched' = IF c \in solvent /\ answer # "error" THEN vouched \cup {c} ELSE vouched
      /\ answer = "refused" => c \notin solvent
      /\ IF unchecked' = {} THEN Search!Conclude(filtered', seen) ELSE UNCHANGED <<step, best>>
  BY DEF Search!CheckEligibility
<1>4. filtered' \subseteq DOMAIN seen /\ vouched' \subseteq filtered'
  BY <1>1, <1>2, <1>3 DEF Search!Kept, Search!Answer, AskedInOrder
<1>5. SeenIsNearest'
  BY <1>1 DEF SeenIsNearest
<1>6. AskedInOrder'
  BY <1>1, <1>3, <1>4 DEF AskedInOrder
<1>7. DOMAIN seen \subseteq Courier
  BY <1>1 DEF SeenIsNearest
<1>8. Search!TypeOK'
  <2>1. codEligible' \in BOOLEAN
    BY <1>3
  <2>2. step' \in {"checking", "done"} /\ best' \in Courier \cup {NoCourier}
    BY <1>1, <1>3, <1>7 DEF Search!Conclude, Search!Closest, Search!TypeOK
  <2>3. vouched' \subseteq Courier /\ filtered' \subseteq Courier /\ unchecked' \subseteq Courier
    BY <1>1, <1>3, <1>4, <1>7 DEF Search!TypeOK
  <2> QED
    BY <1>1, <2>1, <2>2, <2>3 DEF Search!TypeOK
<1>9. Search!MatchIsNearest'
  <2> SUFFICES ASSUME step' = "done"
               PROVE  IF best' = NoCourier
                      THEN \A d \in steady' : round'.cash /\ seen' # <<>> /\ d \notin vouched'
                      ELSE /\ best' \notin round'.tried
                           /\ Search!InRing(Search!Ring(round'.retry), seen'[best'])
                           /\ \A d \in steady' : seen'[best'] <= distance'[d]
    BY DEF Search!MatchIsNearest
  <2>1. Search!Conclude(filtered', seen)
    BY <1>1, <1>3
  <2>2. CASE filtered' = {}
    <3>1. best' = NoCourier /\ vouched' = {}
      BY <1>4, <2>1, <2>2 DEF Search!Conclude
    <3>2. round'.cash /\ seen' # <<>>
      BY <1>1 DEF AskedInOrder
    <3> QED
      BY <3>1, <3>2
  <2>3. CASE filtered' # {}
    <3>1. best' \in DOMAIN seen /\ \A d \in DOMAIN seen : seen[best'] <= seen[d]
      BY <2>1, <2>3 DEF Search!Conclude, Search!Closest
    <3>2. best' # NoCourier
      BY <1>7, <3>1, SearchAssumption
    <3>3. \A d \in steady : seen[best'] <= distance[d]
      BY <1>1, <3>1 DEF SeenIsNearest
    <3> QED
      BY <1>1, <3>1, <3>2, <3>3 DEF SeenIsNearest
  <2> QED
    BY <2>2, <2>3
<1> QED
  BY <1>1, <1>5, <1>6, <1>8, <1>9 DEF SearchInv

(* A courier who moves or goes is no longer one who stayed.                *)
LEMMA ChangeKeeps ==
  ASSUME SearchInv, NEW c \in Courier, Search!Change(c)
  PROVE  SearchInv'
<1>1. /\ step = "checking" /\ SeenIsNearest /\ AskedInOrder /\ Search!TypeOK
      /\ UNCHANGED <<round, seen, unchecked, filtered, codEligible, best, step, vouched>>
      /\ changes < MaxChanges /\ changes' = changes + 1
  BY DEF Search!Change, Search!found, SearchInv
<1>2. /\ steady' \subseteq steady
      /\ distance' \in [Courier -> Metre]
      /\ free' \subseteq Courier /\ solvent' \subseteq Courier
      /\ \A d \in steady' : distance'[d] = distance[d]
  BY <1>1 DEF Search!Change, Search!TypeOK
<1>3. Search!TypeOK'
  <2>1. changes' \in 0 .. MaxChanges
    BY <1>1, SearchAssumption DEF Search!TypeOK
  <2>2. steady' \subseteq Courier
    BY <1>1, <1>2 DEF Search!TypeOK
  <2> QED
    BY <1>1, <1>2, <2>1, <2>2 DEF Search!TypeOK
<1>4. SeenIsNearest' /\ AskedInOrder'
  BY <1>1, <1>2 DEF SeenIsNearest, AskedInOrder
<1> QED
  BY <1>1, <1>3, <1>4 DEF SearchInv, Search!MatchIsNearest

(* No round under way: nothing is found and nobody tried.                  *)
LEMMA RestTyped ==
  /\ [retry |-> 0, tried |-> {}, cash |-> FALSE] \in Search!Round
  /\ \E s \in SUBSET Courier : <<>> \in [s -> Metre]
<1>1. Search!Cardinality({}) < QueryLimit
  BY SameCount, FS_EmptySet, SearchAssumption
<1>2. <<>> \in [{} -> Metre]
  OBVIOUS
<1> QED
  BY <1>1, <1>2 DEF Search!Round, Search!MAX_RETRY_ATTEMPTS

(* Returning the courier found keeps the search's invariant.               *)
LEMMA ReturnKeeps ==
  ASSUME SearchInv, Search!Return
  PROVE  SearchInv'
<1>1. Search!TypeOK'
  BY RestTyped DEF Search!Return, Search!couriers, SearchInv, Search!TypeOK
<1> QED
  BY <1>1 DEF Search!Return, SearchInv, Search!MatchIsNearest

(* The search starts in a state that satisfies its invariant.              *)
LEMMA SearchStarts == InitHalves => SearchInv
<1> SUFFICES ASSUME InitHalves PROVE Search!TypeOK /\ step = "idle"
  BY DEF SearchInv, Search!MatchIsNearest
<1>1. Search!Init
  BY DEF InitHalves
<1>2. round \in Search!Round /\ \E s \in SUBSET Courier : seen \in [s -> Metre]
  BY <1>1, RestTyped DEF Search!Init
<1>3. changes \in 0 .. MaxChanges
  BY <1>1, SearchAssumption DEF Search!Init
<1> QED
  BY <1>1, <1>2, <1>3 DEF Search!Init, Search!TypeOK

(* Couriers move, come and go while wallet-service is asked about them:    *)
(* the one returned is untried, in the ring, and no farther than anybody   *)
(* who stayed where they were and could cover the cash, for any number of  *)
(* couriers and any limit.                                                 *)
THEOREM NearestIsMatched == SpecHalves => []MatchIsNearest
<1>1. SearchInv /\ [InDispatches \/ InSearch]_<<half, vars, searchVars>> => SearchInv'
  <2> SUFFICES ASSUME SearchInv, [InDispatches \/ InSearch]_<<half, vars, searchVars>>
               PROVE  SearchInv'
    OBVIOUS
  <2>1. CASE UNCHANGED searchVars
    BY <2>1 DEF searchVars, SearchInv, Search!TypeOK, SeenIsNearest, AskedInOrder,
                Search!MatchIsNearest
  <2>2. CASE Search!Next
    BY <2>2, FindKeeps, CheckKeeps, ChangeKeeps, ReturnKeeps DEF Search!Next
  <2> QED
    BY <2>1, <2>2 DEF InDispatches, InSearch
<1>2. SearchInv => MatchIsNearest
  BY DEF SearchInv, MatchIsNearest, Search!Inv
<1> QED
  BY <1>1, <1>2, SearchStarts, PTL DEF SpecHalves

-----------------------------------------------------------------------------
(* The wallet pages.                                                       *)

(* The history of a payment.                                               *)
Receipt ==
  [booked : Nat, told : {"nothing", "wait", "ok", "error"}, broke : BOOLEAN]

(* What the user was told of a payment is what happened to it.             *)
TrueReceipt(q) ==
  /\ q.told = "nothing" => q.booked = 0 /\ ~q.broke
  /\ q.told = "ok" => q.booked >= 1
  /\ ~q.broke => q.booked <= 1 /\ (q.told = "error" => q.booked = 0)
  /\ q.booked <= 2

(* A call c under way and the history q of its payment.                    *)
Sound(c, q) ==
  /\ q.told = "wait" \/ ~c.waits
  /\ ~c.waits => q.broke
  /\ c.waits /\ c.attempt = 1 => ~q.broke
  /\ c.at \in {"saved", "done"} => q.booked >= 1
  /\ c.at \in {"done", "refused"} => c.waits
  /\ c.at = "refused" => q.broke \/ q.booked = 0
  /\ c.at \in {"sent", "read"} => q.booked <= 1 /\ (q.broke \/ q.booked = 0)

(* Two calls c and d under way for one payment are its two attempts.       *)
TwoAttempts(c, d, q) ==
  /\ q.broke
  /\ c.attempt # d.attempt
  /\ ~(c.waits /\ d.waits)
  /\ c.at \in {"sent", "read"} /\ d.at \in {"sent", "read"} => q.booked = 0

(* The call of slot j is under way.                                        *)
Active(j) == job[j].at # "idle"

(* The payments and the calls under way for them.                          *)
Receipts ==
  /\ \A p \in Wallet!Payment : TrueReceipt(paid[p])
  /\ \A j \in Job : ~Active(j) => job[j] = Wallet!Idle
  /\ \A j \in Job : Active(j) =>
       job[j].payment \in Wallet!Payment /\ Sound(job[j], paid[job[j].payment])
  /\ \A j, k \in Job : j # k /\ Active(j) /\ Active(k) /\ job[j].payment = job[k].payment =>
       TwoAttempts(job[j], job[k], paid[job[j].payment])

(* Nothing is under way before the page has its wallet.                    *)
Unopened ==
  account = "none" =>
    /\ ~showStripe
    /\ \A j \in Job : ~Active(j)
    /\ \A p \in Wallet!Payment : paid[p].told = "nothing"

(* The form waits for the top-up the page waits for.                       *)
FormWaits ==
  ~cancelled =>
    \A j \in Job : job[j].op = "topup" /\ job[j].waits =>
      processing = job[j].payment /\ processing # 0

(* Of calls that do not cross the one under way knows the balance, and the *)
(* page shows it when the call has not changed it.                         *)
Steady ==
  ~crossed /\ (\A p \in Wallet!Payment : ~paid[p].broke) =>
    /\ \A j, k \in Job : Active(j) /\ Active(k) => j = k
    /\ \A j \in Job :
         /\ job[j].at = "read" => job[j].before = balance[account]
         /\ job[j].at \in {"saved", "done"} =>
              balance[account] = job[j].before + Wallet!Change(job[j])
    /\ (\E p \in Wallet!Payment : paid[p].told = "ok") =>
         shown = balance[account] \/ \E j \in Job : job[j].at \in {"saved", "done"}

(* The inductive invariant of a wallet page.                               *)
WalletIInv == Wallet!TypeOK /\ Receipts /\ Unopened /\ FormWaits /\ Steady

(* The fields of a call and of a receipt.                                  *)
LEMMA RequestFields ==
  ASSUME NEW c \in Wallet!Request
  PROVE  /\ c.at \in {"idle", "sent", "read", "saved", "done", "refused"}
         /\ c.op \in {"topup", "withdraw"} /\ c.amount \in Amount \cup {0}
         /\ c.payment \in 0 .. MaxPayments /\ c.attempt \in {1, 2}
         /\ c.waits \in BOOLEAN /\ c.before \in Int
BY DEF Wallet!Request

(* A slot that is idle holds a call that nobody waits for.                 *)
LEMMA IdleRequest ==
  /\ Wallet!Idle \in Wallet!Request /\ Wallet!Idle.at = "idle" /\ Wallet!Idle.op = "topup"
  /\ Wallet!Idle.waits = FALSE
<1>1. MaxPayments \in Nat
  BY BoundsAssumption
<1>2. 0 \in 0 .. MaxPayments
  BY <1>1
<1> QED
  BY <1>2 DEF Wallet!Idle, Wallet!Request

(* What the types of the wallet page say of its calls and payments.        *)
LEMMA WalletTables ==
  ASSUME Wallet!TypeOK
  PROVE  /\ job \in [Job -> Wallet!Request] /\ paid \in [Wallet!Payment -> Receipt]
         /\ balance \in [{"own", "stray"} -> Int] /\ account \in {"none", "own", "stray"}
         /\ crossed \in BOOLEAN /\ cancelled \in BOOLEAN /\ Wallet!Payment \subseteq Nat \ {0}
BY BoundsAssumption DEF Wallet!TypeOK, Receipt, Wallet!Payment

(* What a call c of slot j and a receipt q of payment p must be to replace *)
(* those there were.                                                       *)
Fits(j, c, p, q) ==
  /\ TrueReceipt(q)
  /\ c.at = "idle" => c = Wallet!Idle
  /\ c.at # "idle" => c.payment = p /\ Sound(c, q)
  /\ \A k \in Job : k # j /\ Active(k) /\ job[k].payment = p =>
       /\ Sound(job[k], q)
       /\ c.at # "idle" => TwoAttempts(c, job[k], q) /\ TwoAttempts(job[k], c, q)
  /\ \A k, l \in Job : k # j /\ l # j /\ k # l /\ Active(k) /\ Active(l)
       /\ job[k].payment = p /\ job[l].payment = p => FALSE

(* A step of one call and of the receipt of its payment.                   *)
LEMMA OneCall ==
  ASSUME Wallet!TypeOK, Receipts, NEW j \in Job, NEW p \in Wallet!Payment,
         NEW c \in Wallet!Request, NEW q \in Receipt,
         job' = [job EXCEPT ![j] = c], paid' = [paid EXCEPT ![p] = q], Fits(j, c, p, q)
  PROVE  Receipts'
<1> USE DEF Fits
<1>1. /\ job'[j] = c /\ \A k \in Job : k # j => job'[k] = job[k]
      /\ paid'[p] = q /\ \A r \in Wallet!Payment : r # p => paid'[r] = paid[r]
  BY WalletTables
<1>2. \A r \in Wallet!Payment : TrueReceipt(paid'[r])
  BY <1>1 DEF Receipts
<1>3. \A k \in Job : job'[k].at = "idle" => job'[k] = Wallet!Idle
  BY <1>1 DEF Receipts, Active
<1>4. ASSUME NEW k \in Job, job'[k].at # "idle"
      PROVE  job'[k].payment \in Wallet!Payment /\ Sound(job'[k], paid'[job'[k].payment])
  <2>1. CASE k = j
    BY <1>1, <1>4, <2>1
  <2>2. CASE k # j
    BY <1>1, <1>4, <2>2 DEF Receipts, Active
  <2> QED
    BY <2>1, <2>2
<1>5. ASSUME NEW k \in Job, NEW l \in Job, k # l, job'[k].at # "idle", job'[l].at # "idle",
             job'[k].payment = job'[l].payment
      PROVE  TwoAttempts(job'[k], job'[l], paid'[job'[k].payment])
  <2>1. CASE k = j
    BY <1>1, <1>5, <2>1 DEF Active
  <2>2. CASE l = j
    BY <1>1, <1>5, <2>2 DEF Active
  <2>3. CASE k # j /\ l # j
    BY <1>1, <1>5, <2>3 DEF Receipts, Active
  <2> QED
    BY <2>1, <2>2, <2>3
<1> QED
  BY <1>2, <1>3, <1>4, <1>5 DEF Receipts, Active

(* A call under way has its payment to itself, or shares it with one other *)
(* that makes another attempt.                                             *)
LEMMA TwoAtMost ==
  ASSUME Wallet!TypeOK, Receipts, NEW j \in Job, Active(j),
         NEW k \in Job, NEW l \in Job, k # j, l # j, k # l, Active(k), Active(l),
         job[k].payment = job[j].payment, job[l].payment = job[j].payment
  PROVE  FALSE
<1>1. /\ job[j].attempt # job[k].attempt /\ job[j].attempt # job[l].attempt
      /\ job[k].attempt # job[l].attempt
  BY DEF Receipts, TwoAttempts
<1>2. /\ job[j].attempt \in {1, 2} /\ job[k].attempt \in {1, 2} /\ job[l].attempt \in {1, 2}
  BY WalletTables, RequestFields
<1> QED
  BY <1>1, <1>2

(* The page: its steps start no call.                                      *)
LEMMA PageKept ==
  ASSUME WalletIInv,
         \/ Wallet!LoadDriver \/ Wallet!LoadMerchant \/ Wallet!SwitchTab \/ Wallet!OpenForm
         \/ Wallet!Cancel \/ \E a \in Amount : Wallet!Type(a)
  PROVE  WalletIInv'
<1> USE DEF WalletIInv
<1>1. UNCHANGED <<job, paid, crossed, balance>>
  BY DEF Wallet!LoadDriver, Wallet!LoadMerchant, Wallet!Opened, Wallet!SwitchTab,
         Wallet!OpenForm, Wallet!Cancel, Wallet!Type, Wallet!serviceVars
<1>2. Receipts'
  BY <1>1 DEF Receipts, Active
<1>3. CASE Wallet!LoadDriver \/ Wallet!LoadMerchant
  <2>1. /\ account = "none" /\ account' \in {"own", "stray"}
        /\ UNCHANGED <<owner, withdrawn, tab, field, showStripe, processing, cancelled>>
    BY <1>3 DEF Wallet!LoadDriver, Wallet!LoadMerchant, Wallet!Opened, Wallet!serviceVars
  <2>2. shown' \in Int
    <3>1. balance.own \in Int /\ 0 \in Int /\ shown \in Int
      BY DEF Wallet!TypeOK
    <3> QED
      BY <1>3, <3>1 DEF Wallet!LoadDriver, Wallet!LoadMerchant, Wallet!Opened
  <2>3. Wallet!TypeOK'
    BY <1>1, <2>1, <2>2 DEF Wallet!TypeOK
  <2>4. FormWaits'
    BY <1>1, <2>1 DEF FormWaits
  <2>5. \A j \in Job : ~Active(j)
    BY <2>1 DEF Unopened
  <2>6. \A j \in Job : job[j].at = "idle"
    BY <2>5 DEF Active
  <2>7. \A p \in Wallet!Payment : paid[p].told = "nothing"
    BY <2>1 DEF Unopened
  <2>8. Steady'
    BY <1>1, <2>6, <2>7 DEF Steady, Active
  <2> QED
    BY <1>2, <2>1, <2>3, <2>4, <2>8 DEF Unopened
<1>4. CASE Wallet!SwitchTab \/ Wallet!Cancel
  <2>1. /\ processing' = 0 /\ (~cancelled' => ~cancelled /\ processing = 0)
        /\ UNCHANGED <<owner, account, withdrawn, shown, field>>
        /\ showStripe' \in {showStripe, FALSE} /\ tab' \in {"credit", "income"}
        /\ cancelled' \in BOOLEAN
    BY <1>4, WalletTables DEF Wallet!SwitchTab, Wallet!Cancel, Wallet!serviceVars,
       Wallet!TypeOK
  <2>2. 0 \in 0 .. MaxPayments
    BY BoundsAssumption
  <2>3. Wallet!TypeOK'
    BY <1>1, <2>1, <2>2 DEF Wallet!TypeOK
  <2>4. FormWaits'
    BY <1>1, <2>1 DEF FormWaits
  <2>5. Steady' /\ Unopened'
    <3>1. Steady'
      BY <1>1, <2>1 DEF Steady, Active, Wallet!Change
    <3>2. account = "none" => ~showStripe'
      BY <2>1 DEF Unopened
    <3> QED
      BY <1>1, <2>1, <3>1, <3>2 DEF Unopened, Active
  <2> QED
    BY <1>2, <2>3, <2>4, <2>5
<1>5. CASE Wallet!OpenForm \/ \E a \in Amount : Wallet!Type(a)
  <2>1. /\ account # "none"
        /\ UNCHANGED <<owner, account, withdrawn, shown, tab, processing, cancelled>>
        /\ field' \in Amount \cup {0} /\ showStripe' \in BOOLEAN
    BY <1>5 DEF Wallet!OpenForm, Wallet!Type, Wallet!serviceVars, Wallet!TypeOK
  <2>2. Wallet!TypeOK'
    BY <1>1, <2>1 DEF Wallet!TypeOK
  <2>3. FormWaits'
    BY <1>1, <2>1 DEF FormWaits
  <2>4. Steady' /\ Unopened'
    BY <1>1, <2>1 DEF Steady, Unopened, Active, Wallet!Change
  <2> QED
    BY <1>2, <2>2, <2>3, <2>4
<1> QED
  BY <1>3, <1>4, <1>5

(* A payment nobody was told of yet has no call.                           *)
LEMMA NewPayment ==
  ASSUME Wallet!TypeOK, Receipts, NEW p \in Wallet!Payment, paid[p].told = "nothing",
         NEW j \in Job, Active(j)
  PROVE  job[j].payment # p
BY DEF Receipts, Sound, TrueReceipt

(* A call the user makes.                                                  *)
LEMMA MadeCall ==
  ASSUME WalletIInv, NEW j \in Job, NEW p \in Wallet!Payment, NEW op \in {"topup",
         "withdraw"},
         NEW a \in Amount \cup {0}, Wallet!NextPayment(p), Wallet!Sent(j, op, a, p, 1),
         paid' = [paid EXCEPT ![p].told = "wait"], account # "none",
         op = "topup" => processing = 0 /\ processing' = p,
         op = "withdraw" => processing' = processing,
         UNCHANGED <<owner, account, balance, withdrawn, shown, tab, field, showStripe, cancelled>>
  PROVE  WalletIInv'
<1> USE DEF WalletIInv
<1>1. PICK c : c = [Wallet!Idle EXCEPT !.at = "sent", !.op = op, !.amount = a, !.payment = p,
                                        !.attempt = 1, !.waits = TRUE]
  OBVIOUS
<1>2. /\ c.at = "sent" /\ c.op = op /\ c.payment = p /\ c.attempt = 1 /\ c.waits = TRUE
      /\ c \in Wallet!Request
  <2>1. p \in 0 .. MaxPayments
    BY BoundsAssumption DEF Wallet!Payment
  <2>2. c = [at |-> "sent", op |-> op, amount |-> a, payment |-> p, attempt |-> 1,
             waits |-> TRUE, before |-> 0]
    BY <1>1 DEF Wallet!Idle
  <2>3. 0 \in Int /\ 1 \in {1, 2}
    OBVIOUS
  <2> QED
    BY <2>1, <2>2, <2>3 DEF Wallet!Request
<1>3. PICK q : q = [paid[p] EXCEPT !.told = "wait"]
  OBVIOUS
<1>4. PICK old \in Receipt : old = paid[p]
  BY WalletTables
<1>5. /\ q \in Receipt /\ q.told = "wait" /\ q.booked = old.booked /\ q.broke = old.broke
  BY <1>3, <1>4 DEF Receipt
<1>6. old.told = "nothing" /\ old.booked = 0 /\ old.broke = FALSE
  <2>1. old.told = "nothing"
    BY <1>4 DEF Wallet!NextPayment
  <2>2. TrueReceipt(old)
    BY <1>4 DEF Receipts
  <2> QED
    BY <1>4, <2>1, <2>2 DEF TrueReceipt, Receipt
<1>7. job' = [job EXCEPT ![j] = c] /\ paid' = [paid EXCEPT ![p] = q] /\ job[j].at = "idle"
      /\ crossed' = (crossed \/ \E k \in Job : Active(k))
  BY <1>1, <1>3 DEF Wallet!Sent, Active
<1>8. \A k \in Job : Active(k) => job[k].payment # p
  BY <1>4, <1>6, NewPayment
<1>9. Receipts'
  <2>1. TrueReceipt(q) /\ Sound(c, q)
    BY <1>2, <1>5, <1>6 DEF TrueReceipt, Sound
  <2>2. Fits(j, c, p, q)
    BY <1>2, <1>8, <2>1 DEF Fits
  <2>3. Wallet!TypeOK /\ Receipts
    OBVIOUS
  <2>4. c \in Wallet!Request /\ q \in Receipt
    BY <1>2, <1>5
  <2>5. job' = [job EXCEPT ![j] = c] /\ paid' = [paid EXCEPT ![p] = q]
    BY <1>7
  <2> HIDE DEF WalletIInv
  <2> QED
    BY <2>2, <2>3, <2>4, <2>5, OneCall
<1>10. /\ job'[j] = c /\ \A k \in Job : k # j => job'[k] = job[k]
       /\ paid'[p] = q /\ \A r \in Wallet!Payment : r # p => paid'[r] = paid[r]
  BY <1>7, WalletTables
<1>11. Wallet!TypeOK'
  <2>1. job' \in [Job -> Wallet!Request] /\ paid' \in [Wallet!Payment -> Receipt]
    BY <1>2, <1>5, <1>7, WalletTables
  <2>2. processing' \in 0 .. MaxPayments /\ crossed' \in BOOLEAN
    BY <1>7, BoundsAssumption DEF Wallet!TypeOK, Wallet!Payment
  <2> QED
    BY <2>1, <2>2 DEF Wallet!TypeOK, Receipt
<1>12. FormWaits'
  <2>1. p # 0
    BY WalletTables
  <2> QED
    BY <1>2, <1>10, <2>1 DEF FormWaits
<1>13. Unopened'
  BY DEF Unopened
<1>14. Steady'
  <2>1. SUFFICES ASSUME ~crossed', \A r \in Wallet!Payment : ~paid'[r].broke PROVE Steady'
    BY DEF Steady
  <2>2. ~crossed /\ \A k \in Job : ~Active(k)
    BY <1>7, <2>1
  <2>3. \A r \in Wallet!Payment : ~paid[r].broke
    BY <1>4, <1>6, <1>10, <2>1
  <2>4. (\E r \in Wallet!Payment : paid[r].told = "ok") => shown = balance[account]
    BY <2>2, <2>3 DEF Steady, Active
  <2>5. (\E r \in Wallet!Payment : paid'[r].told = "ok") =>
          \E r \in Wallet!Payment : paid[r].told = "ok"
    BY <1>5, <1>10
  <2>6. \A k \in Job : k # j => job'[k].at = "idle"
    BY <1>10, <2>2 DEF Active
  <2> QED
    BY <1>2, <1>10, <2>4, <2>5, <2>6 DEF Steady, Active
<1> QED
  BY <1>9, <1>11, <1>12, <1>13, <1>14

(* The buttons that pay.                                                   *)
LEMMA ButtonsKept ==
  ASSUME WalletIInv, NEW j \in Job, NEW p \in Wallet!Payment,
         \/ Wallet!Submit(j, p)
         \/ \E a \in Amount : Wallet!DriverWithdraws(j, p, a) \/ Wallet!MerchantWithdraws(j, p, a)
  PROVE  WalletIInv'
<1>1. CASE Wallet!Submit(j, p)
  <2>1. account # "none"
    BY <1>1 DEF Wallet!Submit, Wallet!Enabled, Wallet!FormVisible, WalletIInv, Unopened
  <2>2. field \in Amount \cup {0}
    BY DEF WalletIInv, Wallet!TypeOK
  <2>3. /\ Wallet!NextPayment(p) /\ Wallet!Sent(j, "topup", field, p, 1)
        /\ paid' = [paid EXCEPT ![p].told = "wait"] /\ processing = 0 /\ processing' = p
        /\ UNCHANGED <<owner, account, balance, withdrawn, shown, tab, field, showStripe,
                       cancelled>>
    BY <1>1 DEF Wallet!Submit, Wallet!Enabled, Wallet!serviceVars
  <2> QED
    BY <2>1, <2>2, <2>3, MadeCall
<1>2. ASSUME NEW a \in Amount, Wallet!DriverWithdraws(j, p, a) \/ Wallet!MerchantWithdraws(j, p, a)
      PROVE  WalletIInv'
  <2>1. /\ Wallet!NextPayment(p) /\ Wallet!Sent(j, "withdraw", a, p, 1) /\ account # "none"
        /\ paid' = [paid EXCEPT ![p].told = "wait"] /\ processing' = processing
        /\ UNCHANGED <<owner, account, balance, withdrawn, shown, tab, field, showStripe,
                       cancelled>>
    BY <1>2 DEF Wallet!DriverWithdraws, Wallet!MerchantWithdraws, Wallet!Withdraw,
                Wallet!serviceVars, Wallet!pageVars
  <2> QED
    BY <2>1, MadeCall
<1> QED
  BY <1>1, <1>2

(* What is known of the call of slot j.                                    *)
LEMMA CallKnown ==
  ASSUME WalletIInv, NEW j \in Job, Active(j)
  PROVE  /\ account \in {"own", "stray"}
         /\ job[j] \in Wallet!Request /\ job[j].payment \in Wallet!Payment
         /\ paid[job[j].payment] \in Receipt
         /\ TrueReceipt(paid[job[j].payment]) /\ Sound(job[j], paid[job[j].payment])
         /\ \A k \in Job : k # j /\ Active(k) /\ job[k].payment = job[j].payment =>
              /\ Sound(job[k], paid[job[j].payment])
              /\ TwoAttempts(job[j], job[k], paid[job[j].payment])
              /\ TwoAttempts(job[k], job[j], paid[job[j].payment])
<1>1. /\ job \in [Job -> Wallet!Request] /\ paid \in [Wallet!Payment -> Receipt]
      /\ account \in {"none", "own", "stray"}
  BY WalletTables DEF WalletIInv
<1>2. account # "none"
  BY DEF WalletIInv, Unopened
<1>3. job[j].payment \in Wallet!Payment
  BY DEF WalletIInv, Receipts
<1>4. /\ TrueReceipt(paid[job[j].payment]) /\ Sound(job[j], paid[job[j].payment])
      /\ \A k \in Job : k # j /\ Active(k) /\ job[k].payment = job[j].payment =>
           /\ Sound(job[k], paid[job[j].payment])
           /\ TwoAttempts(job[j], job[k], paid[job[j].payment])
           /\ TwoAttempts(job[k], job[j], paid[job[j].payment])
  BY <1>3 DEF WalletIInv, Receipts
<1> QED
  BY <1>1, <1>2, <1>3, <1>4

(* A step of one call under way that fits keeps everything but what the    *)
(* page and the call know of the balance.                                  *)
LEMMA StepKept ==
  ASSUME WalletIInv, NEW j \in Job, Active(j), NEW p \in Wallet!Payment,
         p = job[j].payment,
         NEW c \in Wallet!Request, NEW q \in Receipt,
         job' = [job EXCEPT ![j] = c], paid' = [paid EXCEPT ![p] = q], Fits(j, c, p, q),
         c.op = "topup" /\ c.waits => job[j].op = "topup" /\ job[j].waits,
         \/ processing' = processing
         \/ processing' = 0 /\ job[j].op = "topup" /\ job[j].waits /\ ~c.waits,
         balance' \in [{"own", "stray"} -> Int], withdrawn' \in [{"own", "stray"} -> Nat],
         shown' \in Int, field' \in Amount \cup {0}, showStripe' \in BOOLEAN,
         UNCHANGED <<owner, account, tab, crossed, cancelled>>, Steady'
  PROVE  WalletIInv'
<1>1. /\ job'[j] = c /\ \A k \in Job : k # j => job'[k] = job[k]
      /\ paid'[p] = q /\ \A r \in Wallet!Payment : r # p => paid'[r] = paid[r]
      /\ job' \in [Job -> Wallet!Request] /\ paid' \in [Wallet!Payment -> Receipt]
  BY WalletTables DEF WalletIInv
<1>2. Receipts'
  <2>1. Wallet!TypeOK /\ Receipts
    BY DEF WalletIInv
  <2> QED
    BY <2>1, OneCall
<1>3. Unopened'
  BY CallKnown DEF Unopened
<1>4. Wallet!TypeOK'
  <2>1. processing' \in 0 .. MaxPayments
    BY BoundsAssumption DEF WalletIInv, Wallet!TypeOK
  <2> QED
    BY <1>1, <2>1 DEF WalletIInv, Wallet!TypeOK, Receipt
<1>5. FormWaits'
  <2> SUFFICES ASSUME ~cancelled, NEW k \in Job, job'[k].op = "topup", job'[k].waits
               PROVE  processing' = job'[k].payment /\ processing' # 0
    BY DEF FormWaits
  <2>1. job[j].op = "topup" /\ job[j].waits => processing = p /\ processing # 0
    BY DEF WalletIInv, FormWaits
  <2>2. CASE k = j
    <3>1. c.payment = p
      <4>1. c.at # "idle"
        BY <1>1, <2>2, IdleRequest DEF Fits
      <4> QED
        BY <4>1 DEF Fits
    <3> QED
      BY <1>1, <2>1, <2>2, <3>1
  <2>3. CASE k # j
    <3>1. job[k].op = "topup" /\ job[k].waits
      BY <1>1, <2>3
    <3>2. processing = job[k].payment /\ processing # 0
      BY <3>1 DEF WalletIInv, FormWaits
    <3>3. Active(k)
      BY <3>1, IdleRequest DEF WalletIInv, Receipts
    <3>4. ~(job[j].op = "topup" /\ job[j].waits)
      <4>1. SUFFICES ASSUME job[j].op = "topup", job[j].waits PROVE FALSE
        OBVIOUS
      <4>2. job[k].payment = job[j].payment
        BY <2>1, <3>2, <4>1
      <4> QED
        BY <2>3, <3>1, <3>3, <4>1, <4>2, CallKnown DEF TwoAttempts
    <3> QED
      BY <1>1, <2>3, <3>2, <3>4
  <2> QED
    BY <2>2, <2>3
<1> QED
  BY <1>2, <1>3, <1>4, <1>5 DEF WalletIInv

(* As long as nothing crossed and nothing broke, the call under way is the *)
(* only one.                                                               *)
LEMMA OnlyCall ==
  ASSUME WalletIInv, NEW j \in Job, Active(j), ~crossed,
         \A p \in Wallet!Payment : ~paid[p].broke
  PROVE  /\ job[j].waits
         /\ \A k \in Job : k # j => job[k].at = "idle"
         /\ job[j].at = "read" => job[j].before = balance[account]
         /\ job[j].at \in {"saved", "done"} =>
              balance[account] = job[j].before + Wallet!Change(job[j])
         /\ (\E p \in Wallet!Payment : paid[p].told = "ok") =>
              shown = balance[account] \/ job[j].at \in {"saved", "done"}
<1>1. job[j].waits
  BY CallKnown DEF Sound
<1>2. \A k \in Job : k # j => job[k].at = "idle"
  BY DEF WalletIInv, Steady, Active
<1> QED
  BY <1>1, <1>2 DEF WalletIInv, Steady

(* What a step of the only call must bring about.                          *)
LEMMA StaysSteady ==
  ASSUME WalletIInv, NEW j \in Job, Active(j), NEW p \in Wallet!Payment,
         p = job[j].payment,
         NEW c \in Wallet!Request, NEW q \in Receipt,
         job' = [job EXCEPT ![j] = c], paid' = [paid EXCEPT ![p] = q],
         UNCHANGED <<account, crossed>>, paid[p].broke => q.broke,
         ~crossed /\ (\A r \in Wallet!Payment : ~paid[r].broke) /\ ~q.broke =>
           /\ c.at = "read" => c.before = balance'[account]
           /\ c.at \in {"saved", "done"} => balance'[account] = c.before + Wallet!Change(c)
           /\ q.told = "ok" \/ (\E r \in Wallet!Payment : paid[r].told = "ok") =>
                shown' = balance'[account] \/ c.at \in {"saved", "done"}
  PROVE  Steady'
<1>1. /\ job'[j] = c /\ \A k \in Job : k # j => job'[k] = job[k]
      /\ paid'[p] = q /\ \A r \in Wallet!Payment : r # p => paid'[r] = paid[r]
  BY WalletTables DEF WalletIInv
<1>2. SUFFICES ASSUME ~crossed, \A r \in Wallet!Payment : ~paid'[r].broke PROVE Steady'
  BY DEF Steady
<1>3. ~q.broke /\ \A r \in Wallet!Payment : ~paid[r].broke
  BY <1>1, <1>2
<1>4. \A k \in Job : k # j => job'[k].at = "idle"
  BY <1>1, <1>2, <1>3, OnlyCall
<1>5. (\E r \in Wallet!Payment : paid'[r].told = "ok") =>
        q.told = "ok" \/ \E r \in Wallet!Payment : paid[r].told = "ok"
  BY <1>1
<1>6. /\ \A k, l \in Job : job'[k].at # "idle" /\ job'[l].at # "idle" => k = l
      /\ \A k \in Job : job'[k].at = "read" => job'[k].before = balance'[account']
      /\ \A k \in Job : job'[k].at \in {"saved", "done"} =>
              balance'[account'] = job'[k].before + Wallet!Change(job'[k])
  BY <1>1, <1>2, <1>3, <1>4
<1>7. (\E r \in Wallet!Payment : paid'[r].told = "ok") =>
        shown' = balance'[account'] \/ \E k \in Job : job'[k].at \in {"saved", "done"}
  BY <1>1, <1>2, <1>3, <1>5
<1> QED
  BY <1>6, <1>7 DEF Steady, Active

(* A receipt that stays what it is, with a call that stays as sound.       *)
LEMMA SameReceiptFits ==
  ASSUME WalletIInv, NEW j \in Job, Active(j), NEW c \in Wallet!Request,
         NEW p \in Wallet!Payment, p = job[j].payment,
         c.at = "idle" => c = Wallet!Idle,
         c.at # "idle" => /\ c.payment = p /\ c.attempt = job[j].attempt
                          /\ c.waits = job[j].waits /\ Sound(c, paid[p])
                          /\ c.at \in {"sent", "read"} => job[j].at \in {"sent", "read"}
  PROVE  Fits(j, c, p, paid[p])
<1>1. /\ TrueReceipt(paid[p]) /\ Sound(job[j], paid[p])
      /\ \A k \in Job : k # j /\ Active(k) /\ job[k].payment = p =>
           /\ Sound(job[k], paid[p])
           /\ TwoAttempts(job[j], job[k], paid[p]) /\ TwoAttempts(job[k], job[j], paid[p])
  BY CallKnown
<1>2. \A k, l \in Job : k # j /\ l # j /\ k # l /\ Active(k) /\ Active(l)
        /\ job[k].payment = p /\ job[l].payment = p => FALSE
  BY TwoAtMost DEF WalletIInv
<1>3. ASSUME c.at # "idle", NEW k \in Job, k # j, Active(k), job[k].payment = p
      PROVE  TwoAttempts(c, job[k], paid[p]) /\ TwoAttempts(job[k], c, paid[p])
  BY <1>1, <1>3 DEF TwoAttempts
<1> QED
  BY <1>1, <1>2, <1>3 DEF Fits

(* The service reads.                                                      *)
LEMMA ReadKept ==
  ASSUME WalletIInv, NEW j \in Job, Wallet!Read(j)
  PROVE  WalletIInv'
<1>1. job[j].at = "sent" /\ Active(j)
  BY DEF Wallet!Read, Active
<1>2. PICK p \in Wallet!Payment : p = job[j].payment
  BY <1>1, CallKnown
<1>3. /\ account \in {"own", "stray"} /\ job[j] \in Wallet!Request /\ paid[p] \in Receipt
      /\ Sound(job[j], paid[p])
  BY <1>1, <1>2, CallKnown
<1>4. PICK old \in Wallet!Request : old = job[j]
  BY <1>3
<1>5. balance[account] \in Int
  BY <1>3, WalletTables DEF WalletIInv
<1>6. PICK c \in Wallet!Request :
        /\ job' = [job EXCEPT ![j] = c]
        /\ \/ /\ c.at = "read" /\ c.before = balance[account] /\ c.op = old.op
              /\ c.payment = old.payment /\ c.attempt = old.attempt /\ c.waits = old.waits
           \/ /\ c.at = "refused" /\ old.waits /\ c.waits = old.waits /\ c.op = old.op
              /\ c.payment = old.payment /\ c.attempt = old.attempt
           \/ c = Wallet!Idle
  <2>1. [old EXCEPT !.at = "read", !.before = balance[account]] \in Wallet!Request
    BY <1>5 DEF Wallet!Request
  <2>2. [old EXCEPT !.at = "refused"] \in Wallet!Request
    BY DEF Wallet!Request
  <2>3. CASE Wallet!Permitted(old)
    <3>1. job' = [job EXCEPT ![j] = [old EXCEPT !.at = "read", !.before = balance[account]]]
      BY <1>4, <2>3 DEF Wallet!Read
    <3> WITNESS [old EXCEPT !.at = "read", !.before = balance[account]] \in Wallet!Request
    <3> QED
      BY <3>1 DEF Wallet!Request
  <2>4. CASE ~Wallet!Permitted(old) /\ old.waits
    <3>1. job' = [job EXCEPT ![j] = [old EXCEPT !.at = "refused"]]
      BY <1>4, <2>4 DEF Wallet!Read
    <3> WITNESS [old EXCEPT !.at = "refused"] \in Wallet!Request
    <3> QED
      BY <2>4, <3>1 DEF Wallet!Request
  <2>5. CASE ~Wallet!Permitted(old) /\ ~old.waits
    BY <1>4, <2>5, IdleRequest DEF Wallet!Read
  <2> QED
    BY <2>1, <2>2, <2>3, <2>4, <2>5
<1>7. /\ paid' = paid
      /\ UNCHANGED <<owner, account, balance, withdrawn, shown, tab, field, showStripe,
                     processing, crossed, cancelled>>
  BY DEF Wallet!Read, Wallet!serviceVars, Wallet!pageVars
<1>8. paid' = [paid EXCEPT ![p] = paid[p]]
  BY <1>7, WalletTables DEF WalletIInv
<1>9. Fits(j, c, p, paid[p])
  <2>1. c.at = "idle" => c = Wallet!Idle
    BY <1>6
  <2>2. c.at # "idle" => /\ c.payment = p /\ c.attempt = job[j].attempt
                         /\ c.waits = job[j].waits /\ Sound(c, paid[p])
                         /\ c.at \in {"sent", "read"} => job[j].at \in {"sent", "read"}
    <3>1. c.at # "idle" => /\ c.payment = p /\ c.attempt = job[j].attempt
                           /\ c.waits = job[j].waits /\ c.at \in {"read", "refused"}
      BY <1>2, <1>4, <1>6, IdleRequest
    <3>2. c.at = "refused" => old.waits
      BY <1>6, IdleRequest
    <3>3. Sound(old, paid[p]) /\ old.at = "sent"
      BY <1>1, <1>3, <1>4
    <3>4. c.at # "idle" => Sound(c, paid[p])
      BY <1>4, <3>1, <3>2, <3>3 DEF Sound
    <3> QED
      BY <1>4, <3>1, <3>3, <3>4
  <2> QED
    BY <1>1, <1>2, <2>1, <2>2, SameReceiptFits
<1>10. Steady'
  <2>1. ASSUME ~crossed, \A r \in Wallet!Payment : ~paid[r].broke
        PROVE  /\ c.at = "read" => c.before = balance'[account]
               /\ c.at \in {"saved", "done"} => balance'[account] = c.before + Wallet!Change(c)
               /\ (\E r \in Wallet!Payment : paid[r].told = "ok") => shown' = balance'[account]
    <3>1. c.at \in {"read", "refused", "idle"} /\ (c.at = "read" => c.before = balance[account])
      BY <1>6, IdleRequest
    <3>2. (\E r \in Wallet!Payment : paid[r].told = "ok") => shown = balance[account]
      BY <1>1, <2>1, OnlyCall
    <3> QED
      BY <1>7, <3>1, <3>2
  <2> QED
    BY <1>1, <1>2, <1>3, <1>6, <1>7, <1>8, <2>1, StaysSteady
<1>11. c.op = "topup" /\ c.waits => job[j].op = "topup" /\ job[j].waits
  BY <1>4, <1>6, IdleRequest
<1>12. /\ balance \in [{"own", "stray"} -> Int] /\ withdrawn \in [{"own", "stray"} -> Nat]
       /\ shown \in Int /\ field \in Amount \cup {0} /\ showStripe \in BOOLEAN
  BY DEF WalletIInv, Wallet!TypeOK
<1> QED
  BY <1>1, <1>2, <1>3, <1>6, <1>7, <1>8, <1>9, <1>10, <1>11, <1>12, StepKept

(* The service saves the balance.                                          *)
LEMMA SaveKept ==
  ASSUME WalletIInv, NEW j \in Job, Wallet!Save(j)
  PROVE  WalletIInv'
<1>1. job[j].at = "read" /\ Active(j)
  BY DEF Wallet!Save, Active
<1>2. PICK p \in Wallet!Payment : p = job[j].payment
  BY <1>1, CallKnown
<1>3. /\ account \in {"own", "stray"} /\ job[j] \in Wallet!Request /\ paid[p] \in Receipt
      /\ Sound(job[j], paid[p]) /\ TrueReceipt(paid[p])
      /\ \A k \in Job : k # j /\ Active(k) /\ job[k].payment = p =>
           /\ Sound(job[k], paid[p])
           /\ TwoAttempts(job[j], job[k], paid[p]) /\ TwoAttempts(job[k], job[j], paid[p])
  BY <1>1, <1>2, CallKnown
<1>4. PICK old \in Wallet!Request : old = job[j]
  BY <1>3
<1>5. PICK was \in Receipt : was = paid[p]
  BY <1>3
<1>6. PICK c \in Wallet!Request : c = [old EXCEPT !.at = "saved"]
  BY DEF Wallet!Request
<1>7. /\ c.at = "saved" /\ c.op = old.op /\ c.payment = old.payment /\ c.before = old.before
      /\ c.attempt = old.attempt /\ c.waits = old.waits /\ c.amount = old.amount
  BY <1>6 DEF Wallet!Request
<1>8. PICK q \in Receipt : q = [was EXCEPT !.booked = @ + 1]
  <2>1. PICK n \in Nat : n = was.booked + 1
    BY DEF Receipt
  <2>2. [was EXCEPT !.booked = n] \in Receipt
    BY DEF Receipt
  <2> QED
    BY <2>1, <2>2
<1>9. q.booked = was.booked + 1 /\ q.told = was.told /\ q.broke = was.broke
      /\ was.booked \in Nat /\ q.broke \in BOOLEAN
  BY <1>8 DEF Receipt
<1>10. /\ job' = [job EXCEPT ![j] = c] /\ paid' = [paid EXCEPT ![p] = q]
       /\ balance' = [balance EXCEPT ![account] = old.before + Wallet!Change(old)]
       /\ UNCHANGED <<owner, account, withdrawn, shown, tab, field, showStripe, processing,
                      crossed, cancelled>>
  BY <1>2, <1>4, <1>5, <1>6, <1>8 DEF Wallet!Save, Wallet!pageVars
<1>11. Fits(j, c, p, q)
  <2>1. was.broke \/ was.booked = 0
    BY <1>1, <1>3, <1>5 DEF Sound
  <2>2. was.booked <= 1
    BY <1>1, <1>3, <1>5 DEF Sound
  <2>3. TrueReceipt(q)
    <3>1. q.told # "nothing"
      <4>1. was.told = "wait" \/ was.broke
        BY <1>3, <1>5 DEF Sound
      <4> QED
        BY <1>3, <1>5, <1>9, <4>1 DEF TrueReceipt
    <3>2. ~q.broke => q.told # "error"
      BY <1>3, <1>5, <1>9, <2>1 DEF Sound
    <3> QED
      BY <1>9, <2>1, <2>2, <3>1, <3>2 DEF TrueReceipt
  <2>4. Sound(c, q)
    BY <1>3, <1>4, <1>5, <1>7, <1>9 DEF Sound
  <2>5. ASSUME NEW k \in Job, k # j, Active(k), job[k].payment = p
        PROVE  /\ Sound(job[k], q)
               /\ TwoAttempts(c, job[k], q) /\ TwoAttempts(job[k], c, q)
    <3>1. Sound(job[k], was) /\ TwoAttempts(old, job[k], was) /\ TwoAttempts(job[k], old, was)
      BY <1>3, <1>4, <1>5, <2>5
    <3>2. job[k].at \in {"sent", "read"} => was.booked = 0
      BY <1>1, <1>4, <3>1 DEF TwoAttempts
    <3> QED
      BY <1>7, <1>9, <3>1, <3>2 DEF Sound, TwoAttempts
  <2>6. \A k, l \in Job : k # j /\ l # j /\ k # l /\ Active(k) /\ Active(l)
          /\ job[k].payment = p /\ job[l].payment = p => FALSE
    BY <1>1, <1>2, TwoAtMost DEF WalletIInv
  <2> QED
    BY <1>2, <1>4, <1>7, <2>3, <2>4, <2>5, <2>6 DEF Fits
<1>12. old.before + Wallet!Change(old) \in Int /\ Wallet!Change(c) = Wallet!Change(old)
  <2>1. old.before \in Int /\ old.amount \in Amount \cup {0}
    BY RequestFields
  <2>2. old.amount \in Int
    <3>1. \A a \in Amount : a \in Int
      BY AmountAssumption
    <3> HIDE DEF WalletIInv
    <3> QED
      BY <2>1, <3>1
  <2> QED
    BY <1>7, <2>1, <2>2 DEF Wallet!Change
<1>13. /\ balance' \in [{"own", "stray"} -> Int] /\ withdrawn \in [{"own", "stray"} -> Nat]
       /\ shown \in Int /\ field \in Amount \cup {0} /\ showStripe \in BOOLEAN
       /\ balance'[account] = old.before + Wallet!Change(old)
  BY <1>3, <1>10, <1>12 DEF WalletIInv, Wallet!TypeOK
<1>14. Steady'
  <2>1. paid[p].broke => q.broke
    BY <1>5, <1>9
  <2>2. c.at \in {"saved", "done"} /\ balance'[account] = c.before + Wallet!Change(c)
    BY <1>7, <1>12, <1>13
  <2> QED
    BY <1>1, <1>2, <1>7, <1>10, <2>1, <2>2, StaysSteady
<1>15. c.op = "topup" /\ c.waits => job[j].op = "topup" /\ job[j].waits
  BY <1>4, <1>7
<1> QED
  BY <1>1, <1>2, <1>10, <1>11, <1>13, <1>14, <1>15, StepKept

(* The service records the transaction.                                    *)
LEMMA RecordKept ==
  ASSUME WalletIInv, NEW j \in Job, Wallet!Record(j)
  PROVE  WalletIInv'
<1>1. job[j].at = "saved" /\ Active(j)
  BY DEF Wallet!Record, Active
<1>2. PICK p \in Wallet!Payment : p = job[j].payment
  BY <1>1, CallKnown
<1>3. /\ account \in {"own", "stray"} /\ job[j] \in Wallet!Request /\ paid[p] \in Receipt
      /\ Sound(job[j], paid[p])
  BY <1>1, <1>2, CallKnown
<1>4. PICK old \in Wallet!Request : old = job[j]
  BY <1>3
<1>5. PICK c \in Wallet!Request :
        /\ job' = [job EXCEPT ![j] = c]
        /\ \/ /\ old.waits /\ c.at = "done" /\ c.before = old.before /\ c.op = old.op
              /\ c.amount = old.amount /\ c.payment = old.payment
              /\ c.attempt = old.attempt /\ c.waits = old.waits
           \/ ~old.waits /\ c = Wallet!Idle
  <2>1. CASE old.waits
    <3>1. job' = [job EXCEPT ![j] = [old EXCEPT !.at = "done"]]
      BY <1>4, <2>1 DEF Wallet!Record
    <3>2. [old EXCEPT !.at = "done"] \in Wallet!Request
      BY DEF Wallet!Request
    <3> WITNESS [old EXCEPT !.at = "done"] \in Wallet!Request
    <3> QED
      BY <2>1, <3>1 DEF Wallet!Request
  <2>2. CASE ~old.waits
    BY <1>4, <2>2, IdleRequest DEF Wallet!Record
  <2> QED
    BY <2>1, <2>2
<1>6. /\ paid' = paid
      /\ UNCHANGED <<owner, account, balance, shown, tab, field, showStripe, processing,
                     crossed, cancelled>>
  BY DEF Wallet!Record, Wallet!pageVars
<1>7. paid' = [paid EXCEPT ![p] = paid[p]]
  BY <1>6, WalletTables DEF WalletIInv
<1>8. Fits(j, c, p, paid[p])
  <2>1. c.at = "idle" => c = Wallet!Idle
    BY <1>5
  <2>2. c.at # "idle" => /\ c.payment = p /\ c.attempt = job[j].attempt
                         /\ c.waits = job[j].waits /\ Sound(c, paid[p])
                         /\ c.at \in {"sent", "read"} => job[j].at \in {"sent", "read"}
    <3>1. c.at # "idle" => /\ c.payment = p /\ c.attempt = job[j].attempt /\ old.waits
                           /\ c.waits = job[j].waits /\ c.at = "done"
      BY <1>2, <1>4, <1>5, IdleRequest
    <3>2. Sound(old, paid[p]) /\ old.at = "saved"
      BY <1>1, <1>3, <1>4
    <3>3. c.at # "idle" => Sound(c, paid[p])
      BY <1>4, <3>1, <3>2 DEF Sound
    <3> QED
      BY <3>1, <3>3
  <2> QED
    BY <1>1, <1>2, <2>1, <2>2, SameReceiptFits
<1>9. Steady'
  <2>1. ASSUME ~crossed, \A r \in Wallet!Payment : ~paid[r].broke
        PROVE  /\ c.at = "done" /\ balance[account] = c.before + Wallet!Change(c)
    <3>1. old.waits /\ balance[account] = old.before + Wallet!Change(old)
      BY <1>1, <1>4, <2>1, OnlyCall
    <3> QED
      BY <1>5, <3>1 DEF Wallet!Change
  <2> QED
    BY <1>1, <1>2, <1>3, <1>5, <1>6, <1>7, <2>1, StaysSteady
<1>10. c.op = "topup" /\ c.waits => job[j].op = "topup" /\ job[j].waits
  BY <1>4, <1>5, IdleRequest
<1>11. /\ balance \in [{"own", "stray"} -> Int] /\ withdrawn \in [{"own", "stray"} -> Nat]
       /\ shown \in Int /\ field \in Amount \cup {0} /\ showStripe \in BOOLEAN
  BY DEF WalletIInv, Wallet!TypeOK
<1>12. withdrawn' \in [{"own", "stray"} -> Nat]
  <2>1. PICK n \in Nat : n = withdrawn[account] + 1
    BY <1>3, <1>11
  <2> QED
    BY <1>11, <2>1 DEF Wallet!Record
<1> QED
  BY <1>1, <1>2, <1>3, <1>5, <1>6, <1>7, <1>8, <1>9, <1>10, <1>11, <1>12, StepKept

(* A call the page waited for ends, and the user is told so.               *)
LEMMA EndKept ==
  ASSUME WalletIInv, NEW j \in Job, Active(j), NEW p \in Wallet!Payment,
         p = job[j].payment,
         job[j].waits, NEW what \in {"ok", "error"},
         job' = [job EXCEPT ![j] = Wallet!Idle], paid' = [paid EXCEPT ![p].told = what],
         what = "ok" => job[j].at = "done" /\ shown' = Wallet!Answered(job[j]),
         what = "error" => job[j].at \in {"sent", "read", "refused"} /\ shown' = shown,
         processing' = processing \/ (processing' = 0 /\ job[j].op = "topup"),
         field' \in {field, 0}, showStripe' \in {showStripe, FALSE},
         UNCHANGED <<owner, account, balance, withdrawn, tab, crossed, cancelled>>
  PROVE  WalletIInv'
<1>1. /\ account \in {"own", "stray"} /\ job[j] \in Wallet!Request /\ paid[p] \in Receipt
      /\ Sound(job[j], paid[p]) /\ TrueReceipt(paid[p])
      /\ \A k \in Job : k # j /\ Active(k) /\ job[k].payment = p =>
           /\ Sound(job[k], paid[p])
           /\ TwoAttempts(job[j], job[k], paid[p]) /\ TwoAttempts(job[k], job[j], paid[p])
  BY CallKnown
<1>2. PICK old \in Wallet!Request : old = job[j]
  BY <1>1
<1>3. PICK was \in Receipt : was = paid[p]
  BY <1>1
<1>4. PICK q \in Receipt : q = [was EXCEPT !.told = what]
  BY DEF Receipt
<1>5. q.booked = was.booked /\ q.told = what /\ q.broke = was.broke
      /\ was.booked \in Nat /\ was.broke \in BOOLEAN
  BY <1>4 DEF Receipt
<1>6. paid' = [paid EXCEPT ![p] = q]
  BY <1>3, <1>4
<1>7. Wallet!Idle \in Wallet!Request /\ Wallet!Idle.at = "idle" /\ ~Wallet!Idle.waits
  BY IdleRequest
<1>8. Fits(j, Wallet!Idle, p, q)
  <2>1. TrueReceipt(q)
    <3>1. what = "ok" => was.booked >= 1
      BY <1>1, <1>2, <1>3 DEF Sound
    <3>2. what = "error" /\ ~was.broke => was.booked = 0
      BY <1>1, <1>2, <1>3 DEF Sound
    <3> QED
      BY <1>1, <1>3, <1>5, <3>1, <3>2 DEF TrueReceipt
  <2>2. \A k \in Job : k # j /\ Active(k) /\ job[k].payment = p => Sound(job[k], q)
    <3>1. SUFFICES ASSUME NEW k \in Job, k # j, Active(k), job[k].payment = p
                   PROVE  Sound(job[k], q)
      OBVIOUS
    <3>2. Sound(job[k], was) /\ TwoAttempts(job[k], old, was)
      BY <1>1, <1>2, <1>3, <3>1
    <3>3. was.broke /\ ~job[k].waits
      BY <1>2, <3>2 DEF TwoAttempts
    <3> QED
      BY <1>5, <3>2, <3>3 DEF Sound
  <2>3. \A k, l \in Job : k # j /\ l # j /\ k # l /\ Active(k) /\ Active(l)
          /\ job[k].payment = p /\ job[l].payment = p => FALSE
    BY TwoAtMost DEF WalletIInv
  <2> QED
    BY <1>7, <2>1, <2>2, <2>3 DEF Fits
<1>9. /\ balance \in [{"own", "stray"} -> Int] /\ withdrawn \in [{"own", "stray"} -> Nat]
      /\ shown \in Int /\ field \in Amount \cup {0} /\ showStripe \in BOOLEAN
  BY DEF WalletIInv, Wallet!TypeOK
<1>10. Wallet!Answered(old) = old.before + Wallet!Change(old) /\ Wallet!Answered(old) \in Int
  <2>1. old.before \in Int /\ old.amount \in Amount \cup {0}
    BY RequestFields
  <2>2. old.amount \in Int
    <3>1. \A a \in Amount : a \in Int
      BY AmountAssumption
    <3> QED
      BY <2>1, <3>1
  <2> QED
    BY <2>1, <2>2 DEF Wallet!Change, Wallet!Answered
<1>11. shown' \in Int
  BY <1>2, <1>9, <1>10
<1>12. Steady'
  <2>1. ASSUME ~crossed, \A r \in Wallet!Payment : ~paid[r].broke,
               q.told = "ok" \/ \E r \in Wallet!Payment : paid[r].told = "ok"
        PROVE  shown' = balance[account]
    <3>1. /\ job[j].at \in {"saved", "done"} =>
               balance[account] = job[j].before + Wallet!Change(job[j])
          /\ (\E r \in Wallet!Payment : paid[r].told = "ok") =>
               shown = balance[account] \/ job[j].at \in {"saved", "done"}
      BY <2>1, OnlyCall
    <3>2. CASE what = "ok"
      BY <1>2, <1>10, <3>1, <3>2
    <3>3. CASE what = "error"
      BY <1>5, <2>1, <3>1, <3>3
    <3> QED
      BY <3>2, <3>3
  <2>2. paid[p].broke => q.broke
    BY <1>3, <1>5
  <2>3. PICK c \in Wallet!Request : c = Wallet!Idle
    BY <1>7
  <2>4. ~crossed /\ (\A r \in Wallet!Payment : ~paid[r].broke) /\ ~q.broke =>
          /\ c.at = "read" => c.before = balance'[account]
          /\ c.at \in {"saved", "done"} => balance'[account] = c.before + Wallet!Change(c)
          /\ q.told = "ok" \/ (\E r \in Wallet!Payment : paid[r].told = "ok") =>
               shown' = balance'[account] \/ c.at \in {"saved", "done"}
    BY <1>7, <2>1, <2>3
  <2>5. job' = [job EXCEPT ![j] = c] /\ UNCHANGED <<account, crossed>>
    BY <2>3
  <2>6. paid' = [paid EXCEPT ![p] = q] /\ p = job[j].payment /\ Active(j) /\ WalletIInv
    BY <1>6
  <2>7. c \in Wallet!Request /\ q \in Receipt
    BY <1>4, <2>3
  <2> HIDE DEF WalletIInv
  <2> QED
    BY ONLY <2>2, <2>4, <2>5, <2>6, <2>7, StaysSteady
<1>13. field' \in Amount \cup {0} /\ showStripe' \in BOOLEAN
  BY <1>9
<1> QED
  BY <1>6, <1>7, <1>8, <1>9, <1>11, <1>12, <1>13, StepKept

(* The page is answered, or refused.                                       *)
LEMMA AnswerKept ==
  ASSUME WalletIInv, NEW j \in Job, Wallet!Succeed(j) \/ Wallet!Refused(j)
  PROVE  WalletIInv'
<1>1. Active(j) /\ job[j].waits /\ job' = [job EXCEPT ![j] = Wallet!Idle]
  BY DEF Wallet!Succeed, Wallet!Refused, Active
<1>2. PICK p \in Wallet!Payment : p = job[j].payment
  BY <1>1, CallKnown
<1>3. CASE Wallet!Succeed(j)
  <2>1. /\ job[j].at = "done" /\ shown' = Wallet!Answered(job[j])
        /\ paid' = [paid EXCEPT ![p].told = "ok"]
        /\ processing' = processing \/ (processing' = 0 /\ job[j].op = "topup")
        /\ field' \in {field, 0} /\ showStripe' \in {showStripe, FALSE}
        /\ UNCHANGED <<owner, account, balance, withdrawn, tab, crossed, cancelled>>
    BY <1>2, <1>3 DEF Wallet!Succeed, Wallet!Told, Wallet!serviceVars
  <2>2. "ok" \in {"ok", "error"} /\ "ok" # "error"
    OBVIOUS
  <2> QED
    BY <1>1, <1>2, <2>1, <2>2, EndKept
<1>4. CASE Wallet!Refused(j)
  <2>1. /\ job[j].at = "refused" /\ shown' = shown
        /\ paid' = [paid EXCEPT ![p].told = "error"]
        /\ processing' = processing \/ (processing' = 0 /\ job[j].op = "topup")
        /\ field' \in {field, 0} /\ showStripe' \in {showStripe, FALSE}
        /\ UNCHANGED <<owner, account, balance, withdrawn, tab, crossed, cancelled>>
    BY <1>2, <1>4 DEF Wallet!Refused, Wallet!GiveUp, Wallet!serviceVars
  <2>2. "error" \in {"ok", "error"} /\ "ok" # "error"
    OBVIOUS
  <2> QED
    BY <1>1, <1>2, <2>1, <2>2, EndKept
<1> QED
  BY <1>3, <1>4

(* The second attempt is a call like the first.                            *)
LEMMA SecondTry ==
  ASSUME NEW old \in Wallet!Request
  PROVE  [old EXCEPT !.at = "sent", !.attempt = 2, !.before = 0] \in Wallet!Request
<1>1. 0 \in Int /\ 2 \in {1, 2}
  OBVIOUS
<1>2. PICK new : new = [old EXCEPT !.at = "sent", !.attempt = 2, !.before = 0]
  OBVIOUS
<1>3. new = [at |-> "sent", op |-> old.op, amount |-> old.amount, payment |-> old.payment,
             attempt |-> 2, waits |-> old.waits, before |-> 0]
  BY <1>2 DEF Wallet!Request
<1>4. new \in Wallet!Request
  BY <1>1, <1>3, RequestFields DEF Wallet!Request
<1> QED
  BY <1>2, <1>4

(* The service fails, and the page tries again or gives up.                *)
LEMMA FailKept ==
  ASSUME WalletIInv, NEW j \in Job, Wallet!Fail(j)
  PROVE  WalletIInv'
<1>1. Active(j) /\ job[j].waits /\ job[j].at \in {"sent", "read"}
  BY DEF Wallet!Fail, Active
<1>2. PICK p \in Wallet!Payment : p = job[j].payment
  BY <1>1, CallKnown
<1>3. /\ account \in {"own", "stray"} /\ job[j] \in Wallet!Request /\ paid[p] \in Receipt
      /\ Sound(job[j], paid[p]) /\ TrueReceipt(paid[p])
      /\ \A k \in Job : k # j /\ Active(k) /\ job[k].payment = p =>
           TwoAttempts(job[j], job[k], paid[p])
  BY <1>1, <1>2, CallKnown
<1>4. PICK old \in Wallet!Request : old = job[j]
  BY <1>3
<1>5. UNCHANGED <<owner, account, balance, withdrawn, shown, tab, field, crossed, cancelled>>
  BY DEF Wallet!Fail, Wallet!serviceVars
<1>6. CASE Wallet!Retries(old)
  <2>1. PICK c \in Wallet!Request : c = [old EXCEPT !.at = "sent", !.attempt = 2, !.before = 0]
    BY SecondTry
  <2>2. /\ c.at = "sent" /\ c.attempt = 2 /\ c.op = old.op /\ c.payment = old.payment
        /\ c.waits = old.waits
    BY <2>1 DEF Wallet!Request
  <2>3. job' = [job EXCEPT ![j] = c] /\ paid' = paid /\ UNCHANGED <<showStripe, processing>>
    BY <1>4, <1>6, <2>1 DEF Wallet!Fail
  <2>4. paid' = [paid EXCEPT ![p] = paid[p]]
    BY <2>3, WalletTables DEF WalletIInv
  <2>5. Sound(old, paid[p]) /\ old.waits /\ old.attempt = 1 /\ old.at \in {"sent", "read"}
    BY <1>1, <1>3, <1>4, <1>6 DEF Wallet!Retries
  <2>6. ~paid[p].broke
    BY <2>5 DEF Sound
  <2>7. \A k \in Job : ~(k # j /\ Active(k) /\ job[k].payment = p)
    BY <1>3, <2>6 DEF TwoAttempts
  <2>8. Sound(c, paid[p])
    BY <2>2, <2>5 DEF Sound
  <2>9. Fits(j, c, p, paid[p])
    BY <1>2, <1>3, <1>4, <2>2, <2>7, <2>8 DEF Fits
  <2>10. Steady'
    <3>1. ASSUME ~crossed, \A r \in Wallet!Payment : ~paid[r].broke
          PROVE  (\E r \in Wallet!Payment : paid[r].told = "ok") => shown' = balance'[account]
      BY <1>1, <1>5, <3>1, OnlyCall
    <3> QED
      BY <1>1, <1>2, <1>3, <1>5, <2>2, <2>3, <2>4, <3>1, StaysSteady
  <2>11. c.op = "topup" /\ c.waits => job[j].op = "topup" /\ job[j].waits
    BY <1>4, <2>2
  <2>12. /\ balance \in [{"own", "stray"} -> Int] /\ withdrawn \in [{"own", "stray"} -> Nat]
         /\ shown \in Int /\ field \in Amount \cup {0} /\ showStripe \in BOOLEAN
    BY DEF WalletIInv, Wallet!TypeOK
  <2> QED
    BY <1>1, <1>2, <1>3, <1>5, <2>3, <2>4, <2>9, <2>10, <2>11, <2>12, StepKept
<1>7. CASE ~Wallet!Retries(old)
  <2>1. /\ job' = [job EXCEPT ![j] = Wallet!Idle] /\ shown' = shown
        /\ paid' = [paid EXCEPT ![p].told = "error"]
        /\ processing' = processing \/ (processing' = 0 /\ job[j].op = "topup")
        /\ field' \in {field, 0} /\ showStripe' \in {showStripe, FALSE}
    BY <1>2, <1>4, <1>5, <1>7 DEF Wallet!Fail, Wallet!GiveUp
  <2>2. "error" \in {"ok", "error"} /\ "ok" # "error"
    OBVIOUS
  <2> QED
    BY <1>1, <1>2, <1>5, <2>1, <2>2, EndKept
<1> QED
  BY <1>6, <1>7

(* The connection breaks.  A payment of which a call broke is out of the   *)
(* promise about the balance.                                              *)
LEMMA BrokenSteady ==
  ASSUME WalletIInv, NEW p \in Wallet!Payment, paid'[p].broke
  PROVE  Steady'
BY DEF Steady

(* The last attempt breaks.                                                *)
LEMMA LastBreakKept ==
  ASSUME WalletIInv, NEW j \in Job, NEW k \in Job, NEW rest \in BOOLEAN,
         Wallet!Break(j, k, rest), ~Wallet!Retries(job[j])
  PROVE  WalletIInv'
<1>1. Active(j) /\ job[j].waits /\ job[j].at \in {"sent", "read", "saved", "done"}
      /\ (job[j].at = "done" => ~rest)
  BY DEF Wallet!Break, Active
<1>2. PICK p \in Wallet!Payment : p = job[j].payment
  BY <1>1, CallKnown
<1>3. /\ account \in {"own", "stray"} /\ job[j] \in Wallet!Request /\ paid[p] \in Receipt
      /\ Sound(job[j], paid[p]) /\ TrueReceipt(paid[p])
      /\ \A l \in Job : l # j /\ Active(l) /\ job[l].payment = p =>
           /\ Sound(job[l], paid[p])
           /\ TwoAttempts(job[j], job[l], paid[p]) /\ TwoAttempts(job[l], job[j], paid[p])
  BY <1>1, <1>2, CallKnown
<1>4. PICK old \in Wallet!Request : old = job[j]
  BY <1>3
<1>5. PICK was \in Receipt : was = paid[p]
  BY <1>3
<1>6. PICK q \in Receipt : q = [was EXCEPT !.broke = TRUE, !.told = "error"]
  BY DEF Receipt
<1>7. q.booked = was.booked /\ q.told = "error" /\ q.broke = TRUE /\ was.booked \in Nat
  BY <1>6 DEF Receipt
<1>8. PICK c \in Wallet!Request :
        /\ job' = [job EXCEPT ![j] = c]
        /\ \/ /\ rest /\ c.at = old.at /\ c.op = old.op /\ c.payment = old.payment
              /\ c.attempt = old.attempt /\ c.waits = FALSE
           \/ c = Wallet!Idle
  <2>1. job' = [job EXCEPT ![j] = Wallet!Broken(old, rest)]
    BY <1>4 DEF Wallet!Break
  <2>2. CASE rest
    <3>1. [old EXCEPT !.waits = FALSE] \in Wallet!Request
      BY DEF Wallet!Request
    <3> WITNESS [old EXCEPT !.waits = FALSE] \in Wallet!Request
    <3> QED
      BY <2>1, <2>2 DEF Wallet!Broken, Wallet!Request
  <2>3. CASE ~rest
    BY <2>1, <2>3, IdleRequest DEF Wallet!Broken
  <2> QED
    BY <2>2, <2>3
<1>9. /\ paid' = [paid EXCEPT ![p] = q]
      /\ processing' = processing \/ (processing' = 0 /\ job[j].op = "topup")
      /\ showStripe' \in {showStripe, FALSE}
      /\ UNCHANGED <<owner, account, balance, withdrawn, shown, tab, field, crossed, cancelled>>
  BY <1>2, <1>5, <1>6 DEF Wallet!Break, Wallet!serviceVars
<1>10. c.waits = FALSE
  BY <1>8, IdleRequest
<1>11. Fits(j, c, p, q)
  <2>1. TrueReceipt(q)
    BY <1>3, <1>5, <1>7 DEF TrueReceipt
  <2>2. c.at = "idle" => c = Wallet!Idle
    BY <1>1, <1>4, <1>8
  <2>3. c.at # "idle" => /\ c.payment = p /\ c.attempt = old.attempt /\ rest
                         /\ c.at = old.at
    BY <1>2, <1>4, <1>8, IdleRequest
  <2>4. c.at # "idle" => Sound(c, q)
    <3>1. Sound(old, was) /\ old.at \in {"sent", "read", "saved", "done"}
          /\ (old.at = "done" => ~rest)
      BY <1>1, <1>3, <1>4, <1>5
    <3> QED
      BY <1>7, <1>10, <2>3, <3>1 DEF Sound
  <2>5. ASSUME NEW l \in Job, l # j, Active(l), job[l].payment = p
        PROVE  /\ Sound(job[l], q)
               /\ c.at # "idle" => TwoAttempts(c, job[l], q) /\ TwoAttempts(job[l], c, q)
    <3>1. /\ Sound(job[l], was) /\ TwoAttempts(old, job[l], was)
          /\ TwoAttempts(job[l], old, was)
      BY <1>3, <1>4, <1>5, <2>5
    <3>2. ~job[l].waits
      BY <1>1, <1>4, <3>1 DEF TwoAttempts
    <3>3. Sound(job[l], q)
      BY <1>7, <3>1, <3>2 DEF Sound
    <3>4. c.at # "idle" => TwoAttempts(c, job[l], q) /\ TwoAttempts(job[l], c, q)
      BY <1>7, <1>10, <2>3, <3>1, <3>2 DEF TwoAttempts
    <3> QED
      BY <3>3, <3>4
  <2>6. \A l, m \in Job : l # j /\ m # j /\ l # m /\ Active(l) /\ Active(m)
          /\ job[l].payment = p /\ job[m].payment = p => FALSE
    BY <1>1, <1>2, TwoAtMost DEF WalletIInv
  <2> QED
    BY <2>1, <2>2, <2>3, <2>4, <2>5, <2>6 DEF Fits
<1>12. Steady'
  <2>1. paid'[p] = q
    BY <1>9, WalletTables DEF WalletIInv
  <2> QED
    BY <1>7, <2>1, BrokenSteady
<1>13. /\ balance \in [{"own", "stray"} -> Int] /\ withdrawn \in [{"own", "stray"} -> Nat]
       /\ shown \in Int /\ field \in Amount \cup {0} /\ showStripe' \in BOOLEAN
  BY <1>9 DEF WalletIInv, Wallet!TypeOK
<1> QED
  BY <1>1, <1>2, <1>8, <1>9, <1>10, <1>11, <1>12, <1>13, StepKept

(* The first attempt breaks, and is cut short.                             *)
LEMMA CutBreakKept ==
  ASSUME WalletIInv, NEW j \in Job, NEW k \in Job, Wallet!Break(j, k, FALSE),
         Wallet!Retries(job[j])
  PROVE  WalletIInv'
<1>1. Active(j) /\ job[j].waits /\ job[j].attempt = 1 /\ job[j].op = "topup" /\ k = j
  BY DEF Wallet!Break, Wallet!Retries, Active
<1>2. PICK p \in Wallet!Payment : p = job[j].payment
  BY <1>1, CallKnown
<1>3. /\ account \in {"own", "stray"} /\ job[j] \in Wallet!Request /\ paid[p] \in Receipt
      /\ Sound(job[j], paid[p]) /\ TrueReceipt(paid[p])
      /\ \A l \in Job : l # j /\ Active(l) /\ job[l].payment = p =>
           TwoAttempts(job[j], job[l], paid[p])
  BY <1>1, <1>2, CallKnown
<1>4. PICK old \in Wallet!Request : old = job[j]
  BY <1>3
<1>5. PICK was \in Receipt : was = paid[p]
  BY <1>3
<1>6. PICK q \in Receipt : q = [was EXCEPT !.broke = TRUE]
  BY DEF Receipt
<1>7. q.booked = was.booked /\ q.told = was.told /\ q.broke = TRUE /\ was.booked \in Nat
  BY <1>6 DEF Receipt
<1>8. PICK c \in Wallet!Request : c = [old EXCEPT !.at = "sent", !.attempt = 2, !.before = 0]
  BY SecondTry
<1>9. /\ c.at = "sent" /\ c.attempt = 2 /\ c.op = old.op /\ c.payment = old.payment
      /\ c.waits = old.waits
  BY <1>8 DEF Wallet!Request
<1>10. /\ job' = [job EXCEPT ![j] = Wallet!Broken(old, FALSE), ![j] = c]
       /\ paid' = [paid EXCEPT ![p] = q] /\ was.told = "wait"
       /\ crossed' = (crossed \/ FALSE)
       /\ UNCHANGED <<showStripe, processing>>
       /\ UNCHANGED <<owner, account, balance, withdrawn, shown, tab, field, cancelled>>
  BY <1>1, <1>2, <1>4, <1>5, <1>6, <1>8 DEF Wallet!Break, Wallet!serviceVars
<1>11. job' = [job EXCEPT ![j] = c] /\ crossed' = crossed
  BY <1>10, WalletTables DEF WalletIInv
<1>12. ~was.broke
  BY <1>1, <1>3, <1>5 DEF Sound
<1>13. Fits(j, c, p, q)
  <2>1. was.booked <= 1
    BY <1>3, <1>5, <1>12 DEF TrueReceipt
  <2>2. TrueReceipt(q)
    BY <1>7, <1>10, <2>1 DEF TrueReceipt
  <2>3. Sound(c, q)
    BY <1>1, <1>4, <1>7, <1>9, <1>10, <2>1 DEF Sound
  <2>4. \A l \in Job : ~(l # j /\ Active(l) /\ job[l].payment = p)
    BY <1>3, <1>5, <1>12 DEF TwoAttempts
  <2> QED
    BY <1>2, <1>4, <1>9, <2>2, <2>3, <2>4 DEF Fits
<1>14. Steady'
  <2>1. paid'[p] = q
    BY <1>10, WalletTables DEF WalletIInv
  <2> QED
    BY <1>7, <2>1, BrokenSteady
<1>15. c.op = "topup" /\ c.waits => job[j].op = "topup" /\ job[j].waits
  BY <1>4, <1>9
<1>16. /\ balance \in [{"own", "stray"} -> Int] /\ withdrawn \in [{"own", "stray"} -> Nat]
       /\ shown \in Int /\ field \in Amount \cup {0} /\ showStripe \in BOOLEAN
  BY DEF WalletIInv, Wallet!TypeOK
<1> QED
  BY <1>1, <1>2, <1>10, <1>11, <1>13, <1>14, <1>15, <1>16, StepKept

(* The first attempt breaks and goes on in the service beside the second.  *)
LEMMA LongBreakKept ==
  ASSUME WalletIInv, NEW j \in Job, NEW k \in Job, Wallet!Break(j, k, TRUE),
         Wallet!Retries(job[j])
  PROVE  WalletIInv'
<1>1. /\ Active(j) /\ job[j].waits /\ job[j].attempt = 1 /\ job[j].op = "topup"
      /\ k # j /\ job[k].at = "idle" /\ job[j].at \in {"sent", "read", "saved"}
  BY DEF Wallet!Break, Wallet!Retries, Active
<1>2. PICK p \in Wallet!Payment : p = job[j].payment
  BY <1>1, CallKnown
<1>3. /\ job[j] \in Wallet!Request /\ paid[p] \in Receipt
      /\ Sound(job[j], paid[p]) /\ TrueReceipt(paid[p])
      /\ \A l \in Job : l # j /\ Active(l) /\ job[l].payment = p =>
           TwoAttempts(job[j], job[l], paid[p])
  BY <1>1, <1>2, CallKnown
<1>4. PICK old \in Wallet!Request : old = job[j]
  BY <1>3
<1>5. PICK was \in Receipt : was = paid[p]
  BY <1>3
<1>6. PICK q \in Receipt : q = [was EXCEPT !.broke = TRUE]
  BY DEF Receipt
<1>7. q.booked = was.booked /\ q.told = was.told /\ q.broke = TRUE /\ was.booked \in Nat
  BY <1>6 DEF Receipt
<1>8. PICK c \in Wallet!Request : c = [old EXCEPT !.waits = FALSE]
  BY DEF Wallet!Request
<1>9. /\ c.at = old.at /\ c.attempt = 1 /\ c.op = "topup" /\ c.payment = p /\ c.waits = FALSE
  BY <1>1, <1>2, <1>4, <1>8 DEF Wallet!Request
<1>10. PICK d \in Wallet!Request : d = [old EXCEPT !.at = "sent", !.attempt = 2, !.before = 0]
  BY SecondTry
<1>11. /\ d.at = "sent" /\ d.attempt = 2 /\ d.op = "topup" /\ d.payment = p /\ d.waits = TRUE
  BY <1>1, <1>2, <1>4, <1>10 DEF Wallet!Request
<1>12. /\ job' = [job EXCEPT ![j] = c, ![k] = d]
       /\ paid' = [paid EXCEPT ![p] = q] /\ was.told = "wait"
       /\ crossed' = (crossed \/ TRUE)
       /\ UNCHANGED <<showStripe, processing>>
       /\ UNCHANGED <<owner, account, balance, withdrawn, shown, tab, field, cancelled>>
  BY <1>1, <1>2, <1>4, <1>5, <1>6, <1>8, <1>10 DEF Wallet!Break, Wallet!Broken,
     Wallet!serviceVars
<1>13. /\ job' \in [Job -> Wallet!Request] /\ paid' \in [Wallet!Payment -> Receipt]
       /\ job'[j] = c /\ job'[k] = d /\ \A l \in Job : l # j /\ l # k => job'[l] = job[l]
       /\ paid'[p] = q /\ \A r \in Wallet!Payment : r # p => paid'[r] = paid[r]
  BY <1>1, <1>12, WalletTables DEF WalletIInv
<1>14. ~was.broke
  BY <1>1, <1>3, <1>5 DEF Sound
<1>15. \A l \in Job : ~(l # j /\ Active(l) /\ job[l].payment = p)
  BY <1>3, <1>5, <1>14 DEF TwoAttempts
<1>16. Receipts'
  <2>1. was.booked <= 1
    BY <1>3, <1>5, <1>14 DEF TrueReceipt
  <2>2. TrueReceipt(q)
    BY <1>7, <1>12, <2>1 DEF TrueReceipt
  <2>3. Sound(c, q) /\ Sound(d, q)
    <3>1. Sound(old, was) /\ old.at \in {"sent", "read", "saved"}
      BY <1>1, <1>3, <1>4, <1>5
    <3> QED
      BY <1>7, <1>9, <1>11, <1>12, <2>1, <3>1 DEF Sound
  <2>4. TwoAttempts(c, d, q) /\ TwoAttempts(d, c, q)
    <3>1. Sound(old, was)
      BY <1>3, <1>4, <1>5
    <3>2. old.at \in {"sent", "read"} => was.booked = 0
      BY <1>14, <3>1 DEF Sound
    <3> QED
      BY <1>7, <1>9, <1>11, <3>2 DEF TwoAttempts
  <2>5. \A r \in Wallet!Payment : TrueReceipt(paid'[r])
    BY <1>13, <2>2 DEF WalletIInv, Receipts
  <2>6. \A l \in Job : job'[l].at = "idle" => job'[l] = Wallet!Idle
    BY <1>1, <1>4, <1>9, <1>11, <1>13 DEF WalletIInv, Receipts, Active
  <2>7. ASSUME NEW l \in Job, job'[l].at # "idle"
        PROVE  job'[l].payment \in Wallet!Payment /\ Sound(job'[l], paid'[job'[l].payment])
    <3>1. CASE l = j \/ l = k
      BY <1>9, <1>11, <1>13, <2>3, <3>1
    <3>2. CASE l # j /\ l # k
      <4>1. Active(l) /\ job'[l] = job[l]
        BY <1>13, <2>7, <3>2 DEF Active
      <4>2. job[l].payment # p /\ job[l].payment \in Wallet!Payment
        BY <1>15, <3>2, <4>1 DEF WalletIInv, Receipts
      <4> QED
        BY <1>13, <4>1, <4>2 DEF WalletIInv, Receipts
    <3> QED
      BY <3>1, <3>2
  <2>8. ASSUME NEW l \in Job, NEW m \in Job, l # m, job'[l].at # "idle", job'[m].at # "idle",
               job'[l].payment = job'[m].payment
        PROVE  TwoAttempts(job'[l], job'[m], paid'[job'[l].payment])
    <3>1. CASE l \in {j, k} /\ m \in {j, k}
      BY <1>9, <1>11, <1>13, <2>4, <2>8, <3>1
    <3>2. CASE l \notin {j, k} /\ m \in {j, k}
      BY <1>9, <1>11, <1>13, <1>15, <2>8, <3>2 DEF Active
    <3>3. CASE l \in {j, k} /\ m \notin {j, k}
      BY <1>9, <1>11, <1>13, <1>15, <2>8, <3>3 DEF Active
    <3>4. CASE l \notin {j, k} /\ m \notin {j, k}
      <4>1. Active(l) /\ job'[l] = job[l] /\ Active(m) /\ job'[m] = job[m]
        BY <1>13, <2>8, <3>4 DEF Active
      <4>2. job[l].payment # p /\ job[l].payment \in Wallet!Payment
        BY <1>15, <3>4, <4>1 DEF WalletIInv, Receipts
      <4> QED
        BY <1>13, <2>8, <4>1, <4>2 DEF WalletIInv, Receipts
    <3> QED
      BY <3>1, <3>2, <3>3, <3>4
  <2> QED
    BY <2>5, <2>6, <2>7, <2>8 DEF Receipts, Active
<1>17. Unopened'
  <2>1. account # "none"
    BY <1>1, CallKnown
  <2> QED
    BY <1>12, <2>1 DEF Unopened
<1>18. Wallet!TypeOK'
  <2>1. crossed' \in BOOLEAN
    BY <1>12
  <2> QED
    BY <1>12, <1>13, <2>1 DEF WalletIInv, Wallet!TypeOK, Receipt
<1>19. FormWaits'
  <2> SUFFICES ASSUME ~cancelled, NEW l \in Job, job'[l].op = "topup", job'[l].waits
               PROVE  processing' = job'[l].payment /\ processing' # 0
    BY <1>12 DEF FormWaits
  <2>1. processing = p /\ processing # 0
    BY <1>1, <1>2 DEF WalletIInv, FormWaits
  <2>2. CASE l = j \/ l = k
    BY <1>9, <1>11, <1>12, <1>13, <2>1, <2>2
  <2>3. CASE l # j /\ l # k
    BY <1>12, <1>13, <2>3 DEF WalletIInv, FormWaits
  <2> QED
    BY <2>2, <2>3
<1>20. Steady'
  BY <1>7, <1>13, BrokenSteady
<1> QED
  BY <1>16, <1>17, <1>18, <1>19, <1>20 DEF WalletIInv

(* The connection breaks, in any of these ways.                            *)
LEMMA BreakKept ==
  ASSUME WalletIInv, NEW j \in Job, NEW k \in Job, NEW rest \in BOOLEAN, Wallet!Break(j,
         k, rest)
  PROVE  WalletIInv'
<1>1. CASE ~Wallet!Retries(job[j])
  BY <1>1, LastBreakKept
<1>2. CASE Wallet!Retries(job[j]) /\ rest = FALSE
  BY <1>2, CutBreakKept
<1>3. CASE Wallet!Retries(job[j]) /\ rest = TRUE
  BY <1>3, LongBreakKept
<1> QED
  BY <1>1, <1>2, <1>3

(* Every step on a wallet page keeps the invariant.                        *)
LEMMA WalletKept ==
  ASSUME WalletIInv, Wallet!Next \/ UNCHANGED walletVars
  PROVE  WalletIInv'
<1>1. CASE UNCHANGED walletVars
  BY <1>1 DEF walletVars, WalletIInv, Wallet!TypeOK, Receipts, Active, Unopened,
     FormWaits, Steady
<1>2. CASE \/ Wallet!LoadDriver \/ Wallet!LoadMerchant \/ Wallet!SwitchTab \/ Wallet!OpenForm
           \/ Wallet!Cancel \/ \E a \in Amount : Wallet!Type(a)
  BY <1>2, PageKept
<1>3. ASSUME NEW j \in Job, Wallet!Serve(j) \/ Wallet!Fail(j)
      PROVE  WalletIInv'
  BY <1>3, ReadKept, SaveKept, RecordKept, AnswerKept, FailKept DEF Wallet!Serve
<1>4. ASSUME NEW j \in Job, NEW p \in Wallet!Payment,
             \/ Wallet!Submit(j, p)
             \/ \E a \in Amount : Wallet!DriverWithdraws(j, p, a) \/ Wallet!MerchantWithdraws(j, p, a)
      PROVE  WalletIInv'
  BY <1>4, ButtonsKept
<1>5. ASSUME NEW j \in Job, NEW k \in Job, NEW rest \in BOOLEAN, Wallet!Break(j, k, rest)
      PROVE  WalletIInv'
  BY <1>5, BreakKept
<1> QED
  BY <1>1, <1>2, <1>3, <1>4, <1>5 DEF Wallet!Next

(* The invariant holds when a wallet page is opened.                       *)
LEMMA WalletStarts == Wallet!Init => WalletIInv
<1> SUFFICES ASSUME Wallet!Init PROVE WalletIInv
  OBVIOUS
<1>1. /\ \A j \in Job : job[j] = Wallet!Idle
      /\ \A p \in Wallet!Payment : paid[p] = Wallet!Unpaid
      /\ account = "none" /\ ~showStripe
  BY DEF Wallet!Init
<1>2. Wallet!Unpaid.told = "nothing" /\ Wallet!Unpaid.booked = 0 /\ ~Wallet!Unpaid.broke
  BY DEF Wallet!Unpaid
<1>3. Wallet!TypeOK
  <2>1. Wallet!Unpaid \in Receipt
    BY DEF Wallet!Unpaid, Receipt
  <2>2. /\ job \in [Job -> Wallet!Request] /\ paid \in [Wallet!Payment -> Receipt]
        /\ Opening \in Int /\ 0 \in 0 .. MaxPayments
    BY <2>1, IdleRequest, AmountAssumption, BoundsAssumption DEF Wallet!Init
  <2>3. ASSUME NEW S, NEW x \in S, NEW y \in S
        PROVE  [own |-> x, stray |-> y] \in [{"own", "stray"} -> S]
    OBVIOUS
  <2>4. balance \in [{"own", "stray"} -> Int] /\ withdrawn \in [{"own", "stray"} -> Nat]
    <3>1. 0 \in Int /\ 0 \in Nat
      OBVIOUS
    <3> QED
      BY <2>2, <2>3, <3>1 DEF Wallet!Init
  <2> QED
    BY <2>2, <2>4 DEF Wallet!Init, Wallet!TypeOK, Receipt
<1>4. Receipts /\ Unopened /\ FormWaits /\ Steady
  BY <1>1, <1>2, IdleRequest DEF Receipts, TrueReceipt, Active, Unopened, FormWaits,
     Steady
<1> QED
  BY <1>3, <1>4 DEF WalletIInv

(* What the wallet pages promise.                                          *)
LEMMA WalletHolds ==
  ASSUME WalletIInv
  PROVE  /\ Wallet!TypeOK /\ Wallet!OneTopupAtATime
         /\ Wallet!ReceiptsAreTrue /\ Wallet!ShownIsCurrent
<1>1. Wallet!OneTopupAtATime
  <2> SUFFICES ASSUME ~cancelled, NEW j \in Job, NEW k \in Job, job[j].op = "topup",
                      job[k].op = "topup", job[j].waits, job[k].waits, j # k
               PROVE  FALSE
    BY DEF Wallet!OneTopupAtATime
  <2>1. job[j].payment = job[k].payment
    BY DEF WalletIInv, FormWaits
  <2>2. Active(j) /\ Active(k)
    BY IdleRequest DEF WalletIInv, Receipts
  <2> QED
    BY <2>1, <2>2, CallKnown DEF TwoAttempts
<1>2. Wallet!ReceiptsAreTrue
  BY DEF WalletIInv, Receipts, TrueReceipt, Wallet!ReceiptsAreTrue
<1>3. Wallet!ShownIsCurrent
  BY DEF WalletIInv, Steady, Wallet!ShownIsCurrent
<1> QED
  BY <1>1, <1>2, <1>3 DEF WalletIInv

-----------------------------------------------------------------------------
(* The location page.                                                      *)

(* The timer and, as long as no search passed another, the search under    *)
(* way are for the text typed last.                                        *)
Searching ==
  /\ timer # Nothing => timer = lastTyped /\ lastTyped \in Query
  /\ ~passed =>
       /\ \A f, g \in Fetch : fetches[f] # Nothing /\ fetches[g] # Nothing => f = g
       /\ timer = Nothing =>
            /\ \A f \in Fetch : fetches[f] \in {lastTyped, Nothing}
            /\ ~Location!UnderWay => suggestions \in {lastTyped, Nothing}

(* The place on its way is the one sent last, and no place is late unless  *)
(* the page missed the end of a call.                                      *)
Placing ==
  /\ updating # Nothing => updating = sent /\ status = ""
  /\ ~lost => late = {}
  /\ status = "ok" /\ ~lost => stored = sent

(* The inductive invariant of the location page.                           *)
LocationIInv == Location!TypeOK /\ Searching /\ Placing

(* The two halves of the page.                                             *)
LEMMA LocationSteps ==
  ASSUME Location!Next
  PROVE  \/ /\ UNCHANGED Location!searchVars
            /\ \/ UNCHANGED Location!placeVars \/ Location!UpdateLocation \/ Location!Confirmed
               \/ Location!NotConfirmed \/ \E place \in Place : Location!StoredLate(place)
               \/ \E place \in Place : Location!Position(place)
         \/ /\ UNCHANGED Location!placeVars
            /\ \/ Location!ClearButton \/ Location!HideList
               \/ \E text \in Query \cup {Short} : Location!Type(text)
               \/ \E f \in Fetch : Location!TimerFires(f) \/ Location!Fetched(f)
               \/ \E place \in Place : Location!SelectSuggestion(place)
<1> USE DEF Location!Next, Location!Ends, Location!searchVars, Location!placeVars
<1>1. CASE Location!AskPosition \/ \E place \in Place : Location!MovePin(place)
  BY <1>1 DEF Location!AskPosition, Location!MovePin
<1>2. CASE Location!UpdateLocation \/ Location!Confirmed \/ Location!NotConfirmed
  BY <1>2 DEF Location!UpdateLocation, Location!Confirmed, Location!NotConfirmed
<1>3. ASSUME NEW place \in Place, Location!StoredLate(place) \/ Location!Position(place)
      PROVE  UNCHANGED Location!searchVars
  BY <1>3 DEF Location!StoredLate, Location!Position
<1>4. CASE Location!ClearButton \/ Location!HideList
  BY <1>4 DEF Location!ClearButton, Location!HideList
<1>5. ASSUME NEW text \in Query \cup {Short}, Location!Type(text)
      PROVE  UNCHANGED Location!placeVars
  BY <1>5 DEF Location!Type
<1>6. ASSUME NEW f \in Fetch, Location!TimerFires(f) \/ Location!Fetched(f)
      PROVE  UNCHANGED Location!placeVars
  BY <1>6 DEF Location!TimerFires, Location!Fetched
<1>7. ASSUME NEW place \in Place, Location!SelectSuggestion(place)
      PROVE  UNCHANGED Location!placeVars
  BY <1>7 DEF Location!SelectSuggestion
<1> QED
  BY <1>1, <1>2, <1>3, <1>4, <1>5, <1>6, <1>7

(* The bounds are counted up in natural numbers.                           *)
LEMMA LocationCounts ==
  ASSUME Location!TypeOK
  PROVE  updates + 1 \in Nat /\ typed + 1 \in Nat
<1>1. updates \in Nat /\ typed \in Nat
  BY DEF Location!TypeOK
<1> QED
  BY <1>1

(* Every step on the location page keeps its types.                        *)
LEMMA LocationTypes ==
  ASSUME Location!TypeOK, Location!Next
  PROVE  Location!TypeOK'
<1> USE DEF Location!TypeOK, Location!Text, Location!searchVars, Location!placeVars
<1>1. CASE Location!ClearButton \/ Location!HideList \/ Location!AskPosition
  BY <1>1 DEF Location!ClearButton, Location!HideList, Location!AskPosition
<1>2. CASE Location!UpdateLocation
  <2>1. updates' = updates + 1 /\ updating' = pin /\ sent' = pin /\ status' = ""
    BY <1>2 DEF Location!UpdateLocation, Location!AtClick
  <2> QED
    BY <1>2, <2>1, LocationCounts DEF Location!UpdateLocation
<1>8. CASE Location!Confirmed
  BY <1>8 DEF Location!Confirmed
<1>3. CASE Location!NotConfirmed
  BY <1>3 DEF Location!NotConfirmed, Location!AfterError
<1>4. ASSUME NEW text \in Query \cup {Short}, Location!Type(text) PROVE Location!TypeOK'
  <2>1. typed' \in Nat
    BY <1>4, LocationCounts DEF Location!Type
  <2>2. timer' \in Query \cup {Nothing}
    BY <1>4 DEF Location!Type, Location!NewTimer
  <2>3. suggestions' \in Query \cup {Nothing} /\ visible' \in BOOLEAN /\ passed' \in BOOLEAN
    BY <1>4 DEF Location!Type
  <2> QED
    BY <1>4, <2>1, <2>2, <2>3 DEF Location!Type
<1>5. ASSUME NEW f \in Fetch, Location!TimerFires(f) PROVE Location!TypeOK'
  BY <1>5 DEF Location!TimerFires, Location!UnderWay
<1>6. ASSUME NEW f \in Fetch, Location!Fetched(f) PROVE Location!TypeOK'
  <2>1. suggestions' \in Query \cup {Nothing} /\ visible' \in BOOLEAN
    BY <1>6 DEF Location!Fetched, Location!Results
  <2>2. fetches' \in [Fetch -> Query \cup {Nothing}]
    BY <1>6 DEF Location!Fetched
  <2> QED
    BY <1>6, <2>1, <2>2 DEF Location!Fetched
<1>7. ASSUME NEW place \in Place,
             \/ Location!SelectSuggestion(place) \/ Location!MovePin(place)
             \/ Location!Position(place) \/ Location!StoredLate(place)
      PROVE  Location!TypeOK'
  BY <1>7 DEF Location!SelectSuggestion, Location!MovePin, Location!Position,
              Location!StoredLate
<1> QED
  BY <1>1, <1>2, <1>3, <1>4, <1>5, <1>6, <1>7, <1>8 DEF Location!Next, Location!Ends

(* Every step of the search keeps its part of the invariant.               *)
LEMMA SearchingKept ==
  ASSUME LocationIInv, Location!Next
  PROVE  Searching'
<1> USE DEF LocationIInv
<1>1. CASE UNCHANGED <<timer, lastTyped, passed, fetches>> /\ suggestions' \in {suggestions, Nothing}
  BY <1>1 DEF Searching, Location!UnderWay
<1>2. ASSUME NEW text \in Query \cup {Short}, Location!Type(text) PROVE Searching'
  <2>1. CASE text \in Query
    <3>1. timer' = text /\ lastTyped' = text /\ passed' = passed /\ fetches' = fetches
      BY <1>2, <2>1 DEF Location!Type, Location!NewTimer
    <3> QED
      BY <2>1, <3>1, QueryAssumption DEF Searching
  <2>2. CASE text \notin Query
    <3>1. /\ timer' = Nothing /\ lastTyped' = text /\ fetches' = fetches
          /\ suggestions' = Nothing /\ (~passed' => ~passed /\ ~Location!UnderWay)
      BY <1>2, <2>2 DEF Location!Type, Location!NewTimer, Location!TypeOK
    <3> QED
      BY <3>1 DEF Searching, Location!UnderWay
  <2> QED
    BY <2>1, <2>2
<1>3. ASSUME NEW f \in Fetch, Location!TimerFires(f) PROVE Searching'
  <2>1. /\ timer # Nothing /\ timer' = Nothing /\ lastTyped' = lastTyped
        /\ (~passed' => ~passed /\ ~Location!UnderWay)
        /\ fetches'[f] = timer /\ \A g \in Fetch : g # f => fetches'[g] = fetches[g]
    BY <1>3 DEF Location!TimerFires, Location!TypeOK
  <2> QED
    BY <2>1 DEF Searching, Location!UnderWay
<1>4. ASSUME NEW f \in Fetch, Location!Fetched(f) PROVE Searching'
  <2>1. /\ timer' = timer /\ lastTyped' = lastTyped /\ passed' = passed
        /\ fetches[f] # Nothing /\ suggestions' \in {fetches[f], Nothing}
        /\ fetches'[f] = Nothing /\ \A g \in Fetch : g # f => fetches'[g] = fetches[g]
    BY <1>4 DEF Location!Fetched, Location!Results, Location!TypeOK
  <2> QED
    BY <2>1 DEF Searching, Location!UnderWay
<1>5. CASE UNCHANGED Location!searchVars
  BY <1>1, <1>5 DEF Location!searchVars
<1>6. CASE \/ Location!ClearButton \/ Location!HideList
           \/ \E place \in Place : Location!SelectSuggestion(place)
  BY <1>1, <1>6 DEF Location!ClearButton, Location!HideList, Location!SelectSuggestion
<1> QED
  BY <1>2, <1>3, <1>4, <1>5, <1>6, LocationSteps

(* Every step of the pin and of the place keeps its part of the invariant. *)
LEMMA PlacingKept ==
  ASSUME LocationIInv, Location!Next
  PROVE  Placing'
<1> USE DEF LocationIInv, Placing
<1>1. CASE UNCHANGED Location!placeVars
  BY <1>1 DEF Location!placeVars
<1>2. CASE Location!UpdateLocation
  BY <1>2, PlaceAssumption DEF Location!UpdateLocation, Location!AtClick
<1>3. CASE Location!Confirmed
  BY <1>3 DEF Location!Confirmed
<1>4. CASE Location!NotConfirmed
  <2>1. updating' = Nothing /\ status' = "error"
    BY <1>4 DEF Location!NotConfirmed, Location!AfterError
  <2>2. lost' = TRUE \/ (lost' = lost /\ late' = late)
    BY <1>4 DEF Location!NotConfirmed
  <2> QED
    BY <2>1, <2>2
<1>5. ASSUME NEW place \in Place, Location!StoredLate(place) PROVE Placing'
  BY <1>5 DEF Location!StoredLate
<1>6. ASSUME NEW place \in Place, Location!Position(place) PROVE Placing'
  BY <1>6 DEF Location!Position
<1> QED
  BY <1>1, <1>2, <1>3, <1>4, <1>5, <1>6, LocationSteps

(* Every step on the location page keeps the invariant.                    *)
LEMMA LocationKept ==
  ASSUME LocationIInv, [OnLocationPage]_screensVars \/ UNCHANGED locationVars
  PROVE  LocationIInv'
<1>1. CASE UNCHANGED locationVars
  BY <1>1 DEF locationVars, LocationIInv, Searching, Placing, Location!TypeOK,
     Location!UnderWay
<1>2. CASE Location!Next
  BY <1>2, LocationTypes, SearchingKept, PlacingKept DEF LocationIInv
<1> QED
  BY <1>1, <1>2 DEF OnLocationPage, screensVars

(* The invariant holds when the location page is opened.                   *)
LEMMA LocationStarts == Location!Init => LocationIInv
<1> SUFFICES ASSUME Location!Init PROVE LocationIInv
  OBVIOUS
<1>1. Location!TypeOK
  BY PlaceAssumption DEF Location!Init, Location!TypeOK, Location!Text
<1>2. Searching
  BY DEF Location!Init, Searching
<1>3. Placing
  BY DEF Location!Init, Placing
<1> QED
  BY <1>1, <1>2, <1>3 DEF LocationIInv

(* What the location page promises.                                        *)
LEMMA LocationHolds ==
  ASSUME LocationIInv
  PROVE  Location!TypeOK /\ Location!ListIsForLastText /\ Location!ConfirmedIsStored
BY DEF LocationIInv, Searching, Placing, Location!ListIsForLastText,
   Location!ConfirmedIsStored

-----------------------------------------------------------------------------
(* The pages that list and decide.                                         *)

(* What call d carries are statuses its rows have had.                     *)
CallSeen(d, h) ==
  /\ \A i \in Item : /\ d.before[i] \in h[i] \cup {Office!Unlisted}
                     /\ d.answer[i] \in h[i] \cup {Office!Unlisted}
  /\ d.at = "done" /\ d.op # "load" => d.to \in h[d.item] \cup {Office!Unlisted}

(* What call d asks for on page s, and of which row as it was shown.       *)
AsksFor(d, s) ==
  /\ d.op = "approve" => d.to = "APPROVED"
  /\ d.op = "activate" => d.to = "ACTIVE"
  /\ d.op = "suspend" => d.to = "SUSPENDED"
  /\ d.op = "delete" => d.to = Office!Unlisted
  /\ s = "merchants" => d.op = "approve" /\ d.before[d.item] = "PENDING"
  /\ s = "drivers" => \/ d.op = "activate" /\ d.before[d.item] = "INACTIVE"
                      \/ d.op = "suspend" /\ d.before[d.item] = "ACTIVE"

(* The call of slot c is under way.                                        *)
Deciding(c) == call[c].at # "idle"

(* Rows, list and calls hold nothing the rows have not been.               *)
RowsSeen ==
  \A i \in Item : rows[i] \in had[i] /\ list[i] \in had[i] \cup {Office!Unlisted}

(* What every call carries and asks for.                                   *)
CallsGood ==
  \A c \in Call :
    /\ CallSeen(call[c], had)
    /\ Deciding(c) => AsksFor(call[c], screen)
    /\ call[c].at = "refused" /\ call[c].op = "load" => failed

(* Of calls that do not cross there is one, and it will write the list     *)
(* back that the page shows.                                               *)
OneDecision ==
  ~overtaken =>
    /\ list = known
    /\ \A c, e \in Call : Deciding(c) /\ Deciding(e) => c = e
    /\ \A c \in Call : Deciding(c) /\ call[c].op # "load" => call[c].before = list

(* The list shown is the one asked for last, or that one is on its way.    *)
Asked ==
  ~overtaken /\ ~failed =>
    /\ \A c \in Call : Deciding(c) /\ call[c].op = "load" => call[c].query = query
    /\ (\A c \in Call : Deciding(c) => call[c].op # "load") => loaded = query

(* The inductive invariant of a page that lists and decides.               *)
OfficeIInv ==
  Office!TypeOK /\ RowsSeen /\ CallsGood /\ OneDecision /\ Office!CountersCountTheList /\ Asked

(* The fields of a call.                                                   *)
LEMMA DecisionFields ==
  ASSUME NEW d \in Office!Decision
  PROVE  /\ d.at \in {"idle", "training", "sent", "done", "refused"} /\ d.op \in Office!Op
         /\ d.item \in Item /\ d.to \in Office!Status /\ d.before \in [Item -> Office!Status]
         /\ d.answer \in [Item -> Office!Status] /\ d.query \in Office!Choice
BY DEF Office!Decision

(* A slot that is idle holds a call that carries nothing.                  *)
LEMMA IdleDecision ==
  /\ Office!Idle \in Office!Decision /\ Office!Idle.at = "idle" /\ Office!Idle.op = "load"
  /\ Office!Idle.before = [i \in Item |-> Office!Unlisted]
  /\ Office!Idle.answer = [i \in Item |-> Office!Unlisted]
  /\ Office!FirstChoice \in Office!Choice
  /\ Office!Unlisted \in Office!Status
<1>1. Office!AnyItem \in Item
  BY ItemAssumption DEF Office!AnyItem
<1>2. Office!FirstChoice \in Office!Choice
  <2>1. 0 \in {0, 20}
    OBVIOUS
  <2> QED
    BY <2>1 DEF Office!FirstChoice, Office!Choice
<1>3. Office!Unlisted \in Office!Status
  BY DEF Office!Unlisted, Office!Status
<1>4. [i \in Item |-> Office!Unlisted] \in [Item -> Office!Status]
  BY <1>3
<1>5. Office!Idle \in Office!Decision
  BY <1>1, <1>2, <1>3, <1>4 DEF Office!Idle, Office!Decision, Office!Op
<1> QED
  BY <1>2, <1>3, <1>5 DEF Office!Idle

(* What the types of the page say of its lists and calls.                  *)
LEMMA OfficeTables ==
  ASSUME Office!TypeOK
  PROVE  /\ call \in [Call -> Office!Decision] /\ rows \in [Item -> Office!Status]
         /\ list \in [Item -> Office!Status] /\ known \in [Item -> Office!Status]
         /\ had \in [Item -> SUBSET Office!Status] /\ query \in Office!Choice
         /\ count \in [Office!Counted -> Int] /\ calls \in Nat /\ others \in Nat
         /\ overtaken \in BOOLEAN /\ failed \in BOOLEAN /\ busy \in BOOLEAN
BY DEF Office!TypeOK

(* A call that carries nothing carries nothing wrong.                      *)
LEMMA IdleSeen ==
  ASSUME NEW h
  PROVE  CallSeen(Office!Idle, h)
BY IdleDecision DEF CallSeen

(* What is seen stays seen.                                                *)
LEMMA SeenGrows ==
  ASSUME NEW d \in Office!Decision, NEW g, NEW h, CallSeen(d, g),
         \A i \in Item : g[i] \subseteq h[i]
  PROVE  CallSeen(d, h)
BY DecisionFields DEF CallSeen

(* A call begins.                                                          *)
LEMMA Begun ==
  ASSUME OfficeIInv, NEW c \in Call, NEW d \in Office!Decision,
         ~Deciding(c), d.at \in {"training", "sent"}, call' = [call EXCEPT ![c] = d],
         overtaken' = (overtaken \/ \E e \in Call : Deciding(e)),
         CallSeen(d, had), AsksFor(d, screen),
         d.op # "load" => d.before = list /\ query' = query,
         d.op = "load" => query' = d.query,
         query' \in Office!Choice, calls' \in Nat, busy' \in BOOLEAN,
         UNCHANGED <<screen, rows, trained, list, count, others, had, known, loaded, failed>>
  PROVE  OfficeIInv'
<1>1. /\ call' \in [Call -> Office!Decision] /\ call'[c] = d
      /\ \A e \in Call : e # c => call'[e] = call[e]
  BY OfficeTables DEF OfficeIInv
<1>2. overtaken' \in BOOLEAN
  BY OfficeTables DEF OfficeIInv
<1>3. Office!TypeOK'
  BY <1>1, <1>2 DEF OfficeIInv, Office!TypeOK
<1>4. RowsSeen'
  BY DEF OfficeIInv, RowsSeen
<1>5. CallsGood'
  <2> SUFFICES ASSUME NEW e \in Call
               PROVE  /\ CallSeen(call'[e], had) /\ (call'[e].at # "idle" => AsksFor(call'[e], screen))
                      /\ (call'[e].at = "refused" /\ call'[e].op = "load" => failed)
    BY DEF CallsGood, Deciding
  <2>1. CASE e = c
    BY <1>1, <2>1
  <2>2. CASE e # c
    BY <1>1, <2>2 DEF OfficeIInv, CallsGood, Deciding
  <2> QED
    BY <2>1, <2>2
<1>6. ASSUME ~overtaken'
      PROVE  /\ ~overtaken /\ list = known
             /\ \A e \in Call : e # c => ~Deciding(e) /\ call'[e].at = "idle"
  BY <1>1, <1>6 DEF OfficeIInv, OneDecision, Deciding
<1>7. OneDecision'
  <2>1. ASSUME ~overtaken'
        PROVE  /\ list' = known'
               /\ \A a, e \in Call : call'[a].at # "idle" /\ call'[e].at # "idle" => a = e
               /\ \A e \in Call : call'[e].at # "idle" /\ call'[e].op # "load" =>
                    call'[e].before = list'
    BY <1>1, <1>6, <2>1
  <2> QED
    BY <2>1 DEF OneDecision, Deciding
<1>8. Office!CountersCountTheList'
  BY <1>6 DEF OfficeIInv, Office!CountersCountTheList, Office!Rows
<1>9. Asked'
  <2>1. ASSUME ~overtaken', ~failed
        PROVE  /\ \A e \in Call : call'[e].at # "idle" /\ call'[e].op = "load" =>
                    call'[e].query = query'
               /\ (\A e \in Call : call'[e].at # "idle" => call'[e].op # "load") =>
                    loaded = query'
    <3>1. d.op # "load" => loaded = query'
      BY <1>6, <2>1 DEF OfficeIInv, Asked, Deciding
    <3> QED
      BY <1>1, <1>6, <2>1, <3>1
  <2> QED
    BY <2>1 DEF Asked, Deciding
<1> QED
  BY <1>3, <1>4, <1>5, <1>7, <1>8, <1>9 DEF OfficeIInv

(* A call goes on.                                                         *)
LEMMA Worked ==
  ASSUME OfficeIInv, NEW c \in Call, NEW d \in Office!Decision, Deciding(c),
         call' = [call EXCEPT ![c] = d], d.at \in {"sent", "done", "refused"},
         d.op = call[c].op, d.item = call[c].item, d.before = call[c].before,
         d.query = call[c].query,
         d.op \in {"approve", "activate", "suspend", "delete"} => d.to = call[c].to,
         rows' \in [Item -> Office!Status], trained' \in SUBSET Item,
         had' \in [Item -> SUBSET Office!Status],
         \A i \in Item : rows'[i] \in had'[i] /\ had[i] \subseteq had'[i],
         CallSeen(d, had'), failed' \in BOOLEAN, failed => failed',
         d.at = "refused" /\ d.op = "load" => failed',
         UNCHANGED <<screen, list, count, query, busy, calls, others, known, loaded, overtaken>>
  PROVE  OfficeIInv'
<1>1. /\ call' \in [Call -> Office!Decision] /\ call'[c] = d
      /\ \A e \in Call : e # c => call'[e] = call[e]
  BY OfficeTables DEF OfficeIInv
<1>2. Office!TypeOK'
  BY <1>1 DEF OfficeIInv, Office!TypeOK
<1>3. RowsSeen'
  BY DEF OfficeIInv, RowsSeen
<1>4. CallsGood'
  <2> SUFFICES ASSUME NEW e \in Call
               PROVE  /\ CallSeen(call'[e], had') /\ (call'[e].at # "idle" => AsksFor(call'[e], screen))
                      /\ (call'[e].at = "refused" /\ call'[e].op = "load" => failed')
    BY DEF CallsGood, Deciding
  <2>1. CASE e = c
    <3>1. AsksFor(call[c], screen)
      BY DEF OfficeIInv, CallsGood
    <3>2. AsksFor(d, screen)
      BY <3>1 DEF AsksFor
    <3> QED
      BY <1>1, <2>1, <3>2
  <2>2. CASE e # c
    <3>1. /\ CallSeen(call[e], had) /\ (call[e].at # "idle" => AsksFor(call[e], screen))
          /\ (call[e].at = "refused" /\ call[e].op = "load" => failed)
      BY DEF OfficeIInv, CallsGood, Deciding
    <3>2. CallSeen(call[e], had')
      BY <3>1, SeenGrows, OfficeTables DEF OfficeIInv
    <3> QED
      BY <1>1, <2>2, <3>1, <3>2
  <2> QED
    BY <2>1, <2>2
<1>5. \A e \in Call : /\ (call'[e].at # "idle") <=> Deciding(e)
                      /\ call'[e].op = call[e].op /\ call'[e].before = call[e].before
                      /\ call'[e].query = call[e].query
  BY <1>1 DEF Deciding
<1>6. OneDecision'
  BY <1>5 DEF OfficeIInv, OneDecision, Deciding
<1>7. Office!CountersCountTheList'
  BY DEF OfficeIInv, Office!CountersCountTheList, Office!Rows
<1>8. Asked'
  BY <1>5 DEF OfficeIInv, Asked, Deciding
<1> QED
  BY <1>2, <1>3, <1>4, <1>6, <1>7, <1>8 DEF OfficeIInv

(* A button asks for what the row's status allows.                         *)
LEMMA ButtonsAsk ==
  ASSUME NEW s \in Office!Status, screen \in Office!Screen, NEW b \in Office!Buttons(s)
  PROVE  /\ b[1] \in Office!Op /\ b[1] # "load" /\ b[2] \in Office!Status
         /\ b[1] = "approve" => b[2] = "APPROVED"
         /\ b[1] = "activate" => b[2] = "ACTIVE"
         /\ b[1] = "suspend" => b[2] = "SUSPENDED"
         /\ b[1] = "delete" => b[2] = Office!Unlisted
         /\ screen = "merchants" => b[1] = "approve" /\ s = "PENDING"
         /\ screen = "drivers" => \/ b[1] = "activate" /\ s = "INACTIVE"
                                  \/ b[1] = "suspend" /\ s = "ACTIVE"
<1> USE DEF Office!Op, Office!Status
<1>1. CASE screen = "merchants"
  <2>1. b = <<"approve", "APPROVED">> /\ s = "PENDING"
    BY <1>1 DEF Office!Buttons, Office!MerchantButtons
  <2> QED
    BY <1>1, <2>1
<1>2. CASE screen = "drivers"
  <2>1. \/ b = <<"activate", "ACTIVE">> /\ s = "INACTIVE"
        \/ b = <<"suspend", "SUSPENDED">> /\ s = "ACTIVE"
    BY <1>2 DEF Office!Buttons, Office!DriverButtons
  <2> QED
    BY <1>2, <2>1
<1>3. CASE screen = "users"
  <2>1. b \in {"status"} \X {"ACTIVE", "INACTIVE", "SUSPENDED"}
    BY <1>3 DEF Office!Buttons, Office!UserButtons
  <2>2. b[1] = "status" /\ b[2] \in {"ACTIVE", "INACTIVE", "SUSPENDED"}
    BY <2>1
  <2> QED
    BY <1>3, <2>2
<1>4. CASE screen = "orders"
  <2>1. b = <<"advance", Office!NextStage(s)>>
    BY <1>4 DEF Office!Buttons, Office!OrderButtons
  <2>2. Office!NextStage(s) \in Office!Status
    BY DEF Office!NextStage
  <2> QED
    BY <1>4, <2>1, <2>2
<1>5. CASE screen = "menu"
  <2>1. \/ b = <<"add", "ON">> \/ b = <<"update", s>> \/ b = <<"toggle", s>>
        \/ b = <<"delete", Office!Unlisted>>
    BY <1>5 DEF Office!Buttons, Office!FormButtons, Office!ItemButtons
  <2>2. Office!Unlisted \in Office!Status
    BY IdleDecision
  <2> QED
    BY <1>5, <2>1, <2>2
<1> QED
  BY <1>1, <1>2, <1>3, <1>4, <1>5 DEF Office!Screen

(* A button of a row keeps the invariant.                                  *)
LEMMA ClickKept ==
  ASSUME OfficeIInv, NEW c \in Call, NEW i \in Item, Office!Click(c, i)
  PROVE  OfficeIInv'
<1>1. PICK b \in Office!Buttons(list[i]) :
        /\ Office!Begin(c, [Office!Idle EXCEPT
             !.at = IF b[1] = "activate" THEN "training" ELSE "sent",
             !.op = b[1], !.item = i, !.to = b[2], !.before = list])
        /\ busy' = (busy \/ b[1] \in {"add", "update"})
        /\ UNCHANGED <<screen, Office!serviceVars, list, count, query, others, known, loaded,
                       failed>>
  BY DEF Office!Click
<1>2. list[i] \in Office!Status /\ screen \in Office!Screen /\ list \in [Item -> Office!Status]
  BY DEF OfficeIInv, Office!TypeOK
<1>3. /\ b[1] \in Office!Op /\ b[1] # "load" /\ b[2] \in Office!Status
      /\ b[1] = "approve" => b[2] = "APPROVED"
      /\ b[1] = "activate" => b[2] = "ACTIVE"
      /\ b[1] = "suspend" => b[2] = "SUSPENDED"
      /\ b[1] = "delete" => b[2] = Office!Unlisted
      /\ screen = "merchants" => b[1] = "approve" /\ list[i] = "PENDING"
      /\ screen = "drivers" => \/ b[1] = "activate" /\ list[i] = "INACTIVE"
                               \/ b[1] = "suspend" /\ list[i] = "ACTIVE"
  BY <1>2, ButtonsAsk
<1>4. PICK op \in Office!Op : op = b[1]
  BY <1>3
<1>5. PICK to \in Office!Status : to = b[2]
  BY <1>3
<1>6. PICK at \in {"training", "sent"} : at = IF b[1] = "activate" THEN "training" ELSE "sent"
  OBVIOUS
<1>7. PICK d \in Office!Decision :
        d = [Office!Idle EXCEPT !.at = at, !.op = op, !.item = i, !.to = to, !.before = list]
  <2>1. [Office!Idle EXCEPT !.at = at, !.op = op, !.item = i, !.to = to, !.before = list] \in
          Office!Decision
    BY <1>2, IdleDecision DEF Office!Decision
  <2> QED
    BY <2>1
<1>8. /\ d.at = at /\ d.op = op /\ d.item = i /\ d.to = to /\ d.before = list
      /\ d.answer = [k \in Item |-> Office!Unlisted]
  BY <1>7, IdleDecision DEF Office!Decision
<1>9. /\ call' = [call EXCEPT ![c] = d] /\ ~Deciding(c) /\ calls' = calls + 1
      /\ overtaken' = (overtaken \/ \E e \in Call : Deciding(e))
  BY <1>1, <1>4, <1>5, <1>6, <1>7 DEF Office!Begin, Deciding
<1>10. CallSeen(d, had)
  <2>1. \A k \in Item : list[k] \in had[k] \cup {Office!Unlisted}
    BY DEF OfficeIInv, RowsSeen
  <2> QED
    BY <1>8, <2>1 DEF CallSeen
<1>11. AsksFor(d, screen)
  BY <1>3, <1>4, <1>5, <1>8 DEF AsksFor
<1>12. /\ query' \in Office!Choice /\ calls' \in Nat /\ busy' \in BOOLEAN /\ query' = query
       /\ UNCHANGED <<screen, rows, trained, list, count, others, had, known, loaded, failed>>
  <2>1. query \in Office!Choice /\ calls \in Nat /\ busy \in BOOLEAN
    BY OfficeTables DEF OfficeIInv
  <2> QED
    BY <1>1, <1>9, <2>1 DEF Office!serviceVars
<1>13. d.op # "load"
  BY <1>3, <1>4, <1>8
<1> QED
  BY <1>8, <1>9, <1>10, <1>11, <1>12, <1>13, Begun

(* A load of the users.                                                    *)
LEMMA LoadingGood ==
  ASSUME NEW q \in Office!Choice, screen = "users"
  PROVE  /\ Office!Loading(q) \in Office!Decision /\ Office!Loading(q).at = "sent"
         /\ Office!Loading(q).op = "load" /\ Office!Loading(q).query = q
         /\ AsksFor(Office!Loading(q), screen)
         /\ \A h : CallSeen(Office!Loading(q), h)
<1>1. PICK d : d = [Office!Idle EXCEPT !.at = "sent", !.query = q]
  OBVIOUS
<1>2. d \in Office!Decision
  BY <1>1, IdleDecision DEF Office!Decision
<1>3. /\ d.at = "sent" /\ d.op = "load" /\ d.query = q
      /\ d.before = [i \in Item |-> Office!Unlisted]
      /\ d.answer = [i \in Item |-> Office!Unlisted]
  BY <1>1, IdleDecision DEF Office!Decision
<1>4. AsksFor(d, screen)
  BY <1>3 DEF AsksFor
<1>5. \A h : CallSeen(d, h)
  BY <1>3 DEF CallSeen
<1>6. Office!Loading(q) = d
  BY <1>1 DEF Office!Loading
<1> QED
  BY <1>2, <1>3, <1>4, <1>5, <1>6

(* A filter of the users page, and its arrows, keep the invariant.         *)
LEMMA FilterKept ==
  ASSUME OfficeIInv, NEW c \in Call, NEW q \in Office!Choice, Office!Filter(c, q)
  PROVE  OfficeIInv'
<1>1. PICK d \in Office!Decision : d = Office!Loading(q)
  BY LoadingGood DEF Office!Filter
<1>2. /\ d.at = "sent" /\ d.op = "load" /\ d.query = q /\ AsksFor(d, screen) /\ CallSeen(d, had)
  BY <1>1, LoadingGood DEF Office!Filter
<1>3. /\ call' = [call EXCEPT ![c] = d] /\ ~Deciding(c) /\ calls' = calls + 1
      /\ overtaken' = (overtaken \/ \E e \in Call : Deciding(e))
      /\ query' = q /\ busy' = TRUE
      /\ UNCHANGED <<screen, rows, trained, list, count, others, had, known, loaded, failed>>
  BY <1>1 DEF Office!Filter, Office!Begin, Office!Reloaded, Office!serviceVars, Deciding
<1>4. calls' \in Nat
  BY <1>3, OfficeTables DEF OfficeIInv
<1> QED
  BY <1>2, <1>3, <1>4, Begun

(* The button that searches the users keeps the invariant, also when it    *)
(* starts two loads.                                                       *)
LEMMA SearchKept ==
  ASSUME OfficeIInv, NEW c \in Call, NEW e \in Call, Office!Search(c, e)
  PROVE  OfficeIInv'
<1>1. PICK first \in Office!Choice : first = [query EXCEPT !.skip = 0]
  <2>1. query \in Office!Choice /\ 0 \in {0, 20}
    BY OfficeTables DEF OfficeIInv
  <2> QED
    BY <2>1 DEF Office!Choice
<1>2. query \in Office!Choice /\ screen = "users"
  BY OfficeTables DEF OfficeIInv, Office!Search
<1>3. PICK d \in Office!Decision : d = Office!Loading(query)
  BY <1>2, LoadingGood
<1>4. PICK f \in Office!Decision : f = Office!Loading(first)
  BY <1>2, LoadingGood
<1>5. /\ f.at = "sent" /\ f.op = "load" /\ f.query = first /\ AsksFor(f, screen) /\ CallSeen(f, had)
      /\ d.at = "sent" /\ d.op = "load" /\ d.query = query /\ AsksFor(d, screen) /\ CallSeen(d, had)
  BY <1>2, <1>3, <1>4, LoadingGood
<1>6. /\ call' = [call EXCEPT ![c] = d, ![e] = f] /\ ~Deciding(c) /\ calls' = calls + 1
      /\ overtaken' = (overtaken \/ e # c \/ \E k \in Call : Deciding(k))
      /\ query' = first /\ busy' = TRUE
      /\ UNCHANGED <<screen, rows, trained, list, count, others, had, known, loaded, failed>>
  BY <1>1, <1>3, <1>4 DEF Office!Search, Office!serviceVars, Deciding
<1>7. calls' \in Nat
  BY <1>6, OfficeTables DEF OfficeIInv
<1>8. CASE e = c
  <2>1. call' = [call EXCEPT ![c] = f] /\ overtaken' = (overtaken \/ \E k \in Call : Deciding(k))
    BY <1>6, <1>8, OfficeTables DEF OfficeIInv
  <2> QED
    BY <1>5, <1>6, <1>7, <2>1, Begun
<1>9. CASE e # c
  <2>1. /\ call' \in [Call -> Office!Decision] /\ call'[c] = d /\ call'[e] = f
        /\ \A k \in Call : k # c /\ k # e => call'[k] = call[k]
    BY <1>6, <1>9, OfficeTables DEF OfficeIInv
  <2>2. overtaken' = TRUE
    BY <1>6, <1>9
  <2>3. Office!TypeOK'
    BY <1>6, <1>7, <2>1, <2>2 DEF OfficeIInv, Office!TypeOK
  <2>4. RowsSeen'
    BY <1>6 DEF OfficeIInv, RowsSeen
  <2>5. CallsGood'
    <3> SUFFICES ASSUME NEW k \in Call
                 PROVE  /\ CallSeen(call'[k], had)
                        /\ (call'[k].at # "idle" => AsksFor(call'[k], screen))
                        /\ (call'[k].at = "refused" /\ call'[k].op = "load" => failed)
      BY <1>6 DEF CallsGood, Deciding
    <3>1. CASE k \in {c, e}
      BY <1>5, <2>1, <3>1
    <3>2. CASE k \notin {c, e}
      BY <2>1, <3>2 DEF OfficeIInv, CallsGood, Deciding
    <3> QED
      BY <3>1, <3>2
  <2>6. OneDecision' /\ Asked' /\ Office!CountersCountTheList'
    BY <2>2 DEF OneDecision, Asked, Office!CountersCountTheList
  <2> QED
    BY <2>3, <2>4, <2>5, <2>6 DEF OfficeIInv
<1> QED
  BY <1>8, <1>9

(* What a service makes of a row is a status.                              *)
LEMMA BecomesStatus ==
  ASSUME Office!TypeOK, NEW d \in Office!Decision, d.op # "load"
  PROVE  /\ Office!Becomes(d) \in Office!Status /\ Office!Told(d) \in Office!Status
         /\ Office!Told(d) \in {Office!Becomes(d), Office!Unlisted}
         /\ d.op \in {"approve", "activate", "suspend"} => Office!Told(d) = d.to
         /\ d.op = "delete" => Office!Told(d) = Office!Unlisted
<1>1. rows[d.item] \in Office!Status /\ d.to \in Office!Status
  BY OfficeTables, DecisionFields
<1>2. Office!Flip(rows[d.item]) \in Office!Status
  BY DEF Office!Flip, Office!Status
<1>3. Office!Becomes(d) \in Office!Status
  <2>1. CASE d.op = "toggle"
    BY <1>2, <2>1 DEF Office!Becomes
  <2>2. CASE d.op \in {"update", "delete"}
    BY <1>1, <2>2 DEF Office!Becomes
  <2>3. CASE d.op \notin {"toggle", "update", "delete"}
    BY <1>1, <2>3 DEF Office!Becomes
  <2> QED
    BY <2>1, <2>2, <2>3
<1>4. d.op \in {"approve", "activate", "suspend"} => Office!Told(d) = d.to
  BY DEF Office!Told, Office!Becomes
<1> QED
  BY <1>3, <1>4, IdleDecision DEF Office!Told

(* The training of a courier is completed before the activation.           *)
LEMMA TrainingKept ==
  ASSUME OfficeIInv, NEW c \in Call, Office!CompleteTraining(c)
  PROVE  OfficeIInv'
<1>1. PICK old \in Office!Decision : old = call[c]
  BY OfficeTables DEF OfficeIInv
<1>2. PICK d \in Office!Decision : d = [old EXCEPT !.at = "sent"]
  BY DEF Office!Decision
<1>3. /\ d.at = "sent" /\ d.op = old.op /\ d.item = old.item /\ d.before = old.before
      /\ d.query = old.query /\ d.to = old.to /\ d.answer = old.answer
  BY <1>2 DEF Office!Decision
<1>4. /\ call' = [call EXCEPT ![c] = d] /\ Deciding(c)
      /\ UNCHANGED <<screen, rows, list, count, query, busy, calls, others, had, known, loaded,
                     overtaken, failed>>
  BY <1>1, <1>2 DEF Office!CompleteTraining, Deciding
<1>5. CallSeen(d, had)
  <2>1. CallSeen(old, had)
    BY <1>1 DEF OfficeIInv, CallsGood
  <2> QED
    BY <1>3, <2>1 DEF CallSeen
<1>6. trained' \in SUBSET Item
  BY <1>1, DecisionFields DEF OfficeIInv, Office!TypeOK, Office!CompleteTraining
<1>7. /\ rows \in [Item -> Office!Status] /\ had \in [Item -> SUBSET Office!Status]
      /\ failed \in BOOLEAN /\ \A i \in Item : rows[i] \in had[i]
  BY OfficeTables DEF OfficeIInv, RowsSeen
<1> QED
  BY <1>1, <1>3, <1>4, <1>5, <1>6, <1>7, Worked

(* A call fails, or its answer is lost.                                    *)
LEMMA FailedKept ==
  ASSUME OfficeIInv, NEW c \in Call, Office!Fail(c)
  PROVE  OfficeIInv'
<1>1. PICK old \in Office!Decision : old = call[c]
  BY OfficeTables DEF OfficeIInv
<1>2. PICK d \in Office!Decision : d = [old EXCEPT !.at = "refused"]
  BY DEF Office!Decision
<1>3. /\ d.at = "refused" /\ d.op = old.op /\ d.item = old.item /\ d.before = old.before
      /\ d.query = old.query /\ d.to = old.to /\ d.answer = old.answer
  BY <1>2 DEF Office!Decision
<1>4. /\ call' = [call EXCEPT ![c] = d] /\ Deciding(c) /\ failed' = TRUE
      /\ UNCHANGED <<screen, rows, trained, list, count, query, busy, calls, others, had, known,
                     loaded, overtaken>>
  BY <1>1, <1>2 DEF Office!Fail, Office!serviceVars, Deciding
<1>5. CallSeen(d, had)
  <2>1. CallSeen(old, had)
    BY <1>1 DEF OfficeIInv, CallsGood
  <2> QED
    BY <1>3, <2>1 DEF CallSeen
<1>6. /\ rows \in [Item -> Office!Status] /\ had \in [Item -> SUBSET Office!Status]
      /\ trained \in SUBSET Item /\ \A i \in Item : rows[i] \in had[i]
  BY DEF OfficeIInv, Office!TypeOK, RowsSeen
<1> QED
  BY <1>1, <1>3, <1>4, <1>5, <1>6, Worked

(* A load is answered.                                                     *)
LEMMA LoadServed ==
  ASSUME OfficeIInv, NEW c \in Call, Office!Serve(c), call[c].op = "load"
  PROVE  OfficeIInv'
<1>1. PICK old \in Office!Decision : old = call[c]
  BY OfficeTables DEF OfficeIInv
<1>2. /\ rows \in [Item -> Office!Status] /\ had \in [Item -> SUBSET Office!Status]
      /\ trained \in SUBSET Item /\ \A i \in Item : rows[i] \in had[i]
      /\ failed \in BOOLEAN
  BY DEF OfficeIInv, Office!TypeOK, RowsSeen
<1>3. PICK l \in [Item -> Office!Status] : l = Office!Listed(old.query, rows)
  <2>1. Office!Listed(old.query, rows) \in [Item -> Office!Status]
    BY <1>2, IdleDecision DEF Office!Listed
  <2> QED
    BY <2>1
<1>4. \A i \in Item : l[i] \in had[i] \cup {Office!Unlisted}
  BY <1>2, <1>3 DEF Office!Listed
<1>5. PICK d \in Office!Decision : d = [old EXCEPT !.at = "done", !.answer = l]
  BY DEF Office!Decision
<1>6. /\ d.at = "done" /\ d.op = old.op /\ d.item = old.item /\ d.before = old.before
      /\ d.query = old.query /\ d.to = old.to /\ d.answer = l
  BY <1>5 DEF Office!Decision
<1>7. /\ call' = [call EXCEPT ![c] = d] /\ Deciding(c)
      /\ UNCHANGED <<screen, rows, trained, list, count, query, busy, calls, others, had, known,
                     loaded, overtaken, failed>>
  BY <1>1, <1>3, <1>5 DEF Office!Serve, Deciding
<1>8. CallSeen(d, had)
  <2>1. CallSeen(old, had)
    BY <1>1 DEF OfficeIInv, CallsGood
  <2> QED
    BY <1>1, <1>4, <1>6, <2>1 DEF CallSeen
<1> QED
  BY <1>1, <1>2, <1>6, <1>7, <1>8, Worked

(* A decision is taken, or refused.                                        *)
LEMMA DecisionServed ==
  ASSUME OfficeIInv, NEW c \in Call, Office!Serve(c), call[c].op # "load"
  PROVE  OfficeIInv'
<1>1. PICK old \in Office!Decision : old = call[c]
  BY OfficeTables DEF OfficeIInv
<1>2. /\ rows \in [Item -> Office!Status] /\ had \in [Item -> SUBSET Office!Status]
      /\ trained \in SUBSET Item /\ \A i \in Item : rows[i] \in had[i]
      /\ failed \in BOOLEAN /\ Office!TypeOK
  BY DEF OfficeIInv, Office!TypeOK, RowsSeen
<1>3. CallSeen(old, had) /\ old.item \in Item
  BY <1>1, DecisionFields DEF OfficeIInv, CallsGood
<1>4. Deciding(c)
  BY DEF Office!Serve, Deciding
<1>5. UNCHANGED <<screen, trained, list, count, query, busy, calls, others, known, loaded,
                  overtaken, failed>>
  BY DEF Office!Serve
<1>6. CASE Office!Accepts(old)
  <2>1. PICK s \in Office!Status : s = Office!Becomes(old)
    BY <1>1, <1>2, BecomesStatus
  <2>2. PICK t \in Office!Status : t = Office!Told(old)
    BY <1>1, <1>2, BecomesStatus
  <2>3. /\ t \in {s, Office!Unlisted}
        /\ old.op \in {"approve", "activate", "suspend"} => t = old.to
        /\ old.op = "delete" => t = Office!Unlisted
    BY <1>1, <1>2, <2>1, <2>2, BecomesStatus
  <2>4. old.op = "delete" => old.to = Office!Unlisted
    BY <1>1, <1>4 DEF OfficeIInv, CallsGood, AsksFor
  <2>5. PICK d \in Office!Decision : d = [old EXCEPT !.at = "done", !.to = t]
    BY DEF Office!Decision
  <2>6. /\ d.at = "done" /\ d.op = old.op /\ d.item = old.item /\ d.before = old.before
        /\ d.query = old.query /\ d.to = t /\ d.answer = old.answer
    BY <2>5 DEF Office!Decision
  <2>7. /\ call' = [call EXCEPT ![c] = d]
        /\ rows' = [rows EXCEPT ![old.item] = s]
        /\ had' = [had EXCEPT ![old.item] = @ \cup {s}]
    BY <1>1, <1>6, <2>1, <2>2, <2>5 DEF Office!Serve
  <2>8. /\ rows' \in [Item -> Office!Status] /\ had' \in [Item -> SUBSET Office!Status]
        /\ s \in had'[old.item]
        /\ \A i \in Item : rows'[i] \in had'[i] /\ had[i] \subseteq had'[i]
    BY <1>2, <1>3, <2>7
  <2>9. CallSeen(d, had')
    <3>1. CallSeen(old, had')
      BY <1>3, <2>8, SeenGrows
    <3> QED
      BY <2>3, <2>6, <2>8, <3>1 DEF CallSeen
  <2>10. d.op \in {"approve", "activate", "suspend", "delete"} => d.to = call[c].to
    BY <1>1, <2>3, <2>4, <2>6
  <2> QED
    BY <1>1, <1>2, <1>4, <1>5, <2>6, <2>7, <2>8, <2>9, <2>10, Worked
<1>7. CASE ~Office!Accepts(old)
  <2>1. PICK d \in Office!Decision : d = [old EXCEPT !.at = "refused"]
    BY DEF Office!Decision
  <2>2. /\ d.at = "refused" /\ d.op = old.op /\ d.item = old.item /\ d.before = old.before
        /\ d.query = old.query /\ d.to = old.to /\ d.answer = old.answer
    BY <2>1 DEF Office!Decision
  <2>3. call' = [call EXCEPT ![c] = d] /\ rows' = rows /\ had' = had
    BY <1>1, <1>7, <2>1 DEF Office!Serve
  <2>4. CallSeen(d, had)
    BY <1>3, <2>2 DEF CallSeen
  <2> QED
    BY <1>1, <1>2, <1>4, <1>5, <2>2, <2>3, <2>4, Worked
<1> QED
  BY <1>6, <1>7

(* Others decide.                                                          *)
LEMMA OthersKept ==
  ASSUME OfficeIInv, NEW i \in Item, Office!Others(i)
  PROVE  OfficeIInv'
<1>1. PICK s \in Office!Moves(rows[i]) :
        rows' = [rows EXCEPT ![i] = s] /\ had' = [had EXCEPT ![i] = @ \cup {s}]
  BY DEF Office!Others
<1>2. /\ rows \in [Item -> Office!Status] /\ had \in [Item -> SUBSET Office!Status]
      /\ screen \in Office!Screen /\ call \in [Call -> Office!Decision]
  BY DEF OfficeIInv, Office!TypeOK
<1>3. s \in Office!Status
  <2>1. Office!NextStage(rows[i]) \in Office!Status /\ Office!Flip(rows[i]) \in Office!Status
    BY DEF Office!NextStage, Office!Flip, Office!Status
  <2>2. CASE screen \in {"merchants", "drivers", "users"}
    <3>1. s \in {"APPROVED", "REJECTED", "INACTIVE", "SUSPENDED", "ACTIVE"}
      BY <1>1, <2>2 DEF Office!Moves
    <3> QED
      BY <3>1 DEF Office!Status
  <2>3. CASE screen = "orders"
    BY <1>1, <2>1, <2>3 DEF Office!Moves
  <2>4. CASE screen = "menu"
    BY <1>1, <2>1, <2>4 DEF Office!Moves
  <2> QED
    BY <1>2, <2>2, <2>3, <2>4 DEF Office!Screen
<1>4. /\ others' \in Nat
      /\ UNCHANGED <<screen, trained, list, count, query, busy, call, calls, known, loaded,
                     overtaken, failed>>
  BY OfficeTables DEF OfficeIInv, Office!Others
<1>5. /\ rows' \in [Item -> Office!Status] /\ had' \in [Item -> SUBSET Office!Status]
      /\ \A k \in Item : /\ had[k] \subseteq had'[k]
                         /\ rows'[k] \in had[k] \cup {rows[k]} \/ rows'[k] \in had'[k]
  BY <1>1, <1>2, <1>3
<1>6. Office!TypeOK'
  BY <1>4, <1>5 DEF OfficeIInv, Office!TypeOK
<1>7. RowsSeen'
  BY <1>4, <1>5 DEF OfficeIInv, RowsSeen
<1>8. CallsGood'
  <2>1. \A c \in Call : CallSeen(call[c], had')
    BY <1>2, <1>5, SeenGrows DEF OfficeIInv, CallsGood
  <2> QED
    BY <1>4, <2>1 DEF OfficeIInv, CallsGood, Deciding
<1>9. OneDecision' /\ Asked' /\ Office!CountersCountTheList'
  BY <1>4 DEF OfficeIInv, OneDecision, Asked, Deciding, Office!CountersCountTheList,
     Office!Rows
<1> QED
  BY <1>6, <1>7, <1>8, <1>9 DEF OfficeIInv

(* The instance of the page has its own name for the cardinality.          *)
LEMMA RowsCounted ==
  ASSUME NEW l, NEW s
  PROVE  Office!Rows(l, s) = Cardinality({k \in Item : l[k] = s})
<1>1. \A S : Office!Cardinality(S) = Cardinality(S)
  BY DEF Office!Cardinality, Cardinality
<1> QED
  BY <1>1 DEF Office!Rows

(* The list m is l with row i at status to.                                *)
RowSet(l, m, i, to) == m = [l EXCEPT ![i] = to]

(* One row that changes its status changes two counts by one.              *)
LEMMA RowMoved ==
  ASSUME NEW l \in [Item -> Office!Status], NEW i \in Item, NEW to, to # l[i],
         NEW m, RowSet(l, m, i, to)
  PROVE  /\ \A s : Office!Rows(l, s) \in Nat
         /\ Office!Rows(m, l[i]) = Office!Rows(l, l[i]) - 1
         /\ Office!Rows(m, to) = Office!Rows(l, to) + 1
         /\ \A s : s # l[i] /\ s # to => Office!Rows(m, s) = Office!Rows(l, s)
<1> USE DEF RowSet
<1>1. \A s : IsFiniteSet({k \in Item : l[k] = s})
  <2> SUFFICES ASSUME NEW s PROVE IsFiniteSet({k \in Item : l[k] = s})
    OBVIOUS
  <2>1. {k \in Item : l[k] = s} \subseteq Item
    OBVIOUS
  <2> QED
    BY <2>1, ItemAssumption, FS_Subset
<1>2. \A s : Office!Rows(l, s) \in Nat
  BY <1>1, FS_CardinalityType, RowsCounted
<1>3. Office!Rows(m, l[i]) = Office!Rows(l, l[i]) - 1
  <2>1. PICK S : S = {k \in Item : l[k] = l[i]}
    OBVIOUS
  <2>2. {k \in Item : m[k] = l[i]} = S \ {i} /\ i \in S /\ IsFiniteSet(S)
    BY <1>1, <2>1
  <2>3. Cardinality(S \ {i}) = Cardinality(S) - 1
    BY <2>2, FS_RemoveElement
  <2> QED
    BY <2>1, <2>2, <2>3, RowsCounted
<1>4. Office!Rows(m, to) = Office!Rows(l, to) + 1
  <2>1. PICK S : S = {k \in Item : l[k] = to}
    OBVIOUS
  <2>2. {k \in Item : m[k] = to} = S \cup {i} /\ i \notin S /\ IsFiniteSet(S)
    BY <1>1, <2>1
  <2>3. Cardinality(S \cup {i}) = Cardinality(S) + 1
    BY <2>2, FS_AddElement
  <2> QED
    BY <2>1, <2>2, <2>3, RowsCounted
<1>5. ASSUME NEW s, s # l[i], s # to
      PROVE  Office!Rows(m, s) = Office!Rows(l, s)
  <2>1. {k \in Item : m[k] = s} = {k \in Item : l[k] = s}
    BY <1>5
  <2> QED
    BY <2>1, RowsCounted
<1> QED
  BY <1>2, <1>3, <1>4, <1>5

(* The counters moved count the list with its row moved.                   *)
LEMMA CountersMoved ==
  ASSUME Office!TypeOK, NEW i \in Item, NEW from \in Office!Counted,
         NEW to \in Office!Counted,
         list[i] = from, to # from,
         \A s \in Office!Counted : count[s] = Office!Rows(list, s),
         NEW m, RowSet(list, m, i, to), NEW n, n = Office!Moved(from, to)
  PROVE  \A s \in Office!Counted : n[s] = Office!Rows(m, s)
<1>1. /\ \A s : Office!Rows(list, s) \in Nat
      /\ Office!Rows(m, from) = Office!Rows(list, from) - 1
      /\ Office!Rows(m, to) = Office!Rows(list, to) + 1
      /\ \A s : s # from /\ s # to => Office!Rows(m, s) = Office!Rows(list, s)
  <2>1. list \in [Item -> Office!Status] /\ to # list[i]
    BY OfficeTables
  <2>2. /\ \A s : Office!Rows(list, s) \in Nat
        /\ Office!Rows(m, list[i]) = Office!Rows(list, list[i]) - 1
        /\ Office!Rows(m, to) = Office!Rows(list, to) + 1
        /\ \A s : s # list[i] /\ s # to => Office!Rows(m, s) = Office!Rows(list, s)
    BY <2>1, RowMoved
  <2> QED
    BY <2>2
<1>2. /\ n[from] = count[from] - 1 /\ n[to] = count[to] + 1
      /\ \A s \in Office!Counted : s # from /\ s # to => n[s] = count[s]
  BY OfficeTables DEF Office!Moved
<1> QED
  BY <1>1, <1>2

(* What an answer makes of the list and the counters.                      *)
LEMMA AfterDecision ==
  ASSUME Office!TypeOK, NEW d \in Office!Decision, d.op # "load", NEW s, AsksFor(d, s)
  PROVE  /\ Office!After(d).list = [d.before EXCEPT ![d.item] = d.to]
         /\ Office!After(d).count \in [Office!Counted -> Int]
         /\ d.op = "approve" => Office!After(d).count = Office!Moved("PENDING", "APPROVED")
         /\ d.op = "activate" => Office!After(d).count = Office!Moved("INACTIVE", "ACTIVE")
         /\ d.op = "suspend" => Office!After(d).count = Office!Moved("ACTIVE", "SUSPENDED")
<1>1. count \in [Office!Counted -> Int]
  BY OfficeTables
<1>2. \A from, to \in Office!Counted : Office!Moved(from, to) \in [Office!Counted -> Int]
  BY <1>1 DEF Office!Moved
<1>3. {"PENDING", "APPROVED", "INACTIVE", "ACTIVE", "SUSPENDED"} \subseteq Office!Counted
  BY DEF Office!Counted
<1>4. /\ Office!Moved("PENDING", "APPROVED") \in [Office!Counted -> Int]
      /\ Office!Moved("INACTIVE", "ACTIVE") \in [Office!Counted -> Int]
      /\ Office!Moved("ACTIVE", "SUSPENDED") \in [Office!Counted -> Int]
  BY <1>2, <1>3
<1> HIDE DEF Office!Moved
<1>5. CASE d.op = "approve"
  BY <1>4, <1>5 DEF AsksFor, Office!After, Office!Approved, Office!Rewritten
<1>6. CASE d.op = "activate"
  BY <1>4, <1>6 DEF AsksFor, Office!After, Office!Activated, Office!Rewritten
<1>7. CASE d.op = "suspend"
  BY <1>4, <1>7 DEF AsksFor, Office!After, Office!Suspended, Office!Rewritten
<1>8. CASE d.op = "delete"
  BY <1>1, <1>8 DEF AsksFor, Office!After, Office!Deleted, Office!Rewritten
<1>9. CASE d.op \in {"status", "advance", "add", "update", "toggle"}
  BY <1>1, <1>9 DEF Office!After, Office!StatusChanged, Office!Advanced, Office!Added,
                    Office!Updated, Office!Toggled, Office!Rewritten
<1> QED
  BY <1>5, <1>6, <1>7, <1>8, <1>9, DecisionFields DEF Office!Op

(* An answer keeps the invariant: the list it writes back is the list shown*)
(* unless another call crossed it.                                         *)
LEMMA AnsweredKept ==
  ASSUME OfficeIInv, NEW c \in Call, Office!Answer(c)
  PROVE  OfficeIInv'
<1>1. PICK d \in Office!Decision : d = call[c]
  BY OfficeTables DEF OfficeIInv
<1>2. /\ d.at \in {"done", "refused"} /\ Deciding(c) /\ d.item \in Item
      /\ d.before \in [Item -> Office!Status] /\ d.answer \in [Item -> Office!Status]
      /\ d.to \in Office!Status /\ d.query \in Office!Choice
  BY <1>1, DecisionFields DEF Office!Answer, Deciding
<1>3. /\ call' = [call EXCEPT ![c] = Office!Idle]
      /\ busy' = (busy /\ ~Office!EndsBusy(d))
      /\ UNCHANGED <<screen, rows, trained, had, query, calls, others, overtaken, failed>>
      /\ d.at = "done" => /\ list' = Office!After(d).list /\ count' = Office!After(d).count
                          /\ known' = IF d.op = "load" THEN d.answer
                                      ELSE [known EXCEPT ![d.item] = d.to]
                          /\ loaded' = IF d.op = "load" THEN d.query ELSE loaded
      /\ d.at # "done" => UNCHANGED <<list, count, known, loaded>>
  BY <1>1 DEF Office!Answer, Office!Heard, Office!serviceVars
<1>4. /\ call' \in [Call -> Office!Decision] /\ call'[c] = Office!Idle
      /\ \A e \in Call : e # c => call'[e] = call[e]
      /\ Office!Idle.at = "idle"
  BY <1>3, IdleDecision, OfficeTables DEF OfficeIInv
<1>5. /\ CallSeen(d, had) /\ AsksFor(d, screen)
      /\ d.at = "refused" /\ d.op = "load" => failed
  BY <1>1, <1>2 DEF OfficeIInv, CallsGood
<1>6. /\ Office!TypeOK /\ busy \in BOOLEAN /\ loaded \in Office!Choice
      /\ list \in [Item -> Office!Status] /\ known \in [Item -> Office!Status]
      /\ count \in [Office!Counted -> Int]
  BY DEF OfficeIInv, Office!TypeOK
<1>7. d.op # "load" /\ d.at = "done" =>
        /\ list' = [d.before EXCEPT ![d.item] = d.to]
        /\ count' \in [Office!Counted -> Int]
        /\ d.op = "approve" => count' = Office!Moved("PENDING", "APPROVED")
        /\ d.op = "activate" => count' = Office!Moved("INACTIVE", "ACTIVE")
        /\ d.op = "suspend" => count' = Office!Moved("ACTIVE", "SUSPENDED")
  BY <1>3, <1>5, <1>6, AfterDecision
<1>8. d.op = "load" /\ d.at = "done" => list' = d.answer /\ count' = count
  BY <1>3 DEF Office!After, Office!Loaded
<1>9. /\ list' \in [Item -> Office!Status] /\ known' \in [Item -> Office!Status]
      /\ count' \in [Office!Counted -> Int] /\ loaded' \in Office!Choice
  <2>1. CASE d.at # "done"
    BY <1>3, <1>6, <2>1
  <2>2. CASE d.at = "done" /\ d.op = "load"
    BY <1>2, <1>3, <1>6, <1>8, <2>2
  <2>3. CASE d.at = "done" /\ d.op # "load"
    BY <1>2, <1>3, <1>6, <1>7, <2>3
  <2> QED
    BY <2>1, <2>2, <2>3
<1>10. Office!TypeOK'
  <2>1. busy' \in BOOLEAN
    BY <1>3, <1>6
  <2> QED
    BY <1>3, <1>4, <1>9, <2>1 DEF OfficeIInv, Office!TypeOK
<1>11. RowsSeen'
  <2>1. \A i \in Item : list'[i] \in had[i] \cup {Office!Unlisted}
    <3>1. \A i \in Item : list[i] \in had[i] \cup {Office!Unlisted}
      BY DEF OfficeIInv, RowsSeen
    <3>2. CASE d.at # "done"
      BY <1>3, <3>1, <3>2
    <3>3. CASE d.at = "done" /\ d.op = "load"
      BY <1>5, <1>8, <3>3 DEF CallSeen
    <3>4. CASE d.at = "done" /\ d.op # "load"
      BY <1>2, <1>5, <1>7, <3>4 DEF CallSeen
    <3> QED
      BY <3>2, <3>3, <3>4
  <2> QED
    BY <1>3, <2>1 DEF OfficeIInv, RowsSeen
<1>12. CallsGood'
  <2> SUFFICES ASSUME NEW e \in Call
               PROVE  /\ CallSeen(call'[e], had)
                      /\ (call'[e].at # "idle" => AsksFor(call'[e], screen))
                      /\ (call'[e].at = "refused" /\ call'[e].op = "load" => failed)
    BY <1>3 DEF CallsGood, Deciding
  <2>1. CASE e = c
    BY <1>4, <2>1, IdleSeen
  <2>2. CASE e # c
    BY <1>4, <2>2 DEF OfficeIInv, CallsGood, Deciding
  <2> QED
    BY <2>1, <2>2
<1>13. ASSUME ~overtaken
       PROVE  /\ \A e \in Call : call'[e].at = "idle"
              /\ list = known /\ (d.op # "load" => d.before = list)
  BY <1>1, <1>2, <1>4, <1>13 DEF OfficeIInv, OneDecision, Deciding
<1>14. OneDecision'
  <2>1. ASSUME ~overtaken
        PROVE  list' = known'
    <3>1. CASE d.at # "done"
      BY <1>3, <1>13, <2>1, <3>1
    <3>2. CASE d.at = "done" /\ d.op = "load"
      BY <1>3, <1>8, <3>2
    <3>3. CASE d.at = "done" /\ d.op # "load"
      BY <1>3, <1>7, <1>13, <2>1, <3>3
    <3> QED
      BY <3>1, <3>2, <3>3
  <2> QED
    BY <1>3, <1>13, <2>1 DEF OneDecision, Deciding
<1>15. Office!CountersCountTheList'
  <2> SUFFICES ASSUME screen \in {"merchants", "drivers"}, ~overtaken
               PROVE  \A s \in Office!Counted : count'[s] = Office!Rows(list', s)
    BY <1>3 DEF Office!CountersCountTheList, Office!Rows
  <2>1. \A s \in Office!Counted : count[s] = Office!Rows(list, s)
    BY DEF OfficeIInv, Office!CountersCountTheList
  <2>2. CASE d.at # "done"
    BY <1>3, <2>1, <2>2
  <2>3. CASE d.at = "done"
    <3>1. /\ d.op # "load" /\ d.before = list
          /\ \/ d.op = "approve" /\ d.to = "APPROVED" /\ list[d.item] = "PENDING"
             \/ d.op = "activate" /\ d.to = "ACTIVE" /\ list[d.item] = "INACTIVE"
             \/ d.op = "suspend" /\ d.to = "SUSPENDED" /\ list[d.item] = "ACTIVE"
      BY <1>5, <1>13 DEF AsksFor
    <3>2. PICK m : m = list'
      OBVIOUS
    <3>3. PICK n : n = count'
      OBVIOUS
    <3>4. m = [list EXCEPT ![d.item] = d.to]
      BY <1>7, <2>3, <3>1, <3>2
    <3>5. {"PENDING", "APPROVED", "INACTIVE", "ACTIVE", "SUSPENDED"} \subseteq Office!Counted
      BY DEF Office!Counted
    <3>6. PICK from \in Office!Counted : /\ list[d.item] = from /\ d.to \in Office!Counted
                                         /\ d.to # from /\ n = Office!Moved(from, d.to)
      BY <1>7, <2>3, <3>1, <3>3, <3>5
    <3>7. PICK to \in Office!Counted : to = d.to
      BY <3>6
    <3>8. /\ to # from /\ list[d.item] = from /\ RowSet(list, m, d.item, to)
          /\ n = Office!Moved(from, to)
      BY <3>4, <3>6, <3>7 DEF RowSet
    <3>9. \A s \in Office!Counted : n[s] = Office!Rows(m, s)
      BY <1>2, <1>6, <2>1, <3>8, CountersMoved
    <3> QED
      BY <3>2, <3>3, <3>9
  <2> QED
    BY <2>2, <2>3
<1>16. Asked'
  <2>1. ASSUME ~overtaken, ~failed
        PROVE  loaded' = query
    <3>1. CASE d.op = "load"
      <4>1. d.at = "done"
        BY <1>2, <1>5, <2>1, <3>1
      <4> QED
        BY <1>1, <1>2, <1>3, <2>1, <3>1, <4>1 DEF OfficeIInv, Asked
    <3>2. CASE d.op # "load"
      <4>1. \A e \in Call : Deciding(e) => call[e].op # "load"
        BY <1>1, <1>2, <2>1, <3>2 DEF OfficeIInv, OneDecision
      <4>2. loaded = query
        BY <2>1, <4>1 DEF OfficeIInv, Asked
      <4> QED
        BY <1>3, <3>2, <4>2
    <3> QED
      BY <3>1, <3>2
  <2> QED
    BY <1>3, <1>13, <2>1 DEF Asked, Deciding
<1> QED
  BY <1>10, <1>11, <1>12, <1>14, <1>15, <1>16 DEF OfficeIInv

(* Every step on a page that lists and decides keeps the invariant.        *)
LEMMA OfficeKept ==
  ASSUME OfficeIInv, Office!Next \/ UNCHANGED officeVars
  PROVE  OfficeIInv'
<1>1. CASE UNCHANGED officeVars
  BY <1>1 DEF officeVars, OfficeIInv, Office!TypeOK, RowsSeen, CallsGood, Deciding,
     OneDecision,
              Asked, Office!CountersCountTheList, Office!Rows
<1>2. ASSUME NEW c \in Call, Office!Work(c) \/ Office!Fail(c)
      PROVE  OfficeIInv'
  BY <1>2, TrainingKept, LoadServed, DecisionServed, AnsweredKept,
     FailedKept DEF Office!Work
<1>3. ASSUME NEW c \in Call,
             \/ \E i \in Item : Office!Click(c, i)
             \/ \E q \in Office!Choice : Office!Filter(c, q)
             \/ \E e \in Call : Office!Search(c, e)
      PROVE  OfficeIInv'
  BY <1>3, ClickKept, FilterKept, SearchKept
<1>4. ASSUME NEW i \in Item, Office!Others(i)
      PROVE  OfficeIInv'
  BY <1>4, OthersKept
<1> QED
  BY <1>1, <1>2, <1>3, <1>4 DEF Office!Next

(* The invariant holds when the page has loaded its rows.                  *)
LEMMA OfficeStarts == Office!Init => OfficeIInv
<1> SUFFICES ASSUME Office!Init PROVE OfficeIInv
  OBVIOUS
<1>1. /\ rows \in [Item -> Office!Status] /\ screen \in Office!Screen
  <2>1. Office!First(screen) \subseteq Office!Status
    BY DEF Office!Init, Office!First, Office!Screen, Office!Status
  <2> QED
    BY <2>1 DEF Office!Init
<1>2. /\ \A c \in Call : call[c] = Office!Idle
      /\ call \in [Call -> Office!Decision] /\ Office!Idle.at = "idle"
  BY IdleDecision DEF Office!Init
<1>3. /\ had \in [Item -> SUBSET Office!Status] /\ list = rows /\ known = rows
      /\ \A i \in Item : rows[i] \in had[i]
  BY <1>1 DEF Office!Init
<1>4. count \in [Office!Counted -> Int] /\ \A s \in Office!Counted : count[s] = Office!Rows(list, s)
  <2>1. \A s : Office!Rows(rows, s) \in Int
    <3> SUFFICES ASSUME NEW s PROVE Cardinality({i \in Item : rows[i] = s}) \in Int
      BY RowsCounted
    <3>1. {i \in Item : rows[i] = s} \subseteq Item
      OBVIOUS
    <3>2. IsFiniteSet({i \in Item : rows[i] = s})
      BY <3>1, ItemAssumption, FS_Subset
    <3> QED
      BY <3>2, FS_CardinalityType
  <2> HIDE DEF Office!Rows
  <2> QED
    BY <1>3, <2>1 DEF Office!Init
<1>5. trained \in SUBSET Item
  BY DEF Office!Init
<1>6. Office!TypeOK
  BY <1>1, <1>2, <1>3, <1>4, <1>5, IdleDecision DEF Office!Init, Office!TypeOK
<1>7. RowsSeen /\ Office!CountersCountTheList
  BY <1>3, <1>4 DEF RowsSeen, Office!CountersCountTheList
<1>8. CallsGood
  BY <1>2, IdleSeen DEF CallsGood, Deciding
<1>9. OneDecision /\ Asked
  BY <1>2, <1>3 DEF Office!Init, OneDecision, Asked, Deciding
<1> QED
  BY <1>6, <1>7, <1>8, <1>9 DEF OfficeIInv

(* What the pages that list and decide promise.                            *)
LEMMA OfficeHolds ==
  ASSUME OfficeIInv
  PROVE  /\ Office!TypeOK /\ Office!NothingInvented /\ Office!ListIsForQuery
         /\ Office!LastWordStands /\ Office!CountersCountTheList
<1>1. Office!NothingInvented
  BY DEF OfficeIInv, RowsSeen, Office!NothingInvented
<1>2. Office!ListIsForQuery
  BY DEF OfficeIInv, Asked, Deciding, Office!ListIsForQuery
<1>3. Office!LastWordStands
  BY DEF OfficeIInv, OneDecision, Office!LastWordStands
<1> QED
  BY <1>1, <1>2, <1>3 DEF OfficeIInv

-----------------------------------------------------------------------------
(* The pages together.                                                     *)

(* The inductive invariant: that of the page that is open, while the       *)
(* others stay as they began.                                              *)
ScreensIInv == WalletIInv /\ LocationIInv /\ OfficeIInv

(* A step is one of the page that is open and leaves the others alone.     *)
LEMMA ScreensStep ==
  ASSUME ScreensIInv, [ScreensNext]_screensVars
  PROVE  ScreensIInv'
<1>1. /\ Wallet!Next \/ UNCHANGED walletVars
      /\ [OnLocationPage]_screensVars \/ UNCHANGED locationVars
      /\ Office!Next \/ UNCHANGED officeVars
  BY DEF ScreensNext, OnWalletPage, OnLocationPage, OnOfficePage, screensVars
<1> QED
  BY <1>1, WalletKept, LocationKept, OfficeKept DEF ScreensIInv

(* The invariant holds in every reachable state.                           *)
LEMMA ScreensInductive == ScreensSpec => []ScreensIInv
<1>1. ScreensInit => ScreensIInv
  BY WalletStarts, LocationStarts, OfficeStarts DEF ScreensInit, ScreensIInv
<1>2. ScreensIInv /\ [ScreensNext]_screensVars => ScreensIInv'
  BY ScreensStep
<1> QED
  BY <1>1, <1>2, PTL DEF ScreensSpec

(* The pages keep to their types, a form lets one payment through at a     *)
(* time, a list is for the text or the filter chosen last and shows what   *)
(* its rows have been, and a place confirmed is the place stored: for any  *)
(* number of calls, rows and payments.                                     *)
THEOREM ScreensHold == ScreensSpec => []ScreensInv
<1>1. ScreensIInv => ScreensInv
  BY WalletHolds, LocationHolds, OfficeHolds DEF ScreensIInv, ScreensInv
<1> QED
  BY <1>1, ScreensInductive, PTL

(* What the pages tell their users is what happened, within the limits the *)
(* properties name.                                                        *)
THEOREM PagesTellTheTruth == ScreensSpec => []WhatPagesTell
<1>1. ScreensIInv => WhatPagesTell
  BY WalletHolds, OfficeHolds DEF ScreensIInv, WhatPagesTell
<1> QED
  BY <1>1, ScreensInductive, PTL

=============================================================================
