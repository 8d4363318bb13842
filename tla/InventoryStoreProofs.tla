------------------------ MODULE InventoryStoreProofs ------------------------
(***************************************************************************)
(* StockKept, ReservedMatches and PromiseKept of InventoryStore, for any   *)
(* number of inventories, orders, handlers and cron runs.  A process       *)
(* changes an inventory only while it holds it, and an inventory held by   *)
(* two is disturbed; so what a process has of an undisturbed one is as good*)
(* as the row (AllSound), agrees with the list at every step (AllKept), and*)
(* lacks nothing of it but what is due or given up (AllPledged).           *)
(***************************************************************************)
EXTENDS InventoryStore, SequenceTheorems, SumTheorems, TLAPS

-----------------------------------------------------------------------------
(* Lists.                                                                  *)

(* SetToSeq lists the members of a finite set.                             *)
LEMMA ListOfSet ==
  ASSUME NEW S, IsFiniteSet(S)
  PROVE  SetToSeq(S) \in [1 .. Cardinality(S) -> S] /\ Cardinality(S) \in Nat
<1>1. \E f \in Bijection(1 .. Cardinality(S), S) : TRUE
  BY FS_CardinalityType DEF ExistsBijection
<1>2. \E f \in [1 .. Cardinality(S) -> S] : IsInjective(f)
  BY <1>1 DEF Bijection, Injection, IsInjective
<1> QED
  BY <1>2, FS_CardinalityType DEF SetToSeq

(* A function on 1 .. n is a list.                                         *)
LEMMA ListOfFunction ==
  ASSUME NEW S, NEW n \in Nat, NEW f \in [1 .. n -> S]
  PROVE  f \in Seq(S)
BY SeqDef

(* Part of a list is a list.                                               *)
LEMMA AtTyped ==
  ASSUME NEW S, NEW s \in Seq(S), NEW places \in SUBSET (DOMAIN s)
  PROVE  At(s, places) \in Seq(S)
<1>1. IsFiniteSet(places)
  <2>1. Len(s) \in Nat /\ DOMAIN s = 1 .. Len(s)
    BY LenProperties
  <2>2. IsFiniteSet(1 .. Len(s))
    BY <2>1, FS_Interval
  <2> QED
    BY <2>1, <2>2, FS_Subset
<1>2. PICK n \in Nat : n = Cardinality(places)
  BY <1>1, ListOfSet
<1>3. PICK f \in [1 .. n -> places] : f = SetToSeq(places)
  BY <1>1, <1>2, ListOfSet
<1>4. \A k \in places : s[k] \in S
  BY LenProperties, ElementOfSeq
<1>5. [k \in 1 .. n |-> s[f[k]]] \in [1 .. n -> S]
  BY <1>3, <1>4
<1>6. At(s, places) = [k \in 1 .. n |-> s[f[k]]]
  BY <1>3 DEF At
<1> QED
  BY <1>5, <1>6, ListOfFunction

(* What release, the cron query and its groups make of a list.             *)
LEMMA ListsTyped ==
  ASSUME NEW s \in Seq(Reservation)
  PROVE  /\ \A o : WithoutOrder(s, o) \in Seq(Reservation)
         /\ Expired(s) \in Seq(Reservation)
         /\ Orders(s) \in Seq(Order)
<1>1. ASSUME NEW o PROVE WithoutOrder(s, o) \in Seq(Reservation)
  <2>1. {k \in DOMAIN s : s[k].order # o} \in SUBSET (DOMAIN s)
    OBVIOUS
  <2> QED
    BY <2>1, AtTyped DEF WithoutOrder
<1>2. Expired(s) \in Seq(Reservation)
  <2>1. {k \in DOMAIN s : s[k].expiresAt <= now} \in SUBSET (DOMAIN s)
    OBVIOUS
  <2> QED
    BY <2>1, AtTyped DEF Expired
<1>3. Orders(s) \in Seq(Order)
  <2>1. Len(s) \in Nat /\ DOMAIN s = 1 .. Len(s) /\ \A k \in 1 .. Len(s) : s[k] \in Reservation
    BY LenProperties, ElementOfSeq
  <2>2. Orders(s) \in [1 .. Len(s) -> Order]
    BY <2>1 DEF Orders, Reservation
  <2> QED
    BY <2>1, <2>2, ListOfFunction
<1> QED
  BY <1>1, <1>2, <1>3

-----------------------------------------------------------------------------
(* The methods of the aggregate.                                           *)

(* What a row has beyond its total.                                        *)
Surplus(w) == w.available + w.reserved - w.total

(* A method keeps the available part from going below zero and adds        *)
(* nothing to the surplus, unless it is an update of the total that cuts   *)
(* off more than is available.                                             *)
Sensible(old, new) ==
  /\ new \in Row
  /\ old.available >= 0 => new.available >= 0
  /\ Surplus(new) = Surplus(old)

(* The parts of an inventory in memory.                                    *)
LEMMA FieldsTyped ==
  ASSUME NEW inv \in Inventory
  PROVE  /\ inv.row \in Row /\ inv.resv \in Seq(Reservation)
         /\ inv.row.total \in Int /\ inv.row.available \in Int /\ inv.row.reserved \in Int
BY DEF Inventory, Row

(* The columns of a row, as an explicit record.                            *)
LEMMA Columns ==
  ASSUME NEW w \in Row
  PROVE  \E t, a, r \in Int : \E e \in BOOLEAN :
           w = [total |-> t, available |-> a, reserved |-> r, exists |-> e]
BY DEF Row

(* A row and a list make an inventory.                                     *)
LEMMA Assembled ==
  ASSUME NEW w \in Row, NEW s \in Seq(Reservation)
  PROVE  [row |-> w, resv |-> s] \in Inventory
BY DEF Inventory

(* An inventory whose reservations are not loaded yet.                     *)
LEMMA Bare ==
  ASSUME NEW w \in Row
  PROVE  \E m \in Inventory : m = [row |-> w, resv |-> <<>>]
<1>1. <<>> \in Seq(Reservation)
  OBVIOUS
<1> QED
  BY <1>1, Assembled

(* reserve moves units from available to reserved.                         *)
LEMMA ReserveSensible ==
  ASSUME NEW inv \in Inventory, NEW c \in Command, c.op = "reserve", now \in Nat,
         NEW new \in Reserve(inv, c)
  PROVE  new \in Inventory /\ Sensible(inv.row, new.row)
<1>1. c.order \in Order /\ c.quantity \in Nat /\ c.timeout \in Nat
  BY BoundAssumption DEF Command
<1>2. new = Grant(inv, c) /\ c.quantity <= inv.row.available
  BY DEF Reserve
<1>3. PICK w \in Row, s \in Seq(Reservation) : w = inv.row /\ s = inv.resv
  BY FieldsTyped
<1>4. PICK v \in Reservation :
        v = [order |-> c.order, quantity |-> c.quantity, expiresAt |-> now + c.timeout]
  <2>1. PICK due \in Nat : due = now + c.timeout
    BY <1>1
  <2>2. [order |-> c.order, quantity |-> c.quantity, expiresAt |-> due] \in Reservation
    BY <1>1 DEF Reservation
  <2> QED
    BY <2>1, <2>2
<1>5. new = [row |-> [w EXCEPT !.reserved = @ + c.quantity, !.available = @ - c.quantity],
             resv |-> Append(s, v)]
  BY <1>2, <1>3, <1>4 DEF Grant
<1>6. Append(s, v) \in Seq(Reservation)
  BY AppendProperties
<1>7. PICK q \in Nat : q = c.quantity /\ q <= w.available
  BY <1>1, <1>2, <1>3
<1>8. PICK x : x = [w EXCEPT !.reserved = @ + q, !.available = @ - q]
  OBVIOUS
<1>9. x \in Row /\ Sensible(w, x)
  <2>1. PICK t, a, r \in Int, e \in BOOLEAN :
          w = [total |-> t, available |-> a, reserved |-> r, exists |-> e]
    BY Columns
  <2>2. x = [total |-> t, available |-> a - q, reserved |-> r + q, exists |-> e]
    BY <1>8, <2>1
  <2> QED
    BY <1>7, <2>1, <2>2 DEF Sensible, Surplus, Row
<1>10. new = [row |-> x, resv |-> Append(s, v)]
  BY <1>5, <1>7, <1>8
<1> QED
  BY <1>3, <1>6, <1>9, <1>10, Assembled

(* release moves them back, consume takes them out of the total.           *)
LEMMA ReleaseSensible ==
  ASSUME NEW inv \in Inventory, NEW o
  PROVE  /\ \A new \in Release(inv, o) : new \in Inventory /\ Sensible(inv.row, new.row)
         /\ \A new \in Consume(inv, o) : new \in Inventory /\ Sensible(inv.row, new.row)
<1>1. PICK w \in Row, s \in Seq(Reservation) : w = inv.row /\ s = inv.resv
  BY FieldsTyped
<1>2. PICK rest \in Seq(Reservation) : rest = WithoutOrder(s, o)
  BY ListsTyped
<1>3. ASSUME NEW k \in Found(inv, o) PROVE inv.resv[k].quantity \in Nat
  <2>1. k \in 1 .. Len(s)
    BY <1>1, LenProperties DEF Found
  <2>2. s[k] \in Reservation
    BY <2>1, ElementOfSeq
  <2> QED
    BY <1>1, <2>2 DEF Reservation
<1>4. ASSUME NEW new \in Release(inv, o)
  PROVE new \in Inventory /\ Sensible(inv.row, new.row)
  <2>1. PICK k \in Found(inv, o) :
          new = [row |-> [inv.row EXCEPT !.reserved = @ - inv.resv[k].quantity,
                                         !.available = @ + inv.resv[k].quantity],
                 resv |-> WithoutOrder(inv.resv, o)]
    BY DEF Release
  <2>2. PICK q \in Nat : q = inv.resv[k].quantity
    BY <1>3
  <2>3. PICK x : x = [w EXCEPT !.reserved = @ - q, !.available = @ + q]
    OBVIOUS
  <2>4. x \in Row /\ Sensible(w, x)
    <3>1. PICK t, a, r \in Int, e \in BOOLEAN :
            w = [total |-> t, available |-> a, reserved |-> r, exists |-> e]
      BY Columns
    <3>2. x = [total |-> t, available |-> a + q, reserved |-> r - q, exists |-> e]
      BY <2>3, <3>1
    <3> QED
      BY <3>1, <3>2 DEF Sensible, Surplus, Row
  <2>5. new = [row |-> x, resv |-> rest]
    BY <1>1, <1>2, <2>1, <2>2, <2>3
  <2> QED
    BY <1>1, <2>4, <2>5, Assembled
<1>5. ASSUME NEW new \in Consume(inv, o)
  PROVE new \in Inventory /\ Sensible(inv.row, new.row)
  <2>1. PICK k \in Found(inv, o) :
          new = [row |-> [inv.row EXCEPT !.reserved = @ - inv.resv[k].quantity,
                                         !.total = @ - inv.resv[k].quantity],
                 resv |-> WithoutOrder(inv.resv, o)]
    BY DEF Consume
  <2>2. PICK q \in Nat : q = inv.resv[k].quantity
    BY <1>3
  <2>3. PICK x : x = [w EXCEPT !.reserved = @ - q, !.total = @ - q]
    OBVIOUS
  <2>4. x \in Row /\ Sensible(w, x)
    <3>1. PICK t, a, r \in Int, e \in BOOLEAN :
            w = [total |-> t, available |-> a, reserved |-> r, exists |-> e]
      BY Columns
    <3>2. x = [total |-> t - q, available |-> a, reserved |-> r - q, exists |-> e]
      BY <2>3, <3>1
    <3> QED
      BY <3>1, <3>2 DEF Sensible, Surplus, Row
  <2>5. new = [row |-> x, resv |-> rest]
    BY <1>1, <1>2, <2>1, <2>2, <2>3
  <2> QED
    BY <1>1, <2>4, <2>5, Assembled
<1> QED
  BY <1>4, <1>5

(* An update that cuts off more than is available leaves a surplus.        *)
LEMMA UpdateSensible ==
  ASSUME NEW inv \in Inventory, NEW n \in Nat, NEW new \in UpdateTotal(inv, n)
  PROVE  /\ new \in Inventory
         /\ new.row.available >= 0
         /\ Surplus(new.row) >= Surplus(inv.row)
         /\ Shifted(inv, n) >= 0 => Surplus(new.row) = Surplus(inv.row)
<1>1. PICK w \in Row, s \in Seq(Reservation) : w = inv.row /\ s = inv.resv
  BY FieldsTyped
<1>2. PICK m \in Int : m = Shifted(inv, n) /\ m = w.available + (n - w.total)
  BY <1>1 DEF Shifted, Row
<1>3. PICK a \in Nat : a = (IF m < 0 THEN 0 ELSE m)
  OBVIOUS
<1>4. new = [inv EXCEPT !.row.total = n, !.row.available = a]
  BY <1>2, <1>3 DEF UpdateTotal
<1>5. new = [row |-> [w EXCEPT !.total = n, !.available = a], resv |-> s]
  BY <1>1, <1>4 DEF Inventory, Row
<1>6. PICK x : x = [w EXCEPT !.total = n, !.available = a]
  OBVIOUS
<1>7. /\ x \in Row
      /\ x.available >= 0
      /\ Surplus(x) >= Surplus(w)
      /\ m >= 0 => Surplus(x) = Surplus(w)
  <2>1. PICK t, b, r \in Int, e \in BOOLEAN :
          w = [total |-> t, available |-> b, reserved |-> r, exists |-> e]
    BY Columns
  <2>2. x = [total |-> n, available |-> a, reserved |-> r, exists |-> e]
    BY <1>6, <2>1
  <2>3. m = b + (n - t)
    BY <1>2, <2>1
  <2> QED
    BY <1>3, <2>1, <2>2, <2>3 DEF Surplus, Row
<1> QED
  BY <1>1, <1>2, <1>5, <1>6, <1>7, Assembled

(* What any method of the aggregate leaves behind.                         *)
LEMMA OutcomeSensible ==
  ASSUME NEW inv \in Inventory, NEW c \in Command, now \in Nat,
         NEW new \in Outcomes(c, inv)
  PROVE  /\ new \in Inventory
         /\ inv.row.available >= 0 => new.row.available >= 0
         /\ Surplus(new.row) >= Surplus(inv.row)
         /\ \/ c.op = "updateTotal" /\ Shifted(inv, c.quantity) < 0
            \/ Surplus(new.row) = Surplus(inv.row)
<1>1. Surplus(inv.row) \in Int
  BY FieldsTyped DEF Surplus
<1>2. CASE c.op = "reserve"
  BY <1>1, <1>2, ReserveSensible DEF Outcomes, Sensible
<1>3. CASE c.op = "release"
  BY <1>1, <1>3, ReleaseSensible DEF Outcomes, Sensible
<1>4. CASE c.op = "consume"
  BY <1>1, <1>4, ReleaseSensible DEF Outcomes, Sensible
<1>5. CASE c.op = "updateTotal"
  <2>1. PICK n \in Nat : n = c.quantity
    BY <1>5, BoundAssumption DEF Command
  <2>2. new \in UpdateTotal(inv, n)
    BY <1>5, <2>1 DEF Outcomes
  <2>3. Shifted(inv, n) \in Int
    BY <2>1, FieldsTyped DEF Shifted
  <2> QED
    BY <1>5, <2>1, <2>2, <2>3, UpdateSensible
<1> QED
  BY <1>2, <1>3, <1>4, <1>5 DEF Command

-----------------------------------------------------------------------------
(* The inductive invariant: types, what each step of a process relies on,  *)
(* and that an inventory nobody disturbed has at most one holder, whose    *)
(* copies balance like its row.                                            *)

(* Nothing below zero, and nothing beyond the total unless it was cut.     *)
Balanced(w, cut) ==
  /\ w.available >= 0
  /\ Surplus(w) >= 0
  /\ cut \/ Surplus(w) = 0

(* The inventories a cron run loaded.                                      *)
Has(loaded, i) == \E k \in DOMAIN loaded : loaded[k].item = i

Sane(loaded, i, cut) ==
  \A k \in DOMAIN loaded : loaded[k].item = i => Balanced(loaded[k].mem.row, cut)

(* What a process about to take step s relies on.                          *)
Ready(s, i, c, todo) ==
  /\ s \in {"findReservations", "cronReservations", "release"} \cup Saving => i \in Item
  /\ s = "findReservations" => c \in Command
  /\ s \in {"cronRow", "cronReservations"} => todo # <<>>
  /\ s = "cronReservations" => i = Head(todo).item

Steps == \A p \in Process : Ready(pc[p], item[p], command[p], agenda[p].todo)

Agents ==
  /\ pc \in [Process -> Step]
  /\ item \in [Process -> Item \cup {NoItem}]
  /\ command \in [Process -> Command \cup {NoCommand}]
  /\ mem \in [Process -> Inventory]
  /\ base \in [Process -> Row]
  /\ agenda \in [Process -> Agenda]
  /\ Steps

Tables ==
  /\ row \in [Item -> Row]
  /\ resv \in [Item -> Seq(Reservation)]
  /\ now \in Nat
  /\ events \in Nat
  /\ disturbed \in SUBSET Item /\ repeated \in SUBSET Item /\ clamped \in SUBSET Item

(* The copies of an inventory in the memory of a process; the row it       *)
(* selected for its update is still the row.                               *)
Carries(p, i) ==
  /\ item[p] = i => /\ Balanced(mem[p].row, i \in clamped)
                    /\ pc[p] = "update" => base[p] = row[i]
  /\ Sane(agenda[p].loaded, i, i \in clamped)

OneHolder(i) == \A p, q \in Process : Holds(p, i) /\ Holds(q, i) => p = q

Sound(i) ==
  /\ Balanced(row[i], i \in clamped)
  /\ OneHolder(i)
  /\ \A p \in Process : Carries(p, i)

AllSound == \A i \in Item \ disturbed : Sound(i)

IInv == Agents /\ Tables /\ AllSound

-----------------------------------------------------------------------------
(* One process moves.                                                      *)

Group == [item : Item, orders : Seq(Order)]
Loaded == [item : Item, mem : Inventory, orders : Seq(Order)]

(* The fields of an agenda.                                                *)
LEMMA AgendaParts ==
  /\ \A a \in Agenda : a.todo \in Seq(Group) /\ a.loaded \in Seq(Loaded) /\ a.orders \in Seq(Order)
  /\ \A t \in Seq(Group), l \in Seq(Loaded), o \in Seq(Order) :
       [todo |-> t, loaded |-> l, orders |-> o] \in Agenda
BY DEF Agenda, Group, Loaded

(* Head, Tail and Append, element by element.                              *)
LEMMA ListParts ==
  ASSUME NEW S, NEW s \in Seq(S)
  PROVE  /\ s # <<>> => Head(s) \in S /\ Tail(s) \in Seq(S)
         /\ s # <<>> => 1 \in DOMAIN s /\ Head(s) = s[1]
         /\ s # <<>> => \A k \in DOMAIN Tail(s) : k + 1 \in DOMAIN s /\ Tail(s)[k] = s[k + 1]
         /\ \A x \in S : /\ Append(s, x) \in Seq(S)
                          /\ \A k \in DOMAIN Append(s, x) :
                               \/ Append(s, x)[k] = x
                               \/ k \in DOMAIN s /\ Append(s, x)[k] = s[k]
OBVIOUS

(* The process p goes on at step s with these in memory.                   *)
Turn(p, s, i, c, m, b, a) ==
  /\ pc' = [pc EXCEPT ![p] = s]
  /\ item' = [item EXCEPT ![p] = i]
  /\ command' = [command EXCEPT ![p] = c]
  /\ mem' = [mem EXCEPT ![p] = m]
  /\ base' = [base EXCEPT ![p] = b]
  /\ agenda' = [agenda EXCEPT ![p] = a]

(* What is not assigned stays as it was.                                   *)
LEMMA Unmoved ==
  ASSUME Agents, NEW p \in Process
  PROVE  /\ [pc EXCEPT ![p] = pc[p]] = pc
         /\ [item EXCEPT ![p] = item[p]] = item
         /\ [command EXCEPT ![p] = command[p]] = command
         /\ [mem EXCEPT ![p] = mem[p]] = mem
         /\ [base EXCEPT ![p] = base[p]] = base
         /\ [agenda EXCEPT ![p] = agenda[p]] = agenda
BY DEF Agents

(* A turn keeps the types, when what it puts in memory has its type.       *)
LEMMA TurnTyped ==
  ASSUME Agents, NEW p \in Process,
         NEW s \in Step, NEW i \in Item \cup {NoItem}, NEW c \in Command \cup {NoCommand},
         NEW m \in Inventory, NEW b \in Row, NEW a \in Agenda,
         Turn(p, s, i, c, m, b, a), Ready(s, i, c, a.todo)
  PROVE  Agents'
<1>1. /\ pc' \in [Process -> Step]
      /\ item' \in [Process -> Item \cup {NoItem}]
      /\ command' \in [Process -> Command \cup {NoCommand}]
      /\ mem' \in [Process -> Inventory]
      /\ base' \in [Process -> Row]
      /\ agenda' \in [Process -> Agenda]
  BY DEF Agents, Turn
<1>2. ASSUME NEW q \in Process
      PROVE  Ready(pc'[q], item'[q], command'[q], agenda'[q].todo)
  <2>1. CASE q = p
    BY <2>1 DEF Agents, Turn
  <2>2. CASE q # p
    BY <2>2 DEF Agents, Turn, Steps
  <2> QED
    BY <2>1, <2>2
<1>3. Steps'
  BY <1>2 DEF Steps
<1> QED
  BY <1>1, <1>3 DEF Agents

(* The inventory i stays sound when only p moves, what p now has of i      *)
(* balances, and p changes the row or takes hold of i only when no other   *)
(* process holds it.                                                       *)
LEMMA TurnSound ==
  ASSUME IInv, NEW p \in Process, NEW i \in Item, i \notin disturbed,
         NEW s, NEW it, NEW c, NEW m, NEW b, NEW a,
         Turn(p, s, it, c, m, b, a),
         i \in clamped => i \in clamped',
         row'[i] = row[i] \/ \A q \in Process : Holds(q, i) => q = p,
         Balanced(row'[i], i \in clamped'),
         it = i => Balanced(m.row, i \in clamped') /\ (s = "update" => b = row'[i]),
         Sane(a.loaded, i, i \in clamped'),
         it = i \/ Has(a.loaded, i) => Holds(p, i) \/ \A q \in Process : ~Holds(q, i)
  PROVE  Sound(i)'
<1>1. Sound(i)
  BY DEF IInv, AllSound
<1>2. \A q \in Process : Holds(q, i) <=> item[q] = i \/ Has(agenda[q].loaded, i)
  BY DEF Holds, Has
<1>3. \A q \in Process : Holds(q, i)' <=> item'[q] = i \/ Has(agenda'[q].loaded, i)
  BY DEF Holds, Has
<1>4. /\ pc'[p] = s /\ item'[p] = it /\ mem'[p] = m /\ base'[p] = b /\ agenda'[p] = a
      /\ \A q \in Process : q # p =>
           /\ pc'[q] = pc[q] /\ item'[q] = item[q] /\ mem'[q] = mem[q]
           /\ base'[q] = base[q] /\ agenda'[q] = agenda[q]
  BY DEF IInv, Agents, Turn
<1>5. OneHolder(i)'
  <2> SUFFICES ASSUME NEW q \in Process, NEW o \in Process, Holds(q, i)', Holds(o, i)'
               PROVE  q = o
    BY DEF OneHolder
  <2>1. \A x \in Process : x # p => (Holds(x, i)' <=> Holds(x, i))
    BY <1>2, <1>3, <1>4
  <2>2. Holds(p, i)' => Holds(p, i) \/ \A x \in Process : ~Holds(x, i)
    BY <1>3, <1>4
  <2>3. \A x, y \in Process : Holds(x, i) /\ Holds(y, i) => x = y
    BY <1>1 DEF Sound, OneHolder
  <2> QED
    BY <2>1, <2>2, <2>3
<1>6. ASSUME NEW q \in Process PROVE Carries(q, i)'
  <2>1. CASE q = p
    BY <1>4, <2>1 DEF Carries
  <2>2. CASE q # p
    <3>1. Carries(q, i)
      BY <1>1 DEF Sound
    <3>2. \A w : Balanced(w, i \in clamped) => Balanced(w, i \in clamped')
      BY DEF Balanced
    <3>3. Sane(agenda'[q].loaded, i, i \in clamped')
      BY <1>4, <2>2, <3>1, <3>2 DEF Carries, Sane
    <3>4. item[q] = i => row'[i] = row[i]
      BY <1>2, <2>2
    <3> QED
      BY <1>4, <2>2, <3>1, <3>2, <3>3, <3>4 DEF Carries
  <2> QED
    BY <2>1, <2>2
<1> QED
  BY <1>5, <1>6 DEF Sound

(* What an idle process has in memory.                                     *)
LEMMA Blanks ==
  /\ Absent \in Row /\ NoInventory \in Inventory /\ NoAgenda \in Agenda
  /\ NoAgenda.todo = <<>> /\ NoAgenda.loaded = <<>>
  /\ NoItem \notin Item
BY ProcessAssumption DEF Absent, Row, NoInventory, Inventory, NoAgenda, Agenda

(* What a process has in memory has its type.                              *)
LEMMA MemoryTyped ==
  ASSUME Agents, NEW p \in Process
  PROVE  /\ pc[p] \in Step /\ item[p] \in Item \cup {NoItem}
         /\ command[p] \in Command \cup {NoCommand}
         /\ mem[p] \in Inventory /\ mem[p].row \in Row /\ mem[p].resv \in Seq(Reservation)
         /\ base[p] \in Row /\ agenda[p] \in Agenda
         /\ agenda[p].todo \in Seq(Group) /\ agenda[p].loaded \in Seq(Loaded)
         /\ agenda[p].orders \in Seq(Order)
         /\ Ready(pc[p], item[p], command[p], agenda[p].todo)
<1>1. /\ pc[p] \in Step /\ item[p] \in Item \cup {NoItem}
      /\ command[p] \in Command \cup {NoCommand}
      /\ mem[p] \in Inventory /\ base[p] \in Row /\ agenda[p] \in Agenda
  BY DEF Agents
<1>2. Ready(pc[p], item[p], command[p], agenda[p].todo)
  BY DEF Agents, Steps
<1> QED
  BY <1>1, <1>2, AgendaParts, FieldsTyped

(* A process that returns, throws or dies.                                 *)
LEMMA ForgetStep ==
  ASSUME IInv, NEW p \in Process, Forget(p),
         row' = row, clamped' = clamped, disturbed \subseteq disturbed'
  PROVE  Agents' /\ AllSound'
<1>1. Turn(p, "idle", NoItem, NoCommand, NoInventory, Absent, NoAgenda)
  BY DEF Forget, Turn
<1>2. Agents'
  <2>1. Ready("idle", NoItem, NoCommand, NoAgenda.todo)
    BY DEF Ready, Saving
  <2>2. "idle" \in Step
    BY DEF Step
  <2> QED
    BY <1>1, <2>1, <2>2, Blanks, TurnTyped DEF IInv
<1>3. ASSUME NEW i \in Item, i \notin disturbed'
      PROVE  Sound(i)'
  <2>1. Balanced(row'[i], i \in clamped')
    BY <1>3 DEF IInv, AllSound, Sound
  <2>2. Sane(NoAgenda.loaded, i, i \in clamped') /\ ~Has(NoAgenda.loaded, i)
    BY DEF Sane, Has, NoAgenda
  <2>3. NoItem # i
    BY Blanks
  <2> QED
    BY <1>1, <1>3, <2>1, <2>2, <2>3, TurnSound
<1> QED
  BY <1>2, <1>3 DEF AllSound

(* The first group loaded, and the rest.                                   *)
LEMMA HeadSane ==
  ASSUME NEW loaded \in Seq(Loaded), loaded # <<>>
  PROVE  /\ Head(loaded).item \in Item /\ Head(loaded).mem \in Inventory
         /\ Head(loaded).orders \in Seq(Order) /\ Tail(loaded) \in Seq(Loaded)
         /\ Has(loaded, Head(loaded).item)
         /\ \A i : Has(Tail(loaded), i) => Has(loaded, i)
         /\ \A i, cut : Sane(loaded, i, cut) =>
              /\ Sane(Tail(loaded), i, cut)
              /\ Head(loaded).item = i => Balanced(Head(loaded).mem.row, cut)
<1>1. Head(loaded) \in Loaded /\ Tail(loaded) \in Seq(Loaded)
  BY ListParts
<1>2. Head(loaded).item \in Item /\ Head(loaded).mem \in Inventory /\ Head(loaded).orders \in Seq(Order)
  BY <1>1 DEF Loaded
<1>3. 1 \in DOMAIN loaded /\ Head(loaded) = loaded[1]
  BY ListParts
<1>4. \A k \in DOMAIN Tail(loaded) : k + 1 \in DOMAIN loaded /\ Tail(loaded)[k] = loaded[k + 1]
  BY ListParts
<1>5. Has(loaded, Head(loaded).item)
  BY <1>3 DEF Has
<1>6. \A i : Has(Tail(loaded), i) => Has(loaded, i)
  BY <1>4 DEF Has
<1>7. \A i, cut : Sane(loaded, i, cut) => Sane(Tail(loaded), i, cut)
  BY <1>4 DEF Sane
<1>8. \A i, cut : Sane(loaded, i, cut) /\ Head(loaded).item = i => Balanced(Head(loaded).mem.row, cut)
  BY <1>3 DEF Sane
<1> QED
  BY <1>1, <1>2, <1>5, <1>6, <1>7, <1>8

(* A run of the cron job goes on with its next group.                      *)
LEMMA NextGroupStep ==
  ASSUME IInv, NEW j \in Process, NEW loaded \in Seq(Loaded), NextGroup(j, loaded),
         row' = row, clamped' = clamped, disturbed' = disturbed,
         \A i \in Item : Has(loaded, i) => Holds(j, i),
         \A i \in Item \ disturbed : Sane(loaded, i, i \in clamped)
  PROVE  Agents' /\ AllSound'
<1>1. CASE loaded = <<>>
  BY <1>1, ForgetStep DEF NextGroup, Finish
<1>2. CASE loaded # <<>>
  <2> DEFINE a == [todo |-> <<>>, loaded |-> Tail(loaded), orders |-> Head(loaded).orders]
  <2>1. Turn(j, "release", Head(loaded).item, command[j], Head(loaded).mem, base[j], a)
    <3>1. /\ [command EXCEPT ![j] = command[j]] = command
          /\ [base EXCEPT ![j] = base[j]] = base
      BY Unmoved DEF IInv
    <3> QED
      BY <1>2, <3>1 DEF NextGroup, Turn
  <2>2. a \in Agenda /\ a.todo = <<>> /\ a.loaded = Tail(loaded)
    <3>1. <<>> \in Seq(Group)
      OBVIOUS
    <3> QED
      BY <1>2, <3>1, HeadSane, AgendaParts
  <2> HIDE DEF a
  <2>3. Agents'
    <3>1. Ready("release", Head(loaded).item, command[j], a.todo)
      BY <1>2, HeadSane DEF Ready
    <3>2. "release" \in Step
      BY DEF Step
    <3> QED
      BY <1>2, <2>1, <2>2, <3>1, <3>2, HeadSane, MemoryTyped, TurnTyped DEF IInv
  <2>4. ASSUME NEW i \in Item, i \notin disturbed'
        PROVE  Sound(i)'
    <3>1. Balanced(row'[i], i \in clamped')
      BY <2>4 DEF IInv, AllSound, Sound
    <3>2. Sane(loaded, i, i \in clamped')
      BY <2>4
    <3>3. Sane(a.loaded, i, i \in clamped')
      BY <1>2, <2>2, <3>2, HeadSane
    <3>4. Head(loaded).item = i => Balanced(Head(loaded).mem.row, i \in clamped')
      BY <1>2, <3>2, HeadSane
    <3>5. Head(loaded).item = i \/ Has(a.loaded, i) => Holds(j, i)
      BY <1>2, <2>2, HeadSane
    <3> QED
      BY <2>1, <2>4, <3>1, <3>3, <3>4, <3>5, TurnSound
  <2> QED
    BY <2>3, <2>4 DEF AllSound
<1> QED
  BY <1>1, <1>2

-----------------------------------------------------------------------------
(* One lemma per action.                                                   *)

(* An inventory that stays undisturbed had no holder.                      *)
LEMMA Disturbs ==
  ASSUME Tables, NEW i \in Item, Disturb(i)
  PROVE  /\ disturbed' \in SUBSET Item /\ disturbed \subseteq disturbed'
         /\ i \notin disturbed' => \A p \in Process : ~Holds(p, i)
BY DEF Tables, Disturb

(* A process that turns to the inventory i of which nobody has a copy.     *)
LEMMA TurnToSound ==
  ASSUME IInv, NEW p \in Process, NEW at \in Item, NEW s, NEW c, NEW m,
         Turn(p, s, at, c, m, base[p], agenda[p]), s # "update",
         Disturb(at), clamped' = clamped,
         \A i \in Item : i # at => row'[i] = row[i],
         at \notin disturbed => Balanced(row'[at], at \in clamped) /\ m.row = row'[at]
  PROVE  AllSound'
<1>1. /\ disturbed \subseteq disturbed'
      /\ at \notin disturbed' => \A q \in Process : ~Holds(q, at)
  BY Disturbs DEF IInv
<1>2. ASSUME NEW i \in Item, i \notin disturbed'
      PROVE  Sound(i)'
  <2>1. i \notin disturbed /\ Sound(i)
    BY <1>1, <1>2 DEF IInv, AllSound
  <2>2. Balanced(row'[i], i \in clamped')
    BY <2>1 DEF Sound
  <2>3. at = i => Balanced(m.row, i \in clamped')
    BY <2>1, <2>2
  <2>4. Sane(agenda[p].loaded, i, i \in clamped')
    BY <2>1 DEF Sound, Carries
  <2>5. row'[i] = row[i] \/ \A q \in Process : Holds(q, i) => q = p
    BY <1>1, <1>2
  <2>6. at = i \/ Has(agenda[p].loaded, i) => Holds(p, i) \/ \A q \in Process : ~Holds(q, i)
    BY <1>1, <1>2 DEF Has, Holds
  <2> QED
    BY <2>1, <2>2, <2>3, <2>4, <2>5, <2>6, TurnSound
<1> QED
  BY <1>2 DEF AllSound

(* POST /inventory: nobody holds the inventory, or it is disturbed.        *)
LEMMA CreateKeeps ==
  ASSUME IInv, NEW r \in Request, NEW i \in Item, NEW q \in 0 .. MaxStock, Create(r, i, q)
  PROVE  IInv'
<1>1. r \in Process
  BY DEF Process
<1>2. PICK w \in Row : w = Fresh(q) /\ Balanced(w, i \in clamped)
  <2>1. q \in Nat
    BY BoundAssumption
  <2>2. PICK w : w = [total |-> q, available |-> q, reserved |-> 0, exists |-> TRUE]
    OBVIOUS
  <2>3. w \in Row /\ Balanced(w, i \in clamped)
    BY <2>1, <2>2 DEF Row, Balanced, Surplus
  <2> QED
    BY <2>2, <2>3 DEF Fresh
<1>3. PICK m \in Inventory : m = [row |-> w, resv |-> <<>>]
  BY Bare
<1>4. Turn(r, "deleteReservations", i, command[r], m, base[r], agenda[r])
  BY <1>1, <1>2, <1>3, Unmoved DEF IInv, Create, Start, Turn
<1>5. Agents'
  <2>1. Ready("deleteReservations", i, command[r], agenda[r].todo) /\ "deleteReservations" \in Step
    BY DEF Ready, Step, Saving
  <2> QED
    BY <1>1, <1>3, <1>4, <2>1, MemoryTyped, TurnTyped DEF IInv
<1>6. Tables'
  <2>1. row' \in [Item -> Row] /\ row' = [row EXCEPT ![i] = w]
    BY <1>2 DEF IInv, Tables, Create
  <2> QED
    BY <2>1, Disturbs DEF IInv, Tables, Create, Start
<1>7. AllSound'
  <2>1. row'[i] = w /\ \A k \in Item : k # i => row'[k] = row[k]
    BY <1>2 DEF IInv, Tables, Create
  <2>2. Disturb(i) /\ clamped' = clamped
    BY DEF Create, Start
  <2> QED
    BY <1>1, <1>2, <1>3, <1>4, <2>1, <2>2, TurnToSound
<1> QED
  BY <1>5, <1>6, <1>7 DEF IInv

(* The row query of a handler.                                             *)
LEMMA FindInventoryKeeps ==
  ASSUME IInv, NEW r \in Request, NEW i \in Item, NEW c \in Command, FindInventory(r, i,
         c)
  PROVE  IInv'
<1>1. r \in Process
  BY DEF Process
<1>2. PICK m \in Inventory : m = [row |-> row[i], resv |-> <<>>]
  <2>1. row[i] \in Row
    BY DEF IInv, Tables
  <2> QED
    BY <2>1, Bare
<1>3. Turn(r, "findReservations", i, c, m, base[r], agenda[r])
  BY <1>1, <1>2, Unmoved DEF IInv, FindInventory, Start, Turn
<1>4. Agents'
  <2>1. Ready("findReservations", i, c, agenda[r].todo) /\ "findReservations" \in Step
    BY DEF Ready, Step
  <2> QED
    BY <1>1, <1>2, <1>3, <2>1, MemoryTyped, TurnTyped DEF IInv
<1>5. Tables'
  BY Disturbs DEF IInv, Tables, FindInventory, Start, tables
<1>6. AllSound'
  <2>1. row' = row
    BY DEF FindInventory, tables
  <2>2. Disturb(i) /\ clamped' = clamped
    BY DEF FindInventory, Start
  <2>3. i \notin disturbed => Balanced(row[i], i \in clamped)
    BY DEF IInv, AllSound, Sound
  <2> QED
    BY <1>1, <1>2, <1>3, <2>1, <2>2, <2>3, TurnToSound
<1> QED
  BY <1>4, <1>5, <1>6 DEF IInv

(* The row query of the cron job.                                          *)
LEMMA CronRowKeeps ==
  ASSUME IInv, NEW j \in Job, CronRow(j)
  PROVE  IInv'
<1>1. j \in Process
  BY DEF Process
<1>2. PICK i \in Item : i = Head(agenda[j].todo).item
  <2>1. agenda[j].todo \in Seq(Group) /\ agenda[j].todo # <<>>
    BY <1>1, MemoryTyped DEF IInv, CronRow, Ready
  <2>2. Head(agenda[j].todo) \in Group
    BY <2>1, ListParts
  <2> QED
    BY <2>2 DEF Group
<1>3. PICK m \in Inventory : m = [row |-> row[i], resv |-> <<>>]
  <2>1. row[i] \in Row
    BY DEF IInv, Tables
  <2> QED
    BY <2>1, Bare
<1>4. Turn(j, "cronReservations", i, command[j], m, base[j], agenda[j])
  BY <1>1, <1>2, <1>3, Unmoved DEF IInv, CronRow, Turn
<1>5. Agents'
  <2>1. Ready("cronReservations", i, command[j], agenda[j].todo) /\ "cronReservations" \in Step
    BY <1>1, <1>2, MemoryTyped DEF IInv, Ready, Step, CronRow
  <2> QED
    BY <1>1, <1>3, <1>4, <2>1, MemoryTyped, TurnTyped DEF IInv
<1>6. Disturb(i) /\ row' = row /\ resv' = resv /\ clamped' = clamped
  BY <1>2 DEF CronRow, tables
<1>7. Tables'
  BY <1>6, Disturbs DEF IInv, Tables, CronRow
<1>8. AllSound'
  <2>1. i \notin disturbed => Balanced(row[i], i \in clamped)
    BY DEF IInv, AllSound, Sound
  <2> QED
    BY <1>1, <1>3, <1>4, <1>6, <2>1, TurnToSound
<1> QED
  BY <1>5, <1>7, <1>8 DEF IInv

(* The query for what is due: it lists each inventory once, with the orders *)
(* of what is due there, and takes hold of nothing.                        *)
LEMMA CronQueryTurn ==
  ASSUME IInv, NEW j \in Job, CronQuery(j)
  PROVE  \E a \in Agenda :
           /\ a.todo # <<>> /\ a.loaded = agenda[j].loaded
           /\ \A k \in DOMAIN a.todo :
                a.todo[k].item \in Item /\ a.todo[k].orders = Orders(Expired(resv[a.todo[k].item]))
           /\ \A k, l \in DOMAIN a.todo : a.todo[k].item = a.todo[l].item => k = l
           /\ Turn(j, "cronRow", item[j], command[j], mem[j], base[j], a)
<1>1. j \in Process
  BY DEF Process
<1> DEFINE due == {i \in Item : Expired(resv[i]) # <<>>}
           list(g) == [k \in DOMAIN g |-> [item |-> g[k], orders |-> Orders(Expired(resv[g[k]]))]]
<1>2. PICK groups \in SetToSeqs(due) :
        /\ groups # <<>>
        /\ agenda' = [agenda EXCEPT ![j].todo = list(groups)]
  BY DEF CronQuery
<1>3. PICK n \in Nat : groups \in [1 .. n -> due] /\ IsInjective(groups)
  <2>1. IsFiniteSet(due)
    BY ItemAssumption, FS_Subset
  <2>2. Cardinality(due) \in Nat
    BY <2>1, FS_CardinalityType
  <2>3. PICK n \in Nat : n = Cardinality(due)
    BY <2>2
  <2>4. groups \in [1 .. n -> due] /\ \A k, l \in 1 .. n : k # l => groups[k] # groups[l]
    BY <2>3 DEF SetToSeqs
  <2>5. IsInjective(groups)
    BY <2>4 DEF IsInjective
  <2> QED
    BY <2>4, <2>5
<1>4. list(groups) \in Seq(Group) /\ list(groups) # <<>>
  <2>1. n # 0
    <3>1. CASE n = 0
      <4>1. DOMAIN groups = {}
        BY <1>3, <3>1
      <4>2. groups \in Seq(due) /\ Len(groups) = 0
        BY <1>3, <3>1, SeqDef
      <4> QED
        BY <1>2, <4>2, EmptySeq
    <3> QED
      BY <3>1
  <2>2. ASSUME NEW k \in 1 .. n
        PROVE  [item |-> groups[k], orders |-> Orders(Expired(resv[groups[k]]))] \in Group
    <3>1. groups[k] \in Item
      BY <1>3
    <3>2. resv[groups[k]] \in Seq(Reservation)
      BY <3>1 DEF IInv, Tables
    <3>3. Orders(Expired(resv[groups[k]])) \in Seq(Order)
      BY <3>2, ListsTyped
    <3> QED
      BY <3>1, <3>3 DEF Group
  <2>3. list(groups) \in [1 .. n -> Group]
    BY <1>3, <2>2
  <2>4. list(groups) \in Seq(Group)
    BY <2>3, ListOfFunction
  <2>5. DOMAIN list(groups) # {}
    BY <2>1, <2>3
  <2> QED
    BY <2>4, <2>5
<1>5. PICK t \in Seq(Group) : t = list(groups) /\ t # <<>>
  BY <1>4
<1>6. PICK a \in Agenda : a.todo = t /\ a.loaded = agenda[j].loaded
                          /\ agenda' = [agenda EXCEPT ![j] = a]
  <2>1. PICK u \in Seq(Group), l \in Seq(Loaded), o \in Seq(Order) :
          agenda[j] = [todo |-> u, loaded |-> l, orders |-> o]
    <3>1. agenda[j] \in Agenda
      BY <1>1, MemoryTyped DEF IInv
    <3> QED
      BY <3>1 DEF Agenda, Group, Loaded
  <2>2. PICK a \in Agenda : a = [todo |-> t, loaded |-> l, orders |-> o]
    BY AgendaParts
  <2>3. agenda' = [agenda EXCEPT ![j] = [agenda[j] EXCEPT !.todo = t]]
    BY <1>2, <1>5
  <2>4. [agenda[j] EXCEPT !.todo = t] = a
    BY <2>1, <2>2
  <2>5. a.todo = t /\ a.loaded = agenda[j].loaded
    BY <2>1, <2>2
  <2> QED
    BY <2>3, <2>4, <2>5
<1>7. Turn(j, "cronRow", item[j], command[j], mem[j], base[j], a)
  BY <1>1, <1>6, Unmoved DEF IInv, CronQuery, Turn
<1>8. /\ \A k \in DOMAIN t : t[k].item \in Item /\ t[k].orders = Orders(Expired(resv[t[k].item]))
      /\ \A k, l \in DOMAIN t : t[k].item = t[l].item => k = l
  <2>1. DOMAIN t = 1 .. n /\ DOMAIN groups = 1 .. n
    BY <1>3, <1>5
  <2>2. ASSUME NEW k \in 1 .. n
        PROVE  /\ t[k].item = groups[k] /\ groups[k] \in Item
               /\ t[k].orders = Orders(Expired(resv[groups[k]]))
    BY <1>3, <1>5, <2>1
  <2>3. \A k, l \in 1 .. n : groups[k] = groups[l] => k = l
    BY <1>3, <2>1 DEF IsInjective
  <2> QED
    BY <2>1, <2>2, <2>3
<1> HIDE DEF due, list
<1> QED
  BY <1>5, <1>6, <1>7, <1>8

(* It keeps the invariant.                                                 *)
LEMMA CronQueryKeeps ==
  ASSUME IInv, NEW j \in Job, CronQuery(j)
  PROVE  IInv'
<1>1. j \in Process
  BY DEF Process
<1>2. PICK a \in Agenda : /\ a.todo # <<>> /\ a.loaded = agenda[j].loaded
                          /\ Turn(j, "cronRow", item[j], command[j], mem[j], base[j], a)
  BY CronQueryTurn
<1>3. Agents'
  <2>1. Ready("cronRow", item[j], command[j], a.todo) /\ "cronRow" \in Step
    BY <1>2 DEF Ready, Step, Saving
  <2> QED
    BY <1>1, <1>2, <2>1, MemoryTyped, TurnTyped DEF IInv
<1>4. row' = row /\ clamped' = clamped /\ disturbed' = disturbed /\ Tables'
  BY DEF IInv, Tables, CronQuery, tables, history
<1>5. ASSUME NEW i \in Item, i \notin disturbed'
      PROVE  Sound(i)'
  <2>1. Balanced(row'[i], i \in clamped') /\ Carries(j, i)
    BY <1>1, <1>4, <1>5 DEF IInv, AllSound, Sound
  <2>2. item[j] = i => Balanced(mem[j].row, i \in clamped')
    BY <1>4, <2>1 DEF Carries
  <2>3. Sane(a.loaded, i, i \in clamped')
    BY <1>2, <1>4, <2>1 DEF Carries
  <2>4. item[j] = i \/ Has(a.loaded, i) => Holds(j, i)
    BY <1>2 DEF Has, Holds
  <2> QED
    BY <1>1, <1>2, <1>4, <1>5, <2>1, <2>2, <2>3, <2>4, TurnSound
<1> QED
  BY <1>3, <1>4, <1>5 DEF IInv, AllSound

(* The process goes on at another step with the inventory it has; what it  *)
(* has of it balances.                                                     *)
LEMMA TurnHereSound ==
  ASSUME IInv, NEW p \in Process, NEW s, NEW c, NEW m, NEW b, NEW a,
         Turn(p, s, item[p], c, m, b, a), a.loaded = agenda[p].loaded,
         disturbed' = disturbed, clamped \subseteq clamped',
         \A i \in Item : i # item[p] => row'[i] = row[i],
         \A i \in Item \ disturbed : i = item[p] =>
           /\ Balanced(row'[i], i \in clamped')
           /\ Balanced(m.row, i \in clamped')
           /\ s = "update" => b = row'[i]
  PROVE  AllSound'
<1>1. ASSUME NEW i \in Item, i \notin disturbed'
      PROVE  Sound(i)'
  <2>1. Sound(i) /\ Carries(p, i)
    BY <1>1 DEF IInv, AllSound, Sound
  <2>2. \A w : Balanced(w, i \in clamped) => Balanced(w, i \in clamped')
    BY DEF Balanced
  <2>3. Balanced(row'[i], i \in clamped')
    BY <1>1, <2>1, <2>2 DEF Sound
  <2>4. Sane(a.loaded, i, i \in clamped')
    BY <2>1, <2>2 DEF Carries, Sane
  <2>5. item[p] = i \/ Has(a.loaded, i) => Holds(p, i)
    BY DEF Has, Holds
  <2>6. row'[i] = row[i] \/ \A q \in Process : Holds(q, i) => q = p
    BY <2>1, <2>5 DEF Sound, OneHolder
  <2>7. item[p] = i => Balanced(m.row, i \in clamped') /\ (s = "update" => b = row'[i])
    BY <1>1
  <2> QED
    BY <1>1, <2>3, <2>4, <2>5, <2>6, <2>7, TurnSound
<1> QED
  BY <1>1 DEF AllSound

(* The domain method throws, or works on the copy the handler made.        *)
LEMMA RunCommandTurn ==
  ASSUME IInv, NEW r \in Request, RunCommand(r)
  PROVE  /\ item[r] \in Item /\ command[r] \in Command /\ pc[r] = "findReservations"
         /\ row' = row /\ resv' = resv /\ now' = now /\ disturbed' = disturbed
         /\ \/ /\ Forget(r)
               /\ UNCHANGED <<events, repeated, clamped>>
            \/ \E inv \in Inventory : \E new \in Outcomes(command[r], inv) :
                 /\ inv.row = mem[r].row /\ inv.resv = resv[item[r]]
                 /\ Turn(r, "select", item[r], command[r], new, base[r], agenda[r])
                 /\ events' = events
                 /\ repeated' = IF /\ command[r].op = "reserve"
                                   /\ \/ Found(inv, command[r].order) # {}
                                      \/ Listed(item[r], command[r].order)
                                THEN repeated \cup {item[r]} ELSE repeated
                 /\ clamped' = IF /\ command[r].op = "updateTotal"
                                  /\ Shifted(inv, command[r].quantity) < 0
                               THEN clamped \cup {item[r]} ELSE clamped
<1>1. r \in Process
  BY DEF Process
<1>2. PICK i \in Item : i = item[r]
  BY <1>1, MemoryTyped DEF IInv, RunCommand, Ready
<1>3. PICK c \in Command : c = command[r]
  BY <1>1, MemoryTyped DEF IInv, RunCommand, Ready
<1>4. PICK inv \in Inventory : /\ inv = [mem[r] EXCEPT !.resv = resv[i]]
                               /\ inv.row = mem[r].row /\ inv.resv = resv[i]
  <2>1. PICK w \in Row, s \in Seq(Reservation) : mem[r] = [row |-> w, resv |-> s]
    BY <1>1, MemoryTyped DEF IInv, Inventory
  <2>2. [mem[r] EXCEPT !.resv = resv[i]] = [row |-> w, resv |-> resv[i]]
    BY <2>1
  <2>3. resv[i] \in Seq(Reservation)
    BY DEF IInv, Tables
  <2> QED
    BY <2>1, <2>2, <2>3, Assembled
<1>5. row' = row /\ resv' = resv /\ now' = now /\ disturbed' = disturbed /\ pc[r] = "findReservations"
  BY DEF RunCommand, tables
<1>6. CASE Outcomes(c, inv) = {}
  <2>1. Forget(r) /\ events' = events /\ repeated' = repeated /\ clamped' = clamped
    BY <1>2, <1>3, <1>4, <1>6 DEF RunCommand, Finish
  <2> QED
    BY <1>2, <1>3, <1>5, <2>1
<1>7. CASE Outcomes(c, inv) # {}
  <2>1. PICK new \in Outcomes(c, inv) : mem' = [mem EXCEPT ![r] = new]
    BY <1>2, <1>3, <1>4, <1>7 DEF RunCommand
  <2>2. /\ GoTo(r, "select") /\ base' = base
        /\ repeated' = IF c.op = "reserve" /\ (Found(inv, c.order) # {} \/ Listed(i, c.order))
                       THEN repeated \cup {i} ELSE repeated
        /\ clamped' = IF c.op = "updateTotal" /\ Shifted(inv, c.quantity) < 0
                      THEN clamped \cup {i} ELSE clamped
    BY <1>2, <1>3, <1>4, <1>7 DEF RunCommand
  <2>3. Turn(r, "select", item[r], command[r], new, base[r], agenda[r]) /\ events' = events
    BY <1>1, <2>1, <2>2, Unmoved DEF IInv, GoTo, Turn
  <2> QED
    BY <1>2, <1>3, <1>4, <1>5, <2>2, <2>3
<1> QED
  BY <1>6, <1>7

(* The copy stays balanced.                                                *)
LEMMA RunCommandKeeps ==
  ASSUME IInv, NEW r \in Request, RunCommand(r)
  PROVE  IInv'
<1>1. r \in Process
  BY DEF Process
<1>2. PICK i \in Item, c \in Command : i = item[r] /\ c = command[r]
  BY RunCommandTurn
<1>3. row' = row /\ resv' = resv /\ now' = now /\ disturbed' = disturbed
  BY RunCommandTurn
<1>4. CASE Forget(r) /\ UNCHANGED <<events, repeated, clamped>>
  BY <1>1, <1>3, <1>4, ForgetStep DEF IInv, Tables
<1>5. ASSUME NEW inv \in Inventory, NEW new \in Outcomes(c, inv), inv.row = mem[r].row,
             Turn(r, "select", item[r], c, new, base[r], agenda[r]), events' = events,
             repeated' = repeated \cup {i} \/ repeated' = repeated,
             clamped' = IF c.op = "updateTotal" /\ Shifted(inv, c.quantity) < 0
                        THEN clamped \cup {i} ELSE clamped
      PROVE  IInv'
  <2>1. /\ new \in Inventory
        /\ inv.row.available >= 0 => new.row.available >= 0
        /\ Surplus(new.row) >= Surplus(inv.row)
        /\ \/ c.op = "updateTotal" /\ Shifted(inv, c.quantity) < 0
           \/ Surplus(new.row) = Surplus(inv.row)
    BY OutcomeSensible DEF IInv, Tables
  <2>2. Agents'
    <3>1. Ready("select", item[r], command[r], agenda[r].todo) /\ "select" \in Step
      BY <1>2 DEF Ready, Step, Saving
    <3> QED
      BY <1>1, <1>2, <1>5, <2>1, <3>1, MemoryTyped, TurnTyped DEF IInv
  <2>3. Tables'
    BY <1>3, <1>5 DEF IInv, Tables
  <2>4. ASSUME i \notin disturbed
        PROVE  Balanced(row'[i], i \in clamped') /\ Balanced(new.row, i \in clamped')
    <3>1. Balanced(row[i], i \in clamped) /\ Balanced(inv.row, i \in clamped)
      BY <1>1, <1>2, <1>5, <2>4 DEF IInv, AllSound, Sound, Carries
    <3>2. i \in clamped => i \in clamped'
      BY <1>5
    <3>3. PICK x, y \in Int : x = Surplus(inv.row) /\ y = Surplus(new.row)
      <4>1. Surplus(inv.row) \in Int /\ Surplus(new.row) \in Int
        BY <2>1, FieldsTyped DEF Surplus
      <4> QED
        BY <4>1
    <3>4. i \in clamped' \/ y = x
      BY <1>5, <2>1, <3>3
    <3>5. y >= 0 /\ new.row.available >= 0 /\ (i \in clamped' \/ y = 0)
      BY <2>1, <3>1, <3>2, <3>3, <3>4 DEF Balanced
    <3> QED
      BY <1>3, <3>1, <3>2, <3>3, <3>5 DEF Balanced
  <2>5. AllSound'
    <3>1. clamped \subseteq clamped'
      BY <1>5
    <3> QED
      BY <1>1, <1>2, <1>3, <1>5, <2>4, <3>1, TurnHereSound
  <2> QED
    BY <2>2, <2>3, <2>5 DEF IInv
<1> QED
  BY <1>2, <1>4, <1>5, RunCommandTurn

(* The select before the update.                                           *)
LEMMA SaveSelectKeeps ==
  ASSUME IInv, NEW p \in Process, SaveSelect(p)
  PROVE  IInv'
<1>1. PICK i \in Item : i = item[p]
  BY MemoryTyped DEF IInv, SaveSelect, Ready, Saving
<1>2. row[i] \in Row
  BY DEF IInv, Tables
<1>3. Turn(p, "update", item[p], command[p], mem[p], row[i], agenda[p])
  BY <1>1, Unmoved DEF IInv, SaveSelect, GoTo, Turn
<1>4. Agents'
  <2>1. Ready("update", item[p], command[p], agenda[p].todo) /\ "update" \in Step
    BY <1>1 DEF Ready, Step, Saving
  <2> QED
    BY <1>2, <1>3, <2>1, MemoryTyped, TurnTyped DEF IInv
<1>5. row' = row /\ disturbed' = disturbed /\ clamped' = clamped /\ Tables'
  BY DEF IInv, Tables, SaveSelect, GoTo, tables, history
<1>6. i \notin disturbed => Balanced(row[i], i \in clamped) /\ Balanced(mem[p].row, i \in clamped)
  BY <1>1 DEF IInv, AllSound, Sound, Carries
<1>7. AllSound'
  BY <1>1, <1>3, <1>5, <1>6, TurnHereSound
<1> QED
  BY <1>4, <1>5, <1>7 DEF IInv

(* TypeORM's columns: all of the copy, when the row is the one it selected. *)
LEMMA ColumnsWritten ==
  ASSUME NEW new \in Row, NEW old \in Row, NEW current \in Row
  PROVE  /\ ChangedColumns(new, old, current) \in Row
         /\ old = current => ChangedColumns(new, old, current) = new
<1>1. PICK t1, a1, r1 \in Int, e1 \in BOOLEAN :
        new = [total |-> t1, available |-> a1, reserved |-> r1, exists |-> e1]
  BY Columns
<1>2. PICK t2, a2, r2 \in Int, e2 \in BOOLEAN :
        old = [total |-> t2, available |-> a2, reserved |-> r2, exists |-> e2]
  BY Columns
<1>3. PICK t3, a3, r3 \in Int, e3 \in BOOLEAN :
        current = [total |-> t3, available |-> a3, reserved |-> r3, exists |-> e3]
  BY Columns
<1>4. PICK t4, a4, r4 \in Int, e4 \in BOOLEAN :
        /\ t4 = (IF t1 # t2 THEN t1 ELSE t3) /\ a4 = (IF a1 # a2 THEN a1 ELSE a3)
        /\ r4 = (IF r1 # r2 THEN r1 ELSE r3) /\ e4 = (IF e1 # e2 THEN e1 ELSE e3)
  OBVIOUS
<1>5. ChangedColumns(new, old, current)
        = [total |-> t4, available |-> a4, reserved |-> r4, exists |-> e4]
  <2>1. DOMAIN current = {"total", "available", "reserved", "exists"}
    BY <1>3
  <2>2. ChangedColumns(new, old, current)
          = [c \in {"total", "available", "reserved", "exists"} |->
               IF new[c] # old[c] THEN new[c] ELSE current[c]]
    BY <2>1 DEF ChangedColumns
  <2>3. /\ new["total"] = t1 /\ new["available"] = a1 /\ new["reserved"] = r1 /\ new["exists"] = e1
        /\ old["total"] = t2 /\ old["available"] = a2 /\ old["reserved"] = r2 /\ old["exists"] = e2
        /\ current["total"] = t3 /\ current["available"] = a3 /\ current["reserved"] = r3
        /\ current["exists"] = e3
    BY <1>1, <1>2, <1>3
  <2> QED
    BY <1>4, <2>2, <2>3
<1>6. ChangedColumns(new, old, current) \in Row
  BY <1>5 DEF Row
<1>7. ASSUME old = current PROVE ChangedColumns(new, old, current) = new
  <2>1. t2 = t3 /\ a2 = a3 /\ r2 = r3 /\ e2 = e3
    BY <1>2, <1>3, <1>7
  <2> QED
    BY <1>1, <1>4, <1>5, <2>1
<1> QED
  BY <1>6, <1>7

(* The update writes the whole copy, since nobody wrote in between.        *)
LEMMA SaveUpdateKeeps ==
  ASSUME IInv, NEW p \in Process, SaveUpdate(p)
  PROVE  IInv'
<1>1. PICK i \in Item : i = item[p]
  BY MemoryTyped DEF IInv, SaveUpdate, Ready, Saving
<1>2. PICK w \in Row : /\ w = ChangedColumns(mem[p].row, base[p], row[i])
                       /\ base[p] = row[i] => w = mem[p].row
  <2>1. row[i] \in Row /\ mem[p].row \in Row /\ base[p] \in Row
    BY MemoryTyped DEF IInv, Tables
  <2> QED
    BY <2>1, ColumnsWritten
<1>3. row' = [row EXCEPT ![i] = w]
  BY <1>1, <1>2 DEF SaveUpdate
<1>4. Turn(p, "deleteReservations", item[p], command[p], mem[p], base[p], agenda[p])
  BY <1>1, Unmoved DEF IInv, SaveUpdate, GoTo, Turn
<1>5. Agents'
  <2>1. Ready("deleteReservations", item[p], command[p], agenda[p].todo) /\ "deleteReservations" \in Step
    BY <1>1 DEF Ready, Step, Saving
  <2> QED
    BY <1>4, <2>1, MemoryTyped, TurnTyped DEF IInv
<1>6. disturbed' = disturbed /\ clamped' = clamped /\ Tables'
  BY <1>3 DEF IInv, Tables, SaveUpdate, GoTo, history
<1>7. row'[i] = w /\ \A k \in Item : k # i => row'[k] = row[k]
  BY <1>3 DEF IInv, Tables
<1>8. i \notin disturbed => Balanced(mem[p].row, i \in clamped) /\ w = mem[p].row
  BY <1>1, <1>2 DEF IInv, AllSound, Sound, Carries, SaveUpdate
<1>9. AllSound'
  BY <1>1, <1>4, <1>6, <1>7, <1>8, TurnHereSound
<1> QED
  BY <1>5, <1>6, <1>9 DEF IInv

(* The delete of save touches no row of the inventories table.             *)
LEMMA DeleteReservationsKeeps ==
  ASSUME IInv, NEW p \in Process, DeleteReservations(p)
  PROVE  IInv'
<1>1. PICK i \in Item : i = item[p]
  BY MemoryTyped DEF IInv, DeleteReservations, Ready, Saving
<1>2. Turn(p, "insertReservations", item[p], command[p], mem[p], base[p], agenda[p])
  BY Unmoved DEF IInv, DeleteReservations, GoTo, Turn
<1>3. Agents'
  <2>1. Ready("insertReservations", item[p], command[p], agenda[p].todo) /\ "insertReservations" \in Step
    BY <1>1 DEF Ready, Step, Saving
  <2> QED
    BY <1>2, <2>1, MemoryTyped, TurnTyped DEF IInv
<1>4. row' = row /\ disturbed' = disturbed /\ clamped' = clamped /\ Tables'
  <2>1. <<>> \in Seq(Reservation)
    OBVIOUS
  <2> QED
    BY <2>1 DEF IInv, Tables, DeleteReservations, GoTo, history
<1>5. i \notin disturbed => Balanced(row[i], i \in clamped) /\ Balanced(mem[p].row, i \in clamped)
  BY <1>1 DEF IInv, AllSound, Sound, Carries
<1>6. AllSound'
  BY <1>1, <1>2, <1>4, <1>5, TurnHereSound
<1> QED
  BY <1>3, <1>4, <1>6 DEF IInv

(* The insert of save; the cron job then turns to the next group.          *)
LEMMA InsertReservationsKeeps ==
  ASSUME IInv, NEW p \in Process, InsertReservations(p)
  PROVE  IInv'
<1>1. row' = row /\ disturbed' = disturbed /\ clamped' = clamped /\ Tables'
  <2>1. PICK s \in Seq(Reservation) : s = mem[p].resv
    BY MemoryTyped DEF IInv
  <2>2. \A i \in Item : resv[i] \o s \in Seq(Reservation)
    <3>1. ASSUME NEW i \in Item PROVE resv[i] \o s \in Seq(Reservation)
      <4>1. resv[i] \in Seq(Reservation)
        BY DEF IInv, Tables
      <4> QED
        BY <4>1, ConcatProperties
    <3> QED
      BY <3>1
  <2>3. resv' = [resv EXCEPT ![item[p]] = @ \o s]
    BY <2>1 DEF InsertReservations
  <2>4. resv' \in [Item -> Seq(Reservation)]
    BY <2>2, <2>3 DEF IInv, Tables
  <2>5. events' = events
    BY DEF InsertReservations, NextGroup, Finish
  <2> QED
    BY <2>4, <2>5 DEF IInv, Tables, InsertReservations, history
<1>2. PICK loaded \in Seq(Loaded) : loaded = agenda[p].loaded
  BY MemoryTyped DEF IInv
<1>3. NextGroup(p, loaded)
  BY <1>2 DEF InsertReservations
<1>4. \A i \in Item : Has(loaded, i) => Holds(p, i)
  BY <1>2 DEF Has, Holds
<1>5. \A i \in Item \ disturbed : Sane(loaded, i, i \in clamped)
  BY <1>2 DEF IInv, AllSound, Sound, Carries
<1> QED
  BY <1>1, <1>2, <1>3, <1>4, <1>5, NextGroupStep DEF IInv

(* The loaded group joins the others, with the copy just read; the run goes *)
(* on with the next group to load, or with the first to release.           *)
LEMMA CronReservationsTurn ==
  ASSUME IInv, NEW j \in Job, CronReservations(j)
  PROVE  \E todo \in Seq(Group), entry \in Loaded, loaded \in Seq(Loaded) :
           /\ todo = agenda[j].todo /\ todo # <<>>
           /\ entry.item = item[j] /\ entry.item = Head(todo).item
           /\ entry.orders = Head(todo).orders
           /\ entry.mem.row = mem[j].row /\ entry.mem.resv = resv[item[j]]
           /\ loaded = Append(agenda[j].loaded, entry)
           /\ \/ Tail(todo) = <<>> /\ NextGroup(j, loaded)
              \/ /\ Tail(todo) # <<>> /\ events' = events
                 /\ \E a \in Agenda :
                      /\ a.todo = Tail(todo) /\ a.loaded = loaded
                      /\ Turn(j, "cronRow", NoItem, command[j], mem[j], base[j], a)
<1>1. j \in Process
  BY DEF Process
<1>2. PICK todo \in Seq(Group) : todo = agenda[j].todo /\ todo # <<>>
  BY <1>1, MemoryTyped DEF IInv, CronReservations, Ready
<1>3. PICK group \in Group : group = Head(todo) /\ group.item = item[j]
  <2>1. item[j] = Head(todo).item
    BY <1>1, <1>2, MemoryTyped DEF IInv, CronReservations, Ready
  <2> QED
    BY <1>2, <2>1, ListParts
<1>4. group.item \in Item /\ group.orders \in Seq(Order)
  BY DEF Group
<1>5. PICK m \in Inventory : /\ m = [mem[j] EXCEPT !.resv = resv[group.item]]
                             /\ m.row = mem[j].row /\ m.resv = resv[group.item]
  <2>1. PICK w \in Row, s \in Seq(Reservation) : mem[j] = [row |-> w, resv |-> s]
    BY <1>1, MemoryTyped DEF IInv, Inventory
  <2>2. [mem[j] EXCEPT !.resv = resv[group.item]] = [row |-> w, resv |-> resv[group.item]]
    BY <2>1
  <2>3. resv[group.item] \in Seq(Reservation)
    BY <1>4 DEF IInv, Tables
  <2> QED
    BY <2>1, <2>2, <2>3, Assembled
<1>6. PICK entry \in Loaded : entry = [item |-> group.item, orders |-> group.orders, mem |-> m]
  BY <1>4 DEF Loaded
<1>7. PICK before \in Seq(Loaded) : before = agenda[j].loaded
  BY <1>1, MemoryTyped DEF IInv
<1>8. PICK loaded \in Seq(Loaded) : loaded = Append(before, entry)
  BY ListParts
<1>9. /\ entry.item = item[j] /\ entry.item = Head(todo).item /\ entry.orders = Head(todo).orders
      /\ entry.mem.row = mem[j].row /\ entry.mem.resv = resv[item[j]]
  BY <1>3, <1>5, <1>6
<1>10. CASE Tail(todo) = <<>>
  <2>1. NextGroup(j, loaded)
    BY <1>2, <1>3, <1>5, <1>6, <1>7, <1>8, <1>10 DEF CronReservations
  <2> QED
    BY <1>2, <1>7, <1>8, <1>9, <1>10, <2>1
<1>11. CASE Tail(todo) # <<>>
  <2>1. /\ pc' = [pc EXCEPT ![j] = "cronRow"]
        /\ item' = [item EXCEPT ![j] = NoItem]
        /\ agenda' = [agenda EXCEPT ![j].todo = Tail(todo), ![j].loaded = loaded]
        /\ UNCHANGED <<command, mem, base, events>>
    BY <1>2, <1>3, <1>5, <1>6, <1>7, <1>8, <1>11 DEF CronReservations
  <2>2. PICK a \in Agenda : /\ a.todo = Tail(todo) /\ a.loaded = loaded
                            /\ agenda' = [agenda EXCEPT ![j] = a]
    <3>1. PICK u \in Seq(Group), l \in Seq(Loaded), o \in Seq(Order) :
            agenda[j] = [todo |-> u, loaded |-> l, orders |-> o]
      <4>1. agenda[j] \in Agenda
        BY <1>1, MemoryTyped DEF IInv
      <4> QED
        BY <4>1 DEF Agenda, Group, Loaded
    <3>2. PICK t \in Seq(Group) : t = Tail(todo)
      BY <1>2, ListParts
    <3>3. PICK a \in Agenda : a = [todo |-> t, loaded |-> loaded, orders |-> o]
      BY AgendaParts
    <3>4. [agenda[j] EXCEPT !.todo = t, !.loaded = loaded] = a
      <4>1. PICK y : y = [agenda[j] EXCEPT !.todo = t]
        OBVIOUS
      <4>2. y = [todo |-> t, loaded |-> l, orders |-> o]
        BY <3>1, <4>1
      <4>3. [agenda[j] EXCEPT !.todo = t, !.loaded = loaded] = [y EXCEPT !.loaded = loaded]
        BY <4>1
      <4>4. [y EXCEPT !.loaded = loaded] = [todo |-> t, loaded |-> loaded, orders |-> o]
        BY <4>2
      <4> QED
        BY <3>3, <4>3, <4>4
    <3>5. agenda' = [agenda EXCEPT ![j] = [agenda[j] EXCEPT !.todo = t, !.loaded = loaded]]
      BY <1>1, <2>1, <3>2 DEF IInv, Agents
    <3>6. a.todo = Tail(todo) /\ a.loaded = loaded
      BY <3>2, <3>3
    <3> QED
      BY <3>4, <3>5, <3>6
  <2>3. Turn(j, "cronRow", NoItem, command[j], mem[j], base[j], a)
    BY <1>1, <2>1, <2>2, Unmoved DEF IInv, Turn
  <2> QED
    BY <1>2, <1>7, <1>8, <1>9, <1>11, <2>1, <2>2, <2>3
<1> QED
  BY <1>10, <1>11

(* What was loaded balances, like the rows it came from.                   *)
LEMMA CronReservationsKeeps ==
  ASSUME IInv, NEW j \in Job, CronReservations(j)
  PROVE  IInv'
<1>1. j \in Process
  BY DEF Process
<1>2. PICK todo \in Seq(Group), entry \in Loaded, loaded \in Seq(Loaded) :
        /\ entry.item = item[j] /\ entry.mem.row = mem[j].row
        /\ loaded = Append(agenda[j].loaded, entry)
        /\ \/ NextGroup(j, loaded)
           \/ /\ Tail(todo) # <<>> /\ events' = events
              /\ \E a \in Agenda : /\ a.todo = Tail(todo) /\ a.loaded = loaded
                                   /\ Turn(j, "cronRow", NoItem, command[j], mem[j], base[j], a)
  BY CronReservationsTurn
<1>3. PICK before \in Seq(Loaded) : before = agenda[j].loaded
  BY <1>1, MemoryTyped DEF IInv
<1>4. \A k \in DOMAIN loaded : loaded[k] = entry \/ (k \in DOMAIN before /\ loaded[k] = before[k])
  BY <1>2, <1>3, ListParts
<1>5. \A i \in Item : Has(loaded, i) => Holds(j, i)
  BY <1>2, <1>3, <1>4 DEF Has, Holds
<1>6. \A i \in Item \ disturbed : Sane(loaded, i, i \in clamped)
  <2> SUFFICES ASSUME NEW i \in Item, i \notin disturbed
    PROVE Sane(loaded, i, i \in clamped)
    OBVIOUS
  <2>1. Carries(j, i)
    BY <1>1 DEF IInv, AllSound, Sound
  <2> QED
    BY <1>2, <1>3, <1>4, <2>1 DEF Carries, Sane
<1>7. row' = row /\ disturbed' = disturbed /\ clamped' = clamped /\ Tables'
  BY DEF IInv, Tables, CronReservations, NextGroup, Finish, tables, history
<1>8. CASE NextGroup(j, loaded)
  BY <1>1, <1>5, <1>6, <1>7, <1>8, NextGroupStep DEF IInv
<1>9. ASSUME NEW a \in Agenda, a.todo = Tail(todo), a.loaded = loaded, Tail(todo) # <<>>,
             Turn(j, "cronRow", NoItem, command[j], mem[j], base[j], a)
      PROVE  IInv'
  <2>1. Agents'
    <3>1. Ready("cronRow", NoItem, command[j], a.todo) /\ "cronRow" \in Step
      BY <1>9 DEF Ready, Step, Saving
    <3> QED
      BY <1>1, <1>9, <3>1, MemoryTyped, TurnTyped DEF IInv
  <2>2. ASSUME NEW i \in Item, i \notin disturbed'
        PROVE  Sound(i)'
    <3>1. Balanced(row'[i], i \in clamped')
      BY <1>7, <2>2 DEF IInv, AllSound, Sound
    <3>2. Sane(a.loaded, i, i \in clamped') /\ (Has(a.loaded, i) => Holds(j, i))
      BY <1>5, <1>6, <1>7, <1>9, <2>2
    <3>3. NoItem # i
      BY ProcessAssumption
    <3> QED
      BY <1>1, <1>7, <1>9, <2>2, <3>1, <3>2, <3>3, TurnSound
  <2> QED
    BY <1>7, <2>1, <2>2 DEF IInv, AllSound
<1> QED
  BY <1>2, <1>8, <1>9

(* The same when the row stays and nothing is selected.                    *)
LEMMA TurnAsideSound ==
  ASSUME IInv, NEW p \in Process, NEW s, NEW m, NEW a,
         Turn(p, s, item[p], command[p], m, base[p], a), s # "update",
         a.loaded = agenda[p].loaded,
         row' = row, disturbed' = disturbed, clamped' = clamped,
         \A i \in Item \ disturbed : i = item[p] => Balanced(m.row, i \in clamped)
  PROVE  AllSound'
<1>1. \A i \in Item \ disturbed : i = item[p] =>
        /\ Balanced(row'[i], i \in clamped')
        /\ Balanced(m.row, i \in clamped')
        /\ s = "update" => base[p] = row'[i]
  BY DEF IInv, AllSound, Sound
<1>2. clamped \subseteq clamped' /\ \A i \in Item : i # item[p] => row'[i] = row[i]
  OBVIOUS
<1> QED
  BY <1>1, <1>2, TurnHereSound

(* The inner loop ends, a release throws and ends the run, or it releases   *)
(* the next order from the copy.                                           *)
LEMMA CronReleaseTurn ==
  ASSUME IInv, NEW j \in Job, CronRelease(j)
  PROVE  /\ item[j] \in Item /\ pc[j] = "release" /\ events' = events
         /\ \/ Turn(j, "select", item[j], command[j], mem[j], base[j], agenda[j])
            \/ Forget(j)
            \/ \E new \in Release(mem[j], Head(agenda[j].orders)) : \E a \in Agenda :
                 /\ agenda[j].orders # <<>>
                 /\ a.todo = agenda[j].todo /\ a.loaded = agenda[j].loaded
                 /\ a.orders = Tail(agenda[j].orders)
                 /\ Turn(j, "release", item[j], command[j], new, base[j], a)
<1>1. j \in Process
  BY DEF Process
<1>2. item[j] \in Item /\ pc[j] = "release" /\ events' = events
  <2>1. item[j] \in Item /\ pc[j] = "release"
    BY <1>1, MemoryTyped DEF IInv, CronRelease, Ready
  <2>2. events' = events
    BY DEF CronRelease, GoTo, Finish
  <2> QED
    BY <2>1, <2>2
<1>3. PICK orders \in Seq(Order) : orders = agenda[j].orders
  BY <1>1, MemoryTyped DEF IInv
<1>4. PICK inv \in Inventory : inv = mem[j]
  BY <1>1, MemoryTyped DEF IInv
<1>5. CASE orders = <<>>
  <2>1. Turn(j, "select", item[j], command[j], mem[j], base[j], agenda[j])
    BY <1>1, <1>3, <1>5, Unmoved DEF IInv, CronRelease, GoTo, Turn
  <2> QED
    BY <1>2, <2>1
<1>6. CASE orders # <<>> /\ Release(inv, Head(orders)) = {}
  <2>1. Forget(j)
    BY <1>3, <1>4, <1>6 DEF CronRelease, Finish
  <2> QED
    BY <1>2, <2>1
<1>7. CASE orders # <<>> /\ Release(inv, Head(orders)) # {}
  <2>1. PICK new \in Release(inv, Head(orders)) : mem' = [mem EXCEPT ![j] = new]
    BY <1>3, <1>4, <1>7 DEF CronRelease
  <2>2. /\ agenda' = [agenda EXCEPT ![j].orders = Tail(orders)]
        /\ UNCHANGED <<pc, item, command, base, events>>
    BY <1>3, <1>4, <1>7 DEF CronRelease
  <2>3. PICK a \in Agenda : /\ a.todo = agenda[j].todo /\ a.loaded = agenda[j].loaded
                            /\ a.orders = Tail(orders)
                            /\ agenda' = [agenda EXCEPT ![j] = a]
    <3>1. PICK u \in Seq(Group), l \in Seq(Loaded), o \in Seq(Order) :
            agenda[j] = [todo |-> u, loaded |-> l, orders |-> o]
      <4>1. agenda[j] \in Agenda
        BY <1>1, MemoryTyped DEF IInv
      <4> QED
        BY <4>1 DEF Agenda, Group, Loaded
    <3>2. PICK t \in Seq(Order) : t = Tail(orders)
      BY <1>7, ListParts
    <3>3. PICK a \in Agenda : a = [todo |-> u, loaded |-> l, orders |-> t]
      BY AgendaParts
    <3>4. [agenda[j] EXCEPT !.orders = t] = a
      BY <3>1, <3>3
    <3>5. agenda' = [agenda EXCEPT ![j] = [agenda[j] EXCEPT !.orders = t]]
      BY <1>1, <2>2, <3>2 DEF IInv, Agents
    <3>6. a.todo = agenda[j].todo /\ a.loaded = agenda[j].loaded /\ a.orders = Tail(orders)
      BY <3>1, <3>2, <3>3
    <3> QED
      BY <3>4, <3>5, <3>6
  <2>4. Turn(j, "release", item[j], command[j], new, base[j], a)
    BY <1>1, <1>2, <2>1, <2>2, <2>3, Unmoved DEF IInv, Turn
  <2> QED
    BY <1>2, <1>3, <1>4, <1>7, <2>3, <2>4
<1> QED
  BY <1>5, <1>6, <1>7

(* A released copy balances as well.                                       *)
LEMMA CronReleaseKeeps ==
  ASSUME IInv, NEW j \in Job, CronRelease(j)
  PROVE  IInv'
<1>1. j \in Process
  BY DEF Process
<1>2. PICK i \in Item, inv \in Inventory : i = item[j] /\ inv = mem[j]
  BY <1>1, CronReleaseTurn, MemoryTyped DEF IInv
<1>3. row' = row /\ disturbed' = disturbed /\ clamped' = clamped /\ Tables'
  BY DEF IInv, Tables, CronRelease, GoTo, Finish, tables, history
<1>4. i \notin disturbed => Balanced(row[i], i \in clamped) /\ Balanced(inv.row, i \in clamped)
  BY <1>1, <1>2 DEF IInv, AllSound, Sound, Carries
<1>5. CASE Turn(j, "select", item[j], command[j], mem[j], base[j], agenda[j])
  <2>1. Agents'
    <3>1. Ready("select", item[j], command[j], agenda[j].todo) /\ "select" \in Step
      BY <1>2 DEF Ready, Step, Saving
    <3> QED
      BY <1>1, <1>5, <3>1, MemoryTyped, TurnTyped DEF IInv
  <2>2. AllSound'
    BY <1>1, <1>2, <1>3, <1>4, <1>5, TurnAsideSound
  <2> QED
    BY <1>3, <2>1, <2>2 DEF IInv
<1>6. CASE Forget(j)
  BY <1>1, <1>3, <1>6, ForgetStep DEF IInv
<1>7. ASSUME NEW new \in Release(inv, Head(agenda[j].orders)), NEW a \in Agenda,
             a.todo = agenda[j].todo, a.loaded = agenda[j].loaded,
             Turn(j, "release", item[j], command[j], new, base[j], a)
      PROVE  IInv'
  <2>1. new \in Inventory /\ Sensible(inv.row, new.row)
    BY ReleaseSensible
  <2>2. Agents'
    <3>1. Ready("release", item[j], command[j], a.todo) /\ "release" \in Step
      BY <1>2 DEF Ready, Step, Saving
    <3> QED
      BY <1>1, <1>7, <2>1, <3>1, MemoryTyped, TurnTyped DEF IInv
  <2>3. i \notin disturbed => Balanced(new.row, i \in clamped)
    BY <1>4, <2>1 DEF Sensible, Balanced
  <2>4. AllSound'
    BY <1>1, <1>2, <1>3, <1>7, <2>3, TurnAsideSound
  <2> QED
    BY <1>3, <2>2, <2>4 DEF IInv
<1> QED
  BY <1>2, <1>5, <1>6, <1>7, CronReleaseTurn

(* A process dies; halfway through a save the inventory is disturbed.      *)
LEMMA AbortKeeps ==
  ASSUME IInv, NEW p \in Process, Abort(p)
  PROVE  IInv'
<1>1. Forget(p) /\ row' = row /\ clamped' = clamped /\ disturbed \subseteq disturbed'
  BY DEF Abort, tables
<1>2. pc[p] \in {"deleteReservations", "insertReservations"} => item[p] \in Item
  BY MemoryTyped DEF IInv, Ready, Saving
<1>3. Tables'
  BY <1>2 DEF IInv, Tables, Abort, tables
<1> QED
  BY <1>1, <1>3, ForgetStep DEF IInv

(* The clock says nothing about the rows.                                  *)
LEMMA QuietKeeps ==
  ASSUME IInv, UNCHANGED <<tables, process, history>>, now' \in Nat, events' \in Nat
  PROVE  IInv'
BY DEF IInv, Agents, Steps, Tables, AllSound, Sound, OneHolder, Carries, Holds,
       tables, process, history

(* The queries of save together.                                           *)
LEMMA SaveKeeps ==
  ASSUME IInv, NEW p \in Process, Save(p)
  PROVE  IInv'
BY SaveSelectKeeps, SaveUpdateKeeps, DeleteReservationsKeeps,
   InsertReservationsKeeps DEF Save

(* Every step keeps the invariant.                                         *)
LEMMA Inductive == IInv /\ [Next]_vars => IInv'
<1> SUFFICES ASSUME IInv, [Next]_vars PROVE IInv'
  OBVIOUS
<1>1. Request \subseteq Process /\ Job \subseteq Process
  BY DEF Process
<1>2. CASE \E r \in Request, i \in Item : \E q \in 0 .. MaxStock : Create(r, i, q)
  BY <1>2, CreateKeeps
<1>3. CASE \E r \in Request, i \in Item : \E c \in Command : FindInventory(r, i, c)
  BY <1>3, FindInventoryKeeps
<1>4. CASE \E r \in Request : Proceed(r)
  BY <1>1, <1>4, RunCommandKeeps, SaveKeeps DEF Proceed
<1>5. CASE \E j \in Job : CronQuery(j) \/ CronStep(j)
  BY <1>1, <1>5, CronQueryKeeps, CronRowKeeps, CronReservationsKeeps, CronReleaseKeeps,
     SaveKeeps
     DEF CronStep
<1>6. CASE \E p \in Process : Abort(p)
  BY <1>6, AbortKeeps
<1>7. CASE Tick
  <2>1. now' \in Nat /\ events' \in Nat
    BY <1>7 DEF IInv, Tables, Tick
  <2> QED
    BY <1>7, <2>1, QuietKeeps DEF Tick
<1>8. CASE UNCHANGED vars
  BY <1>8, QuietKeeps DEF IInv, Tables, vars
<1> QED
  BY <1>2, <1>3, <1>4, <1>5, <1>6, <1>7, <1>8 DEF Next

(* The empty database satisfies it.                                        *)
LEMMA InitIInv == Init => IInv
<1> SUFFICES ASSUME Init PROVE IInv
  OBVIOUS
<1>1. Agents
  <2>1. Steps
    BY DEF Init, Steps, Ready, Saving
  <2>2. "idle" \in Step
    BY DEF Step
  <2> QED
    BY <2>1, <2>2, Blanks DEF Init, Agents
<1>2. Tables
  <2>1. <<>> \in Seq(Reservation)
    OBVIOUS
  <2> QED
    BY <2>1, Blanks DEF Init, Tables
<1>3. ASSUME NEW i \in Item PROVE Sound(i)
  <2>1. Balanced(row[i], i \in clamped)
    BY DEF Init, Balanced, Surplus, Absent
  <2>2. \A p \in Process : agenda[p].loaded = <<>> /\ item[p] = NoItem
    BY DEF Init, NoAgenda
  <2>3. \A p \in Process : ~Holds(p, i)
    BY <2>2, ProcessAssumption DEF Holds
  <2>4. \A p \in Process : Carries(p, i)
    BY <2>2, ProcessAssumption DEF Carries, Sane
  <2> QED
    BY <2>1, <2>3, <2>4 DEF Sound, OneHolder
<1> QED
  BY <1>1, <1>2, <1>3 DEF IInv, AllSound

(* No unit that is not there is sold, and none gets lost: as long as no two *)
(* processes worked on an inventory at once, its row accounts for its whole *)
(* total, for any number of handlers and cron runs, and whatever is        *)
(* reserved, released, consumed, expired or corrected.                     *)
THEOREM StockIsKept == Spec => []StockKept
<1>1. Init => IInv
  BY InitIInv
<1>2. IInv /\ [Next]_vars => IInv'
  BY Inductive
<1>3. IInv => StockKept
  <2> SUFFICES ASSUME IInv PROVE StockKept
    OBVIOUS
  <2>1. TypeOK
    BY DEF IInv, Agents, Tables, TypeOK
  <2>2. ASSUME NEW i \in Item, i \notin disturbed
        PROVE  /\ row[i].available >= 0
               /\ i \notin clamped => row[i].available + row[i].reserved = row[i].total
    <3>1. Balanced(row[i], i \in clamped) /\ row[i] \in Row
      BY <2>2 DEF IInv, Tables, AllSound, Sound
    <3>2. row[i].available \in Int /\ row[i].reserved \in Int /\ row[i].total \in Int
      BY <3>1 DEF Row
    <3>3. row[i].available >= 0 /\ (i \notin clamped => Surplus(row[i]) = 0)
      BY <3>1 DEF Balanced
    <3>4. \A x, y, z \in Int : x + y - z = 0 => x + y = z
      OBVIOUS
    <3> QED
      BY <3>2, <3>3, <3>4 DEF Surplus
  <2> QED
    BY <2>1, <2>2 DEF StockKept
<1> QED
  BY <1>1, <1>2, <1>3, PTL DEF Spec

-----------------------------------------------------------------------------
(* Reservations: the copies of an inventory nobody disturbed agree with    *)
(* the tables as far as each step of a process needs it.  A process is     *)
(* working while it has a changed copy; while it is committing, the row is *)
(* written and the list not yet.                                           *)
Working == {"release"} \cup Saving
Commit == {"deleteReservations", "insertReservations"}

(* No order has two reservations in the list.                              *)
Once(s) == \A j, k \in DOMAIN s : s[j].order = s[k].order => j = k

(* The reserved column covers the list, and is its total as long as no     *)
(* order reserved twice; a row that does not exist has no reservations.    *)
Agrees(w, s, again) ==
  /\ w.exists \/ s = <<>>
  /\ w.reserved >= Total(s)
  /\ again \/ (w.reserved = Total(s) /\ Once(s))

(* What a copy m is worth at step s, where the tables hold the row w and   *)
(* the list l.                                                             *)
Stage(s, m, w, l, again) ==
  /\ s = "findReservations" => m.row = w /\ w.exists
  /\ s = "cronReservations" => m.row = w
  /\ s \in Working => Agrees(m.row, m.resv, again)
  /\ s \in Commit => m.row = w
  /\ s = "deleteReservations" => again \/ Once(l)
  /\ s = "insertReservations" => l = <<>>

(* A group a cron run loaded is as in the tables.                          *)
Entries(loaded, i, w, l) ==
  \A k \in DOMAIN loaded :
    loaded[k].item = i => loaded[k].mem.row = w /\ loaded[k].mem.resv = l

(* What process p has of the inventory i.                                  *)
Trusted(p, i) ==
  /\ item[p] = i => Stage(pc[p], mem[p], row[i], resv[i], i \in repeated)
  /\ Entries(agenda[p].loaded, i, row[i], resv[i])

Kept(i) ==
  /\ (\A p \in Process : ~Committing(p, i)) => Agrees(row[i], resv[i], i \in repeated)
  /\ \A p \in Process : Trusted(p, i)

(* The groups of a list are of different inventories.                      *)
Different(groups) == \A j, k \in DOMAIN groups : groups[j].item = groups[k].item => j = k

(* A cron run lists, loads and releases each inventory once.               *)
Apart(p, s, at, a) ==
  /\ s = "idle" \/ p \in Request => a.todo = <<>> /\ a.loaded = <<>>
  /\ s \in Working => ~Has(a.loaded, at)
  /\ Different(a.todo) /\ Different(a.loaded)
  /\ \A k \in DOMAIN a.todo : ~Has(a.loaded, a.todo[k].item)

AllApart == \A p \in Process : Apart(p, pc[p], item[p], agenda[p])

AllKept == AllApart /\ \A i \in Item \ disturbed : Kept(i)

-----------------------------------------------------------------------------
(* What lists of reservations add up to.                                   *)

(* The places of a list, and what they hold.                               *)
LEMMA Places ==
  ASSUME NEW s \in Seq(Reservation)
  PROVE  /\ IsFiniteSet(DOMAIN s) /\ DOMAIN s = 1 .. Len(s) /\ Len(s) \in Nat
         /\ \A k \in DOMAIN s :
              /\ s[k] \in Reservation /\ s[k].quantity \in Nat /\ s[k].expiresAt \in Nat
              /\ s[k].order \in Order
<1>1. DOMAIN s = 1 .. Len(s) /\ Len(s) \in Nat
  BY LenProperties
<1>2. IsFiniteSet(DOMAIN s)
  BY <1>1, FS_Interval
<1>3. \A k \in DOMAIN s : s[k] \in Reservation
  BY <1>1, ElementOfSeq
<1> QED
  BY <1>1, <1>2, <1>3 DEF Reservation

(* The units of a list, as a function on its places.                       *)
Units(s) == [k \in DOMAIN s |-> s[k].quantity]

(* The total of a list is a sum over its places.                           *)
LEMMA TotalIs ==
  ASSUME NEW s \in Seq(Reservation)
  PROVE  /\ Total(s) = SumFunctionOnSet(Units(s), DOMAIN s) /\ Total(s) \in Nat
         /\ \A k \in DOMAIN s : Units(s)[k] = s[k].quantity /\ Units(s)[k] \in Nat
<1>1. Total(s) = SumFunctionOnSet(Units(s), DOMAIN s)
  BY DEF Total, SumFunction, Units
<1>2. \A k \in DOMAIN s : Units(s)[k] = s[k].quantity /\ Units(s)[k] \in Nat
  BY Places DEF Units
<1>3. \A k \in DOMAIN s : Units(s)[k] \in Int
  BY <1>2
<1>4. SumFunctionOnSet(Units(s), DOMAIN s) \in Nat
  BY <1>2, <1>3, Places, SumInt
<1> QED
  BY <1>1, <1>2, <1>4

(* No reservations, no units.                                              *)
LEMMA TotalEmpty == Total(<<>>) = 0
<1>1. <<>> \in Seq(Reservation) /\ DOMAIN <<>> = {}
  OBVIOUS
<1>2. Total(<<>>) = SumFunctionOnSet(Units(<<>>), DOMAIN <<>>)
  BY <1>1, TotalIs
<1> QED
  BY <1>1, <1>2, SumEmpty

(* One more reservation adds its units.                                    *)
LEMMA TotalAppend ==
  ASSUME NEW s \in Seq(Reservation), NEW v \in Reservation
  PROVE  Total(Append(s, v)) = Total(s) + v.quantity
<1>1. PICK l \in Seq(Reservation) : l = Append(s, v)
  BY AppendProperties
<1>2. PICK n \in Nat : n = Len(s) /\ DOMAIN s = 1 .. n
  BY Places
<1>3. /\ DOMAIN l = 1 .. n + 1 /\ l[n + 1] = v
      /\ \A k \in 1 .. n : l[k] = s[k]
  BY <1>1, <1>2, AppendProperties
<1>4. PICK D : D = 1 .. n
  OBVIOUS
<1>5. DOMAIN l = D \cup {n + 1} /\ n + 1 \notin D /\ D = DOMAIN s /\ IsFiniteSet(D)
  BY <1>2, <1>3, <1>4, Places
<1>6. \A k \in D \cup {n + 1} : Units(l)[k] \in Int
  BY <1>5, TotalIs
<1>7. Total(l) = SumFunctionOnSet(Units(l), D) + Units(l)[n + 1]
  <2>1. Total(l) = SumFunctionOnSet(Units(l), D \cup {n + 1})
    BY <1>5, TotalIs
  <2>2. PICK z, f : z = n + 1 /\ f = Units(l)
    OBVIOUS
  <2>3. SumFunctionOnSet(f, D \cup {z}) = SumFunctionOnSet(f, D) + f[z]
    BY <1>5, <1>6, <2>2, SumAdds
  <2> QED
    BY <2>1, <2>2, <2>3
<1>8. \A k \in D : Units(l)[k] = Units(s)[k]
  <2> SUFFICES ASSUME NEW k \in D PROVE Units(l)[k] = Units(s)[k]
    OBVIOUS
  <2>1. k \in DOMAIN l /\ k \in DOMAIN s /\ l[k] = s[k]
    BY <1>3, <1>4, <1>5
  <2> QED
    BY <2>1, TotalIs
<1>9. SumFunctionOnSet(Units(l), D) = SumFunctionOnSet(Units(s), D)
  BY <1>5, <1>8, SumSame
<1>10. Units(l)[n + 1] = v.quantity
  BY <1>3, <1>5, TotalIs
<1> QED
  BY <1>1, <1>5, <1>7, <1>9, <1>10, TotalIs

(* Part of a list: what is in it, and what it adds up to.                  *)
LEMMA AtParts ==
  ASSUME NEW s \in Seq(Reservation), NEW places \in SUBSET (DOMAIN s)
  PROVE  /\ At(s, places) \in Seq(Reservation)
         /\ ToSet(At(s, places)) = {s[k] : k \in places}
         /\ Once(s) => Once(At(s, places))
         /\ Total(At(s, places)) = SumFunctionOnSet(Units(s), places)
<1>1. IsFiniteSet(places)
  BY Places, FS_Subset
<1>2. PICK n \in Nat : n = Cardinality(places)
  BY <1>1, ListOfSet
<1>3. PICK f \in [1 .. n -> places] : /\ f = SetToSeq(places)
                                      /\ \A j, k \in 1 .. n : f[j] = f[k] => j = k
                                      /\ \A x \in places : \E k \in 1 .. n : f[k] = x
  <2>1. \E f \in Bijection(1 .. Cardinality(places), places) : TRUE
    BY <1>1, FS_CardinalityType DEF ExistsBijection
  <2>2. \E f \in [1 .. n -> places] : IsInjective(f)
    BY <1>2, <2>1 DEF Bijection, Injection, IsInjective
  <2>3. PICK f : f = SetToSeq(places)
    OBVIOUS
  <2>4. f \in [1 .. n -> places] /\ IsInjective(f)
    BY <1>2, <2>2, <2>3 DEF SetToSeq
  <2>5. f \in Injection(1 .. n, places)
    BY <2>4 DEF Injection, IsInjective
  <2>6. IsFiniteSet(1 .. n) /\ Cardinality(1 .. n) = n
    BY FS_Interval
  <2>7. f \in Surjection(1 .. n, places)
    BY <1>1, <1>2, <2>5, <2>6, FS_SurjCardinalityBound, FS_Injection
  <2> QED
    BY <2>3, <2>4, <2>7 DEF IsInjective, Surjection
<1>4. PICK l \in Seq(Reservation) : l = At(s, places) /\ l = [k \in 1 .. n |-> s[f[k]]]
  BY <1>3, AtTyped DEF At
<1>5. DOMAIN l = 1 .. n /\ \A k \in 1 .. n : l[k] = s[f[k]] /\ f[k] \in places
  BY <1>3, <1>4
<1>6. ToSet(l) = {s[k] : k \in places}
  <2>1. ToSet(l) = {l[k] : k \in 1 .. n}
    BY <1>5 DEF ToSet
  <2>2. ASSUME NEW v \in {l[k] : k \in 1 .. n} PROVE v \in {s[k] : k \in places}
    BY <1>5
  <2>3. ASSUME NEW x \in places PROVE s[x] \in {l[k] : k \in 1 .. n}
    BY <1>3, <1>5
  <2> QED
    BY <2>1, <2>2, <2>3
<1>7. Once(s) => Once(l)
  BY <1>3, <1>5 DEF Once
<1>8. Total(l) = SumFunctionOnSet(Units(s), places)
  <2>1. IsFiniteSet(1 .. n) /\ \A j, k \in 1 .. n : f[j] = f[k] => j = k
    BY <1>3, FS_Interval
  <2>2. \A k \in 1 .. n : Units(l)[k] = Units(s)[f[k]] /\ Units(l)[k] \in Int
    <3> SUFFICES ASSUME NEW k \in 1 .. n
                 PROVE  Units(l)[k] = Units(s)[f[k]] /\ Units(l)[k] \in Int
      OBVIOUS
    <3>1. k \in DOMAIN l /\ f[k] \in DOMAIN s /\ l[k] = s[f[k]]
      BY <1>5
    <3>2. Units(l)[k] = l[k].quantity /\ Units(l)[k] \in Nat
      BY <3>1, TotalIs
    <3>3. Units(s)[f[k]] = s[f[k]].quantity
      BY <3>1, TotalIs
    <3> QED
      BY <3>1, <3>2, <3>3
  <2>3. PICK S, g, h : S = 1 .. n /\ g = Units(l) /\ h = Units(s)
    OBVIOUS
  <2>4. IsFiniteSet(S) /\ Moves(g, S, h, places, f)
    BY <1>3, <2>1, <2>2, <2>3 DEF Moves
  <2>5. SumFunctionOnSet(g, S) = SumFunctionOnSet(h, places)
    BY <2>4, SumMoved
  <2>6. Total(l) = SumFunctionOnSet(g, S)
    BY <1>5, <2>3, TotalIs
  <2> QED
    BY <2>3, <2>5, <2>6
<1> QED
  BY <1>4, <1>6, <1>7, <1>8

(* Without an order: its reservations are gone, the others stay, and the   *)
(* total loses what it had, exactly so when it had one.                    *)
LEMMA WithoutParts ==
  ASSUME NEW s \in Seq(Reservation), NEW o
  PROVE  /\ WithoutOrder(s, o) \in Seq(Reservation)
         /\ ToSet(WithoutOrder(s, o)) = {v \in ToSet(s) : v.order # o}
         /\ Once(s) => Once(WithoutOrder(s, o))
         /\ \A k \in DOMAIN s : s[k].order = o =>
              /\ Total(s) >= Total(WithoutOrder(s, o)) + s[k].quantity
              /\ Once(s) => Total(s) = Total(WithoutOrder(s, o)) + s[k].quantity
<1>1. PICK P : P = {k \in DOMAIN s : s[k].order # o}
  OBVIOUS
<1>2. PICK l \in Seq(Reservation) : l = WithoutOrder(s, o) /\ l = At(s, P)
  BY <1>1, AtParts DEF WithoutOrder
<1>3. ToSet(l) = {v \in ToSet(s) : v.order # o}
  <2>1. ToSet(l) = {s[k] : k \in P}
    BY <1>1, <1>2, AtParts
  <2> QED
    BY <1>1, <2>1 DEF ToSet
<1>4. Once(s) => Once(l)
  BY <1>1, <1>2, AtParts
<1>5. ASSUME NEW k \in DOMAIN s, s[k].order = o
      PROVE  /\ Total(s) >= Total(l) + s[k].quantity
             /\ Once(s) => Total(s) = Total(l) + s[k].quantity
  <2>1. PICK Q : Q = P \cup {k}
    OBVIOUS
  <2>2. PICK f : f = Units(s)
    OBVIOUS
  <2>3. \A x \in DOMAIN s : f[x] \in Nat
    BY <2>2, TotalIs
  <2>4. P \in SUBSET (DOMAIN s) /\ Q \in SUBSET (DOMAIN s) /\ k \notin P
    BY <1>1, <1>5, <2>1
  <2>5. IsFiniteSet(P) /\ \A x \in P \cup {k} : f[x] \in Int
    BY <1>5, <2>3, <2>4, Places, FS_Subset
  <2>6. SumFunctionOnSet(f, Q) = SumFunctionOnSet(f, P) + f[k]
    BY <2>1, <2>4, <2>5, SumAdds
  <2>7. SumFunctionOnSet(f, Q) <= SumFunctionOnSet(f, DOMAIN s)
    BY <2>3, <2>4, Places, SumPart
  <2>8. Total(s) = SumFunctionOnSet(f, DOMAIN s) /\ Total(l) = SumFunctionOnSet(f, P) /\ f[k] = s[k].quantity
    BY <1>2, <1>5, <2>2, <2>4, AtParts, TotalIs
  <2>9. Total(s) \in Nat /\ Total(l) \in Nat /\ f[k] \in Nat
    BY <1>5, <2>3, TotalIs
  <2>10. Once(s) => Q = DOMAIN s
    BY <1>1, <1>5, <2>1 DEF Once
  <2> QED
    BY <2>6, <2>7, <2>8, <2>9, <2>10
<1> QED
  BY <1>2, <1>3, <1>4, <1>5

-----------------------------------------------------------------------------
(* What the methods make of the reserved column and of the list.           *)

(* A row nobody reserved of, and a fresh one.                              *)
LEMMA NothingAgrees ==
  ASSUME NEW w \in Row, w.reserved >= 0, NEW again, w.reserved = 0
  PROVE  Agrees(w, <<>>, again)
BY TotalEmpty DEF Agrees, Once

(* An agreement stands when more orders count as repeated.                 *)
LEMMA AgreesStill ==
  ASSUME NEW w, NEW s, NEW a \in BOOLEAN, NEW b \in BOOLEAN, a => b, Agrees(w, s, a)
  PROVE  Agrees(w, s, b)
BY DEF Agrees

(* reserve adds a reservation and its units.                               *)
LEMMA ReserveResult ==
  ASSUME NEW inv \in Inventory, NEW c \in Command, c.op = "reserve", now \in Nat,
         NEW new \in Reserve(inv, c)
  PROVE  /\ new.row.reserved = inv.row.reserved + c.quantity
         /\ new.row.exists = inv.row.exists
         /\ \E v \in Reservation : /\ v.order = c.order /\ v.quantity = c.quantity
                                   /\ new.resv = Append(inv.resv, v)
<1>1. c.order \in Order /\ c.quantity \in Nat /\ c.timeout \in Nat
  BY BoundAssumption DEF Command
<1>2. new = Grant(inv, c)
  BY DEF Reserve
<1>3. PICK due \in Nat : due = now + c.timeout
  BY <1>1
<1>4. PICK v : v = [order |-> c.order, quantity |-> c.quantity, expiresAt |-> due]
  OBVIOUS
<1>5. v \in Reservation /\ v.order = c.order /\ v.quantity = c.quantity
  BY <1>1, <1>4 DEF Reservation
<1>6. PICK w \in Row : w = inv.row
  BY FieldsTyped
<1>7. PICK x : x = [w EXCEPT !.reserved = @ + c.quantity, !.available = @ - c.quantity]
  OBVIOUS
<1>8. new = [row |-> x, resv |-> Append(inv.resv, v)]
  BY <1>2, <1>3, <1>4, <1>6, <1>7 DEF Grant
<1>9. x.reserved = w.reserved + c.quantity /\ x.exists = w.exists
  <2>1. PICK t, a, r \in Int, e \in BOOLEAN :
          w = [total |-> t, available |-> a, reserved |-> r, exists |-> e]
    BY Columns
  <2>2. PICK q \in Nat : q = c.quantity
    BY <1>1
  <2>3. x = [total |-> t, available |-> a - q, reserved |-> r + q, exists |-> e]
    BY <1>7, <2>1, <2>2
  <2> QED
    BY <2>1, <2>2, <2>3
<1> QED
  BY <1>5, <1>6, <1>8, <1>9

(* release drops the order and takes one reservation's units back.          *)
LEMMA ReleaseResult ==
  ASSUME NEW inv \in Inventory, NEW o, NEW new \in Release(inv, o)
  PROVE  /\ new.resv = WithoutOrder(inv.resv, o)
         /\ new.row.exists = inv.row.exists
         /\ \E k \in DOMAIN inv.resv :
              /\ inv.resv[k].order = o
              /\ new.row.reserved = inv.row.reserved - inv.resv[k].quantity
<1>1. PICK k \in Found(inv, o) :
        new = [row |-> [inv.row EXCEPT !.reserved = @ - inv.resv[k].quantity,
                                       !.available = @ + inv.resv[k].quantity],
               resv |-> WithoutOrder(inv.resv, o)]
  BY DEF Release
<1>2. PICK w \in Row, s \in Seq(Reservation) : w = inv.row /\ s = inv.resv
  BY FieldsTyped
<1>3. PICK t, a, r \in Int, e \in BOOLEAN :
        w = [total |-> t, available |-> a, reserved |-> r, exists |-> e]
  BY Columns
<1>4. k \in DOMAIN s /\ s[k].order = o
  BY <1>2 DEF Found
<1>5. PICK q \in Nat : q = inv.resv[k].quantity
  BY <1>2, <1>4, Places
<1>6. PICK x : x = [w EXCEPT !.reserved = @ - q, !.available = @ + q]
  OBVIOUS
<1>7. x = [total |-> t, available |-> a + q, reserved |-> r - q, exists |-> e]
  BY <1>3, <1>6
<1>8. new.row = x /\ new.resv = WithoutOrder(inv.resv, o)
  BY <1>1, <1>2, <1>5, <1>6
<1> QED
  BY <1>2, <1>3, <1>4, <1>5, <1>7, <1>8

(* consume drops it and takes them out of the total.                       *)
LEMMA ConsumeResult ==
  ASSUME NEW inv \in Inventory, NEW o, NEW new \in Consume(inv, o)
  PROVE  /\ new.resv = WithoutOrder(inv.resv, o)
         /\ new.row.exists = inv.row.exists
         /\ \E k \in DOMAIN inv.resv :
              /\ inv.resv[k].order = o
              /\ new.row.reserved = inv.row.reserved - inv.resv[k].quantity
<1>1. PICK k \in Found(inv, o) :
        new = [row |-> [inv.row EXCEPT !.reserved = @ - inv.resv[k].quantity,
                                       !.total = @ - inv.resv[k].quantity],
               resv |-> WithoutOrder(inv.resv, o)]
  BY DEF Consume
<1>2. PICK w \in Row, s \in Seq(Reservation) : w = inv.row /\ s = inv.resv
  BY FieldsTyped
<1>3. PICK t, a, r \in Int, e \in BOOLEAN :
        w = [total |-> t, available |-> a, reserved |-> r, exists |-> e]
  BY Columns
<1>4. k \in DOMAIN s /\ s[k].order = o
  BY <1>2 DEF Found
<1>5. PICK q \in Nat : q = inv.resv[k].quantity
  BY <1>2, <1>4, Places
<1>6. PICK x : x = [w EXCEPT !.reserved = @ - q, !.total = @ - q]
  OBVIOUS
<1>7. x = [total |-> t - q, available |-> a, reserved |-> r - q, exists |-> e]
  BY <1>3, <1>6
<1>8. new.row = x /\ new.resv = WithoutOrder(inv.resv, o)
  BY <1>1, <1>2, <1>5, <1>6
<1> QED
  BY <1>2, <1>3, <1>4, <1>5, <1>7, <1>8

(* updateTotal leaves both alone.                                          *)
LEMMA UpdateResult ==
  ASSUME NEW inv \in Inventory, NEW n \in Nat, NEW new \in UpdateTotal(inv, n)
  PROVE  /\ new.row.reserved = inv.row.reserved /\ new.row.exists = inv.row.exists
         /\ new.resv = inv.resv
<1>1. PICK w \in Row, s \in Seq(Reservation) : inv = [row |-> w, resv |-> s]
  BY DEF Inventory
<1>2. PICK t, b, r \in Int, e \in BOOLEAN :
        w = [total |-> t, available |-> b, reserved |-> r, exists |-> e]
  BY Columns
<1>3. PICK a : a = (IF Shifted(inv, n) < 0 THEN 0 ELSE Shifted(inv, n))
  OBVIOUS
<1>4. new = [inv EXCEPT !.row.total = n, !.row.available = a]
  BY <1>3 DEF UpdateTotal
<1>5. new = [row |-> [w EXCEPT !.total = n, !.available = a], resv |-> s]
  BY <1>1, <1>4
<1>6. PICK x : x = [w EXCEPT !.total = n, !.available = a]
  OBVIOUS
<1>7. x = [total |-> n, available |-> a, reserved |-> r, exists |-> e]
  BY <1>2, <1>6
<1> QED
  BY <1>1, <1>2, <1>5, <1>6, <1>7

(* Dropping an order keeps the agreement.                                  *)
LEMMA ReleaseAgrees ==
  ASSUME NEW inv \in Inventory, NEW o, NEW new \in Release(inv, o) \cup Consume(inv, o),
         new \in Inventory, NEW again \in BOOLEAN, Agrees(inv.row, inv.resv, again)
  PROVE  Agrees(new.row, new.resv, again)
<1>1. PICK s \in Seq(Reservation), l \in Seq(Reservation), w \in Row, x \in Row :
        s = inv.resv /\ l = new.resv /\ w = inv.row /\ x = new.row
  BY FieldsTyped
<1>2. l = WithoutOrder(s, o) /\ x.exists = w.exists
  BY <1>1, ReleaseResult, ConsumeResult
<1>3. PICK k \in DOMAIN s : s[k].order = o /\ x.reserved = w.reserved - s[k].quantity
  BY <1>1, ReleaseResult, ConsumeResult
<1>4. /\ Total(s) >= Total(l) + s[k].quantity
      /\ Once(s) => Total(s) = Total(l) + s[k].quantity
      /\ Once(s) => Once(l)
  BY <1>2, <1>3, WithoutParts
<1>5. PICK q, m, n \in Nat, r, y \in Int :
        /\ q = s[k].quantity /\ m = Total(s) /\ n = Total(l) /\ r = w.reserved /\ y = x.reserved
  <2>1. w.reserved \in Int /\ x.reserved \in Int
    BY DEF Row
  <2> QED
    BY <2>1, Places, TotalIs
<1>6. r >= m /\ (again \/ (r = m /\ Once(s)))
  BY <1>1, <1>5 DEF Agrees
<1>7. y >= n /\ (again \/ (y = n /\ Once(l)))
  <2>1. m >= n + q /\ y = r - q
    BY <1>3, <1>4, <1>5
  <2>2. y >= n
    BY <1>6, <2>1
  <2>3. ASSUME ~again PROVE y = n /\ Once(l)
    <3>1. Once(s) /\ r = m
      BY <1>6, <2>3
    <3>2. m = n + q
      BY <1>4, <1>5, <3>1
    <3> QED
      BY <1>4, <2>1, <3>1, <3>2
  <2> QED
    BY <2>2, <2>3
<1>8. x.exists \/ l = <<>>
  <2>1. s # <<>>
    BY <1>3
  <2>2. w.exists
    BY <1>1, <2>1 DEF Agrees
  <2> QED
    BY <1>2, <2>2
<1> QED
  BY <1>1, <1>5, <1>7, <1>8 DEF Agrees

(* Whatever a handler does keeps it, when it marks the orders that repeat. *)
LEMMA OutcomeAgrees ==
  ASSUME NEW inv \in Inventory, NEW c \in Command, now \in Nat, NEW new \in Outcomes(c,
         inv),
         NEW a \in BOOLEAN, NEW b \in BOOLEAN, Agrees(inv.row, inv.resv, a),
         inv.row.exists,
         a => b, c.op = "reserve" /\ Found(inv, c.order) # {} => b
  PROVE  Agrees(new.row, new.resv, b)
<1>1. new \in Inventory
  BY OutcomeSensible
<1>2. Agrees(inv.row, inv.resv, b)
  BY AgreesStill
<1>3. CASE c.op = "reserve"
  <2>1. new \in Reserve(inv, c)
    BY <1>3 DEF Outcomes
  <2>2. PICK v \in Reservation : /\ v.order = c.order /\ v.quantity = c.quantity
                                 /\ new.resv = Append(inv.resv, v)
    BY <1>3, <2>1, ReserveResult
  <2>3. PICK s \in Seq(Reservation), l \in Seq(Reservation), w \in Row, x \in Row :
          s = inv.resv /\ l = new.resv /\ w = inv.row /\ x = new.row
    BY <1>1, FieldsTyped
  <2>4. x.reserved = w.reserved + c.quantity /\ x.exists = w.exists
    BY <1>3, <2>1, <2>3, ReserveResult
  <2>5. Total(l) = Total(s) + v.quantity
    BY <2>2, <2>3, TotalAppend
  <2>6. PICK q, m, n \in Nat, r, y \in Int :
          /\ q = v.quantity /\ m = Total(s) /\ n = Total(l) /\ r = w.reserved /\ y = x.reserved
    <3>1. w.reserved \in Int /\ x.reserved \in Int /\ v.quantity \in Nat
      BY DEF Row, Reservation
    <3> QED
      BY <3>1, TotalIs
  <2>7. ASSUME ~b PROVE Once(l)
    <3>1. Once(s) /\ \A k \in DOMAIN s : s[k].order # c.order
      BY <1>2, <1>3, <2>3, <2>7 DEF Agrees, Found
    <3>2. /\ DOMAIN l = 1 .. Len(s) + 1 /\ l[Len(s) + 1] = v
          /\ \A k \in 1 .. Len(s) : l[k] = s[k]
      BY <2>2, <2>3, AppendProperties
    <3>3. DOMAIN s = 1 .. Len(s) /\ Len(s) \in Nat
      BY Places
    <3> QED
      BY <2>2, <3>1, <3>2, <3>3 DEF Once
  <2>8. r >= m /\ (b \/ r = m)
    BY <1>2, <2>3, <2>6 DEF Agrees
  <2>9. y >= n /\ (b \/ y = n)
    <3>1. y = r + q /\ n = m + q
      BY <2>2, <2>4, <2>5, <2>6
    <3> QED
      BY <2>8, <3>1
  <2>10. x.exists
    BY <2>3, <2>4
  <2> QED
    BY <2>3, <2>6, <2>7, <2>9, <2>10 DEF Agrees
<1>4. CASE c.op \in {"release", "consume"}
  <2>1. new \in Release(inv, c.order) \cup Consume(inv, c.order)
    BY <1>4 DEF Outcomes
  <2> QED
    BY <1>1, <1>2, <2>1, ReleaseAgrees
<1>5. CASE c.op = "updateTotal"
  <2>1. PICK n \in Nat : n = c.quantity
    BY <1>5, BoundAssumption DEF Command
  <2>2. new \in UpdateTotal(inv, n)
    BY <1>5, <2>1 DEF Outcomes
  <2>3. /\ new.row.reserved = inv.row.reserved /\ new.row.exists = inv.row.exists
        /\ new.resv = inv.resv
    BY <2>2, UpdateResult
  <2> QED
    BY <1>2, <2>3 DEF Agrees
<1> QED
  BY <1>3, <1>4, <1>5 DEF Command

-----------------------------------------------------------------------------
(* Cron runs take each inventory once.                                     *)

(* A turn of one process concerns its own agenda.                          *)
LEMMA TurnApart ==
  ASSUME Agents, AllApart, NEW p \in Process, NEW s, NEW it, NEW c, NEW m, NEW b, NEW a,
         Turn(p, s, it, c, m, b, a), Apart(p, s, it, a)
  PROVE  AllApart'
<1> SUFFICES ASSUME NEW q \in Process PROVE Apart(q, pc'[q], item'[q], agenda'[q])
  BY DEF AllApart
<1>1. CASE q = p
  BY <1>1 DEF Agents, Turn
<1>2. CASE q # p
  BY <1>2 DEF Agents, Turn, AllApart
<1> QED
  BY <1>1, <1>2

(* Nothing is listed, nothing is loaded.                                   *)
LEMMA EmptyApart ==
  ASSUME NEW p, NEW s, NEW it, NEW a, a.todo = <<>>, a.loaded = <<>>
  PROVE  Apart(p, s, it, a)
BY DEF Apart, Different, Has

(* A process that returns or dies.                                         *)
LEMMA ForgetApart ==
  ASSUME Agents, AllApart, NEW p \in Process, Forget(p)
  PROVE  AllApart'
<1>1. Turn(p, "idle", NoItem, NoCommand, NoInventory, Absent, NoAgenda)
  BY DEF Forget, Turn
<1> QED
  BY <1>1, TurnApart, EmptyApart, Blanks

(* A cron run goes on with what it loaded.                                 *)
LEMMA NextGroupApart ==
  ASSUME Agents, AllApart, NEW j \in Process, NEW loaded \in Seq(Loaded), NextGroup(j,
         loaded),
         Different(loaded), j \in Request => loaded = <<>>
  PROVE  AllApart'
<1>1. CASE loaded = <<>>
  BY <1>1, ForgetApart DEF NextGroup, Finish
<1>2. CASE loaded # <<>>
  <2>1. PICK a : a = [todo |-> <<>>, loaded |-> Tail(loaded), orders |-> Head(loaded).orders]
    OBVIOUS
  <2>2. Turn(j, "release", Head(loaded).item, command[j], Head(loaded).mem, base[j], a)
    BY <1>2, <2>1, Unmoved DEF NextGroup, Turn
  <2>3. /\ 1 \in DOMAIN loaded /\ Head(loaded) = loaded[1]
        /\ \A k \in DOMAIN Tail(loaded) :
             k + 1 \in DOMAIN loaded /\ Tail(loaded)[k] = loaded[k + 1] /\ k \in Nat \ {0}
    <3>1. Tail(loaded) \in Seq(Loaded)
      BY <1>2, ListParts
    <3>2. DOMAIN Tail(loaded) = 1 .. Len(Tail(loaded)) /\ Len(Tail(loaded)) \in Nat
      BY <3>1, LenProperties
    <3> QED
      BY <1>2, <3>2, ListParts
  <2>4. Different(Tail(loaded))
    BY <2>3 DEF Different
  <2>5. ~Has(Tail(loaded), Head(loaded).item)
    BY <2>3 DEF Different, Has
  <2>6. a.todo = <<>> /\ a.loaded = Tail(loaded)
    BY <2>1
  <2>7. Apart(j, "release", Head(loaded).item, a)
    BY <1>2, <2>4, <2>5, <2>6 DEF Apart, Different
  <2> QED
    BY <2>2, <2>7, TurnApart
<1> QED
  BY <1>1, <1>2

(* A handler has no agenda.                                                *)
LEMMA HandlerApart ==
  ASSUME AllApart, NEW r \in Request, NEW s, NEW it
  PROVE  Apart(r, s, it, agenda[r])
<1>1. r \in Process
  BY DEF Process
<1>2. agenda[r].todo = <<>> /\ agenda[r].loaded = <<>>
  BY <1>1 DEF AllApart, Apart
<1> QED
  BY <1>2, EmptyApart

(* A working process that goes on with the same inventory and agenda.      *)
LEMMA WorkerApart ==
  ASSUME AllApart, NEW p \in Process, pc[p] \in Working, NEW s \in Working, NEW a,
         a.todo = agenda[p].todo, a.loaded = agenda[p].loaded
  PROVE  Apart(p, s, item[p], a)
<1>1. Apart(p, pc[p], item[p], agenda[p])
  BY DEF AllApart
<1>2. s # "idle"
  BY DEF Working, Saving
<1> QED
  BY <1>1, <1>2 DEF Apart

(* The load of one group: it is not among those loaded, nor listed again.  *)
LEMMA LoadedApart ==
  ASSUME NEW todo \in Seq(Group), todo # <<>>, NEW before \in Seq(Loaded),
         NEW entry \in Loaded,
         NEW loaded, loaded = Append(before, entry), entry.item = Head(todo).item,
         Different(todo), Different(before), \A k \in DOMAIN todo : ~Has(before, todo[k].item)
  PROVE  /\ Different(loaded) /\ Different(Tail(todo))
         /\ \A k \in DOMAIN Tail(todo) : ~Has(loaded, Tail(todo)[k].item)
<1>1. /\ 1 \in DOMAIN todo /\ Head(todo) = todo[1]
      /\ \A k \in DOMAIN Tail(todo) :
           k + 1 \in DOMAIN todo /\ Tail(todo)[k] = todo[k + 1] /\ k \in Nat \ {0}
  <2>1. Tail(todo) \in Seq(Group)
    BY ListParts
  <2>2. DOMAIN Tail(todo) = 1 .. Len(Tail(todo)) /\ Len(Tail(todo)) \in Nat
    BY <2>1, LenProperties
  <2> QED
    BY <2>2, ListParts
<1>2. PICK n \in Nat : /\ n = Len(before) /\ DOMAIN before = 1 .. n
                       /\ DOMAIN loaded = 1 .. n + 1 /\ loaded[n + 1] = entry
                       /\ \A k \in 1 .. n : loaded[k] = before[k]
  BY LenProperties, AppendProperties
<1>3. Different(Tail(todo))
  BY <1>1 DEF Different
<1>4. \A k \in 1 .. n : before[k].item # entry.item
  BY <1>1, <1>2 DEF Has
<1>5. Different(loaded)
  BY <1>2, <1>4 DEF Different
<1>6. ASSUME NEW k \in DOMAIN Tail(todo), Has(loaded, Tail(todo)[k].item) PROVE FALSE
  <2>1. Tail(todo)[k].item # entry.item
    BY <1>1 DEF Different
  <2>2. PICK l \in 1 .. n : before[l].item = Tail(todo)[k].item
    BY <1>2, <1>6, <2>1 DEF Has
  <2> QED
    BY <1>1, <1>2, <2>2 DEF Has
<1> QED
  BY <1>3, <1>5, <1>6

(* Each step keeps the runs in order.                                      *)
LEMMA SaveApart ==
  ASSUME IInv, AllApart, NEW p \in Process, Save(p)
  PROVE  AllApart'
<1>1. Agents
  BY DEF IInv
<1>2. {"select", "update", "deleteReservations", "insertReservations"} \subseteq Working
  BY DEF Working, Saving
<1>3. CASE SaveSelect(p)
  <2>1. Turn(p, "update", item[p], command[p], mem[p], row[item[p]], agenda[p])
    BY <1>1, <1>3, Unmoved DEF SaveSelect, GoTo, Turn
  <2> QED
    BY <1>1, <1>2, <1>3, <2>1, WorkerApart, TurnApart DEF SaveSelect
<1>4. CASE SaveUpdate(p)
  <2>1. Turn(p, "deleteReservations", item[p], command[p], mem[p], base[p], agenda[p])
    BY <1>1, <1>4, Unmoved DEF SaveUpdate, GoTo, Turn
  <2> QED
    BY <1>1, <1>2, <1>4, <2>1, WorkerApart, TurnApart DEF SaveUpdate
<1>5. CASE DeleteReservations(p)
  <2>1. Turn(p, "insertReservations", item[p], command[p], mem[p], base[p], agenda[p])
    BY <1>1, <1>5, Unmoved DEF DeleteReservations, GoTo, Turn
  <2> QED
    BY <1>1, <1>2, <1>5, <2>1, WorkerApart, TurnApart DEF DeleteReservations
<1>6. CASE InsertReservations(p)
  <2>1. PICK loaded \in Seq(Loaded) : loaded = agenda[p].loaded
    BY <1>1, MemoryTyped
  <2>2. NextGroup(p, loaded)
    BY <1>6, <2>1 DEF InsertReservations
  <2>3. Different(loaded) /\ (p \in Request => loaded = <<>>)
    BY <2>1 DEF AllApart, Apart
  <2> QED
    BY <1>1, <2>2, <2>3, NextGroupApart
<1> QED
  BY <1>3, <1>4, <1>5, <1>6 DEF Save

(* So do those of the job.                                                 *)
LEMMA CronApart ==
  ASSUME IInv, AllApart, NEW j \in Job, CronQuery(j) \/ CronStep(j)
  PROVE  AllApart'
<1>1. j \in Process /\ j \notin Request /\ Agents
  BY ProcessAssumption DEF Process, IInv
<1>2. Apart(j, pc[j], item[j], agenda[j])
  BY <1>1 DEF AllApart
<1>3. CASE CronQuery(j)
  <2>1. PICK a \in Agenda :
          /\ a.loaded = agenda[j].loaded
          /\ \A k, l \in DOMAIN a.todo : a.todo[k].item = a.todo[l].item => k = l
          /\ Turn(j, "cronRow", item[j], command[j], mem[j], base[j], a)
    BY <1>3, CronQueryTurn
  <2>2. a.loaded = <<>>
    BY <1>2, <1>3, <2>1 DEF CronQuery, Apart
  <2>3. Apart(j, "cronRow", item[j], a)
    BY <1>1, <2>1, <2>2 DEF Apart, Different, Has, Working, Saving
  <2> QED
    BY <1>1, <2>1, <2>3, TurnApart
<1>4. CASE CronRow(j)
  <2>1. PICK i, m : /\ i = Head(agenda[j].todo).item
                    /\ m = [row |-> row[i], resv |-> <<>>]
    OBVIOUS
  <2>2. Turn(j, "cronReservations", i, command[j], m, base[j], agenda[j])
    BY <1>1, <1>4, <2>1, Unmoved DEF CronRow, Turn
  <2>3. Apart(j, "cronReservations", i, agenda[j])
    BY <1>1, <1>2, <1>4 DEF CronRow, Apart, Working, Saving
  <2> QED
    BY <1>1, <2>2, <2>3, TurnApart
<1>5. CASE CronReservations(j)
  <2>1. PICK todo \in Seq(Group), entry \in Loaded, loaded \in Seq(Loaded) :
          /\ todo = agenda[j].todo /\ todo # <<>> /\ entry.item = Head(todo).item
          /\ loaded = Append(agenda[j].loaded, entry)
          /\ \/ NextGroup(j, loaded)
             \/ \E a \in Agenda : /\ a.todo = Tail(todo) /\ a.loaded = loaded
                                  /\ Turn(j, "cronRow", NoItem, command[j], mem[j], base[j], a)
    BY <1>5, CronReservationsTurn
  <2>2. PICK before \in Seq(Loaded) : before = agenda[j].loaded
    BY <1>1, MemoryTyped
  <2>3. /\ Different(todo) /\ Different(before) /\ loaded = Append(before, entry)
        /\ \A k \in DOMAIN todo : ~Has(before, todo[k].item)
    BY <1>2, <2>1, <2>2 DEF Apart
  <2>4. /\ Different(loaded) /\ Different(Tail(todo))
        /\ \A k \in DOMAIN Tail(todo) : ~Has(loaded, Tail(todo)[k].item)
    BY <2>1, <2>3, LoadedApart
  <2>5. CASE NextGroup(j, loaded)
    BY <1>1, <2>4, <2>5, NextGroupApart
  <2>6. ASSUME NEW a \in Agenda, a.todo = Tail(todo), a.loaded = loaded,
               Turn(j, "cronRow", NoItem, command[j], mem[j], base[j], a)
        PROVE  AllApart'
    <3>1. Apart(j, "cronRow", NoItem, a)
      BY <1>1, <2>4, <2>6 DEF Apart, Working, Saving
    <3> QED
      BY <1>1, <2>6, <3>1, TurnApart
  <2> QED
    BY <2>1, <2>5, <2>6
<1>6. CASE CronRelease(j)
  <2>1. pc[j] \in Working /\ "release" \in Working /\ "select" \in Working
    BY <1>6, CronReleaseTurn DEF Working, Saving
  <2>2. CASE Turn(j, "select", item[j], command[j], mem[j], base[j], agenda[j])
    BY <1>1, <2>1, <2>2, WorkerApart, TurnApart
  <2>3. CASE Forget(j)
    BY <1>1, <2>3, ForgetApart
  <2>4. ASSUME NEW new, NEW a \in Agenda, a.todo = agenda[j].todo, a.loaded = agenda[j].loaded,
               Turn(j, "release", item[j], command[j], new, base[j], a)
        PROVE  AllApart'
    BY <1>1, <2>1, <2>4, WorkerApart, TurnApart
  <2> QED
    BY <1>6, <2>2, <2>3, <2>4, CronReleaseTurn
<1> QED
  BY <1>1, <1>3, <1>4, <1>5, <1>6, SaveApart DEF CronStep

(* So does every step.                                                     *)
LEMMA ApartInductive ==
  ASSUME IInv, AllApart, [Next]_vars
  PROVE  AllApart'
<1>1. Agents /\ Request \subseteq Process
  BY DEF IInv, Process
<1>2. ASSUME NEW r \in Request, NEW i \in Item, NEW q \in 0 .. MaxStock, Create(r, i, q)
      PROVE  AllApart'
  <2>1. PICK m : m = [row |-> Fresh(q), resv |-> <<>>]
    OBVIOUS
  <2>2. Turn(r, "deleteReservations", i, command[r], m, base[r], agenda[r])
    BY <1>1, <1>2, <2>1, Unmoved DEF Create, Start, Turn
  <2> QED
    BY <1>1, <2>2, HandlerApart, TurnApart
<1>3. ASSUME NEW r \in Request, NEW i \in Item, NEW c \in Command, FindInventory(r, i, c)
      PROVE  AllApart'
  <2>1. PICK m : m = [row |-> row[i], resv |-> <<>>]
    OBVIOUS
  <2>2. Turn(r, "findReservations", i, c, m, base[r], agenda[r])
    BY <1>1, <1>3, <2>1, Unmoved DEF FindInventory, Start, Turn
  <2> QED
    BY <1>1, <2>2, HandlerApart, TurnApart
<1>4. ASSUME NEW r \in Request, RunCommand(r)
      PROVE  AllApart'
  <2>1. CASE Forget(r)
    BY <1>1, <2>1, ForgetApart
  <2>2. ASSUME NEW new, Turn(r, "select", item[r], command[r], new, base[r], agenda[r])
        PROVE  AllApart'
    BY <1>1, <2>2, HandlerApart, TurnApart
  <2> QED
    BY <1>4, <2>1, <2>2, RunCommandTurn
<1>5. ASSUME NEW p \in Process, Abort(p)
      PROVE  AllApart'
  BY <1>1, <1>5, ForgetApart DEF Abort
<1>6. CASE UNCHANGED process
  BY <1>6 DEF AllApart, process
<1> QED
  BY <1>1, <1>2, <1>3, <1>4, <1>5, <1>6, SaveApart, CronApart DEF Next, Proceed, Tick,
     vars

-----------------------------------------------------------------------------
(* The copies agree with the tables.                                       *)

(* What a copy is worth, it is worth when more orders count as repeated.   *)
LEMMA StageStill ==
  ASSUME NEW s, NEW m, NEW w, NEW l, NEW a \in BOOLEAN, NEW b \in BOOLEAN, a => b,
         Stage(s, m, w, l, a)
  PROVE  Stage(s, m, w, l, b)
<1>1. Agrees(m.row, m.resv, a) => Agrees(m.row, m.resv, b)
  BY AgreesStill
<1> QED
  BY <1>1 DEF Stage

(* Who holds an undisturbed inventory is the only one, and the only one    *)
(* who can be committing it.                                               *)
LEMMA HoldsAlone ==
  ASSUME IInv, NEW i \in Item, i \notin disturbed, NEW p \in Process, Holds(p, i)
  PROVE  /\ \A q \in Process : Holds(q, i) => q = p
         /\ \A q \in Process : Committing(q, i) => q = p
<1>1. OneHolder(i)
  BY DEF IInv, AllSound, Sound
<1> QED
  BY <1>1 DEF OneHolder, Committing, Holds

(* The table agrees with the row unless its holder is committing.          *)
LEMMA TableAgrees ==
  ASSUME IInv, NEW i \in Item, i \notin disturbed, Kept(i),
         NEW p \in Process, Holds(p, i), ~Committing(p, i)
  PROVE  Agrees(row[i], resv[i], i \in repeated)
BY HoldsAlone DEF Kept

(* The inventory i stays kept when p alone moves: it changes the tables of *)
(* i only when no other process holds it, what it then has of i is worth   *)
(* its step, and the tables agree when it is not committing.               *)
LEMMA TurnKept ==
  ASSUME IInv, NEW p \in Process, NEW i \in Item, Kept(i),
         NEW s, NEW it, NEW c, NEW m, NEW b, NEW a, Turn(p, s, it, c, m, b, a),
         i \in repeated => i \in repeated',
         \/ row'[i] = row[i] /\ resv'[i] = resv[i]
         \/ \A q \in Process : Holds(q, i) => q = p,
         it = i => Stage(s, m, row'[i], resv'[i], i \in repeated'),
         Entries(a.loaded, i, row'[i], resv'[i]),
         \/ row'[i] = row[i] /\ resv'[i] = resv[i] /\ ~Committing(p, i)
         \/ it = i /\ s \in Commit
         \/ Agrees(row'[i], resv'[i], i \in repeated')
  PROVE  Kept(i)'
<1>1. /\ pc'[p] = s /\ item'[p] = it /\ mem'[p] = m /\ agenda'[p] = a
      /\ \A q \in Process : q # p =>
           pc'[q] = pc[q] /\ item'[q] = item[q] /\ mem'[q] = mem[q] /\ agenda'[q] = agenda[q]
  BY DEF IInv, Agents, Turn
<1> DEFINE x == i \in repeated
           y == i \in repeated'
<1>2. x \in BOOLEAN /\ y \in BOOLEAN /\ (x => y)
  OBVIOUS
<1>3. ASSUME NEW q \in Process PROVE Trusted(q, i)'
  <2>1. CASE q = p
    BY <1>1, <2>1 DEF Trusted
  <2>2. CASE q # p
    <3>1. Trusted(q, i)
      BY DEF Kept
    <3>2. CASE row'[i] = row[i] /\ resv'[i] = resv[i]
      <4>1. ASSUME item'[q] = i PROVE Stage(pc'[q], mem'[q], row'[i], resv'[i], y)
        <5>1. Stage(pc'[q], mem'[q], row'[i], resv'[i], x)
          BY <1>1, <2>2, <3>1, <3>2, <4>1 DEF Trusted
        <5> HIDE DEF x, y
        <5> QED
          BY <1>2, <5>1, StageStill
      <4>2. Entries(agenda'[q].loaded, i, row'[i], resv'[i])
        BY <1>1, <2>2, <3>1, <3>2 DEF Trusted
      <4> QED
        BY <4>1, <4>2 DEF Trusted
    <3>3. CASE \A o \in Process : Holds(o, i) => o = p
      <4>1. item[q] # i /\ \A k \in DOMAIN agenda[q].loaded : agenda[q].loaded[k].item # i
        BY <2>2, <3>3 DEF Holds
      <4>2. Entries(agenda'[q].loaded, i, row'[i], resv'[i])
        BY <1>1, <2>2, <4>1 DEF Entries
      <4> QED
        BY <1>1, <2>2, <4>1, <4>2 DEF Trusted
    <3> QED
      BY <3>2, <3>3
  <2> QED
    BY <2>1, <2>2
<1>4. ASSUME \A q \in Process : ~Committing(q, i)'
      PROVE  Agrees(row'[i], resv'[i], i \in repeated')
  <2>1. ~(it = i /\ s \in Commit)
    BY <1>1, <1>4 DEF Committing, Commit
  <2>2. CASE row'[i] = row[i] /\ resv'[i] = resv[i] /\ ~Committing(p, i)
    <3>1. \A q \in Process : q # p => ~Committing(q, i)
      BY <1>1, <1>4 DEF Committing
    <3>2. Agrees(row'[i], resv'[i], x)
      BY <2>2, <3>1 DEF Kept
    <3>3. Agrees(row'[i], resv'[i], y)
      <4> HIDE DEF x, y
      <4> QED
        BY <1>2, <3>2, AgreesStill
    <3> QED
      BY <3>3
  <2> QED
    BY <2>1, <2>2
<1> QED
  BY <1>3, <1>4 DEF Kept

(* It stays kept when p moves elsewhere.                                   *)
LEMMA TurnAwayKept ==
  ASSUME IInv, NEW p \in Process, NEW i \in Item, Kept(i),
         NEW s, NEW it, NEW c, NEW m, NEW b, NEW a, Turn(p, s, it, c, m, b, a),
         it # i, ~Committing(p, i), a.loaded = agenda[p].loaded,
         i \in repeated => i \in repeated', row'[i] = row[i], resv'[i] = resv[i]
  PROVE  Kept(i)'
<1>1. Entries(a.loaded, i, row'[i], resv'[i])
  BY DEF Kept, Trusted
<1> QED
  BY <1>1, TurnKept

(* When p returns, throws or dies before it writes.                        *)
LEMMA ForgetKept ==
  ASSUME IInv, NEW p \in Process, NEW i \in Item, Kept(i), Forget(p), ~Committing(p, i),
         repeated' = repeated, row' = row, resv' = resv
  PROVE  Kept(i)'
<1>1. Turn(p, "idle", NoItem, NoCommand, NoInventory, Absent, NoAgenda)
  BY DEF Forget, Turn
<1>2. Entries(NoAgenda.loaded, i, row'[i], resv'[i]) /\ NoItem # i
  BY Blanks DEF Entries
<1> QED
  BY <1>1, <1>2, TurnKept

(* When a cron run goes on with what it loaded.                            *)
LEMMA NextGroupKept ==
  ASSUME IInv, NEW j \in Process, NEW i \in Item, i \notin disturbed, Kept(i),
         NEW loaded \in Seq(Loaded), NextGroup(j, loaded), row' = row,
         repeated' = repeated,
         Entries(loaded, i, row[i], resv'[i]),
         \/ Committing(j, i) /\ ~Has(loaded, i) /\ Agrees(row[i], resv'[i], i \in repeated)
         \/ /\ resv'[i] = resv[i] /\ ~Committing(j, i)
            /\ Has(loaded, i) => Holds(j, i)
  PROVE  Kept(i)'
<1>1. Holds(j, i) => \A q \in Process : Holds(q, i) => q = j
  BY HoldsAlone
<1>2. Committing(j, i) => Holds(j, i)
  BY DEF Committing, Holds
<1>3. CASE loaded = <<>>
  <2>1. Turn(j, "idle", NoItem, NoCommand, NoInventory, Absent, NoAgenda)
    BY <1>3 DEF NextGroup, Finish, Forget, Turn
  <2>2. Entries(NoAgenda.loaded, i, row'[i], resv'[i]) /\ NoItem # i
    BY Blanks DEF Entries
  <2> QED
    BY <1>1, <1>2, <2>1, <2>2, TurnKept
<1>4. CASE loaded # <<>>
  <2>1. PICK a : a = [todo |-> <<>>, loaded |-> Tail(loaded), orders |-> Head(loaded).orders]
    OBVIOUS
  <2>2. Turn(j, "release", Head(loaded).item, command[j], Head(loaded).mem, base[j], a)
    BY <1>4, <2>1, Unmoved DEF IInv, NextGroup, Turn
  <2>3. a.loaded = Tail(loaded)
    BY <2>1
  <2>4. Entries(a.loaded, i, row'[i], resv'[i])
    BY <1>4, <2>3, ListParts DEF Entries
  <2>5. Head(loaded).item = i =>
          Stage("release", Head(loaded).mem, row'[i], resv'[i], i \in repeated')
    <3> SUFFICES ASSUME Head(loaded).item = i
                 PROVE  Stage("release", Head(loaded).mem, row'[i], resv'[i], i \in repeated')
      OBVIOUS
    <3>1. Has(loaded, i)
      BY <1>4, HeadSane
    <3>2. Agrees(row[i], resv[i], i \in repeated) /\ resv'[i] = resv[i]
      BY <3>1, TableAgrees
    <3>3. Head(loaded).mem.row = row[i] /\ Head(loaded).mem.resv = resv[i]
      BY <1>4, <3>2, ListParts DEF Entries
    <3> QED
      BY <3>2, <3>3 DEF Stage, Commit
  <2> QED
    BY <1>1, <1>2, <2>2, <2>4, <2>5, TurnKept
<1> QED
  BY <1>3, <1>4

(* POST /inventory: what did not exist has no reservations.                *)
LEMMA CreateKept ==
  ASSUME IInv, AllKept, NEW r \in Request, NEW i \in Item, NEW q \in 0 .. MaxStock,
         Create(r, i, q), NEW x \in Item, x \notin disturbed'
  PROVE  Kept(x)'
<1>1. r \in Process /\ pc[r] = "idle"
  BY DEF Process, Create, Start
<1>2. x \notin disturbed /\ Kept(x) /\ (x = i => \A p \in Process : ~Holds(p, x))
  BY Disturbs DEF IInv, AllKept, Create, Start
<1>3. PICK w \in Row : w = Fresh(q) /\ w.reserved = 0 /\ w.exists
  <2>1. q \in Nat
    BY BoundAssumption
  <2>2. PICK w : w = [total |-> q, available |-> q, reserved |-> 0, exists |-> TRUE]
    OBVIOUS
  <2>3. w \in Row
    BY <2>1, <2>2 DEF Row
  <2>4. w.reserved = 0 /\ w.exists
    BY <2>2
  <2> QED
    BY <2>2, <2>3, <2>4 DEF Fresh
<1>4. PICK m \in Inventory : m = [row |-> w, resv |-> <<>>]
  BY Bare
<1>5. Turn(r, "deleteReservations", i, command[r], m, base[r], agenda[r])
  BY <1>1, <1>3, <1>4, Unmoved DEF IInv, Create, Start, Turn
<1>6. /\ row'[i] = w /\ (x # i => row'[x] = row[x]) /\ resv' = resv /\ repeated' = repeated
      /\ ~row[i].exists
  BY <1>3 DEF IInv, Tables, Create, Start
<1>7. ~Committing(r, x) /\ Entries(agenda[r].loaded, x, row[x], resv[x])
  BY <1>1, <1>2 DEF Committing, Kept, Trusted
<1>8. CASE x # i
  BY <1>1, <1>2, <1>5, <1>6, <1>7, <1>8, TurnAwayKept
<1>9. CASE x = i
  <2>1. Agrees(row[i], resv[i], i \in repeated)
    BY <1>2, <1>9 DEF Kept, Committing, Holds
  <2>2. resv'[i] = <<>>
    BY <1>6, <2>1 DEF Agrees
  <2>3. Agrees(w, <<>>, i \in repeated')
    BY <1>3, NothingAgrees
  <2>4. Stage("deleteReservations", m, row'[i], resv'[i], i \in repeated')
    BY <1>4, <1>6, <2>2, <2>3 DEF Stage, Once
  <2>5. Entries(agenda[r].loaded, i, row'[i], resv'[i])
    BY <1>1, <1>2, <1>9 DEF Entries, Holds
  <2> QED
    BY <1>1, <1>2, <1>5, <1>6, <1>9, <2>4, <2>5, TurnKept DEF Commit
<1> QED
  BY <1>8, <1>9

(* The row query of a handler.                                             *)
LEMMA FindInventoryKept ==
  ASSUME IInv, AllKept, NEW r \in Request, NEW i \in Item, NEW c \in Command,
         FindInventory(r, i, c), NEW x \in Item, x \notin disturbed'
  PROVE  Kept(x)'
<1>1. r \in Process /\ pc[r] = "idle"
  BY DEF Process, FindInventory, Start
<1>2. x \notin disturbed /\ Kept(x)
  BY Disturbs DEF IInv, AllKept, FindInventory, Start
<1>3. PICK m : m = [row |-> row[i], resv |-> <<>>]
  OBVIOUS
<1>4. Turn(r, "findReservations", i, c, m, base[r], agenda[r])
  BY <1>1, <1>3, Unmoved DEF IInv, FindInventory, Start, Turn
<1>5. row' = row /\ resv' = resv /\ repeated' = repeated /\ row[i].exists
  BY DEF FindInventory, Start, tables
<1>6. ~Committing(r, x) /\ Entries(agenda[r].loaded, x, row'[x], resv'[x])
  BY <1>1, <1>2, <1>5 DEF Committing, Kept, Trusted
<1>7. Stage("findReservations", m, row'[i], resv'[i], i \in repeated')
  BY <1>3, <1>5 DEF Stage, Working, Saving, Commit
<1> QED
  BY <1>1, <1>2, <1>4, <1>5, <1>6, <1>7, TurnKept

(* The row query of the cron job.                                          *)
LEMMA CronRowKept ==
  ASSUME IInv, AllKept, NEW j \in Job, CronRow(j), NEW x \in Item, x \notin disturbed'
  PROVE  Kept(x)'
<1>1. j \in Process /\ pc[j] = "cronRow"
  BY DEF Process, CronRow
<1>2. PICK i \in Item : i = Head(agenda[j].todo).item
  <2>1. agenda[j].todo \in Seq(Group) /\ agenda[j].todo # <<>>
    BY <1>1, MemoryTyped DEF IInv, Ready
  <2>2. Head(agenda[j].todo) \in Group
    BY <2>1, ListParts
  <2> QED
    BY <2>2 DEF Group
<1>3. x \notin disturbed /\ Kept(x)
  BY <1>2, Disturbs DEF IInv, AllKept, CronRow
<1>4. PICK m : m = [row |-> row[i], resv |-> <<>>]
  OBVIOUS
<1>5. Turn(j, "cronReservations", i, command[j], m, base[j], agenda[j])
  BY <1>1, <1>2, <1>4, Unmoved DEF IInv, CronRow, Turn
<1>6. row' = row /\ resv' = resv /\ repeated' = repeated
  BY DEF CronRow, tables
<1>7. ~Committing(j, x) /\ Entries(agenda[j].loaded, x, row'[x], resv'[x])
  BY <1>1, <1>3, <1>6 DEF Committing, Kept, Trusted
<1>8. Stage("cronReservations", m, row'[i], resv'[i], i \in repeated')
  BY <1>4, <1>6 DEF Stage, Working, Saving, Commit
<1> QED
  BY <1>1, <1>3, <1>5, <1>6, <1>7, <1>8, TurnKept

(* The query for what is due loads nothing.                                *)
LEMMA CronQueryKept ==
  ASSUME IInv, AllKept, NEW j \in Job, CronQuery(j), NEW x \in Item, x \notin disturbed'
  PROVE  Kept(x)'
<1>1. j \in Process /\ pc[j] = "idle"
  BY DEF Process, CronQuery
<1>2. PICK a \in Agenda : /\ a.loaded = agenda[j].loaded
                          /\ Turn(j, "cronRow", item[j], command[j], mem[j], base[j], a)
  BY CronQueryTurn
<1>3. row' = row /\ resv' = resv /\ repeated' = repeated /\ disturbed' = disturbed
  BY DEF CronQuery, tables, history
<1>4. x \notin disturbed /\ Kept(x)
  BY <1>3 DEF AllKept
<1>5. ~Committing(j, x) /\ Entries(a.loaded, x, row'[x], resv'[x])
  BY <1>1, <1>2, <1>3, <1>4 DEF Committing, Kept, Trusted
<1>6. Stage("cronRow", mem[j], row'[x], resv'[x], x \in repeated')
  BY DEF Stage, Working, Saving, Commit
<1> QED
  BY <1>1, <1>2, <1>3, <1>4, <1>5, <1>6, TurnKept

(* The domain method keeps column and list in agreement.                   *)
LEMMA RunCommandKept ==
  ASSUME IInv, AllKept, NEW r \in Request, RunCommand(r), NEW x \in Item,
         x \notin disturbed'
  PROVE  Kept(x)'
<1>1. r \in Process
  BY DEF Process
<1>2. PICK i \in Item, c \in Command : i = item[r] /\ c = command[r]
  BY RunCommandTurn
<1>3. /\ row' = row /\ resv' = resv /\ disturbed' = disturbed /\ pc[r] = "findReservations"
      /\ now \in Nat
  BY RunCommandTurn DEF IInv, Tables
<1>4. x \notin disturbed /\ Kept(x)
  BY <1>3 DEF AllKept
<1>5. ~Committing(r, x) /\ Entries(agenda[r].loaded, x, row'[x], resv'[x])
  BY <1>1, <1>3, <1>4 DEF Committing, Kept, Trusted
<1>6. CASE Forget(r) /\ UNCHANGED <<events, repeated, clamped>>
  BY <1>1, <1>3, <1>4, <1>5, <1>6, ForgetKept
<1>7. ASSUME NEW inv \in Inventory, NEW new \in Outcomes(c, inv),
             inv.row = mem[r].row, inv.resv = resv[i],
             Turn(r, "select", i, c, new, base[r], agenda[r]),
             repeated' = IF c.op = "reserve" /\ (Found(inv, c.order) # {} \/ Listed(i, c.order))
                         THEN repeated \cup {i} ELSE repeated
      PROVE  Kept(x)'
  <2>1. CASE x # i
    BY <1>1, <1>3, <1>4, <1>5, <1>7, <2>1, TurnAwayKept
  <2>2. CASE x = i
    <3>1. Holds(r, i)
      BY <1>2 DEF Holds
    <3>2. Agrees(row[i], resv[i], i \in repeated)
      BY <1>1, <1>4, <1>5, <2>2, <3>1, TableAgrees
    <3>3. inv.row = row[i] /\ inv.row.exists
      BY <1>1, <1>2, <1>3, <1>4, <1>7, <2>2 DEF Kept, Trusted, Stage
    <3> DEFINE b == i \in repeated
               d == i \in repeated'
    <3>4. b \in BOOLEAN /\ d \in BOOLEAN
      OBVIOUS
    <3>5. /\ b => d
          /\ c.op = "reserve" /\ Found(inv, c.order) # {} => d
      BY <1>7, <3>4
    <3>6. Agrees(inv.row, inv.resv, b)
      BY <1>7, <3>2, <3>3, <3>4
    <3>7. Agrees(new.row, new.resv, d)
      <4> HIDE DEF b, d
      <4> QED
        BY <1>3, <1>7, <3>3, <3>4, <3>5, <3>6, OutcomeAgrees
    <3>8. Stage("select", new, row'[i], resv'[i], i \in repeated')
      BY <3>4, <3>7 DEF Stage, Commit
    <3> QED
      BY <1>1, <1>3, <1>4, <1>5, <1>7, <2>2, <3>4, <3>5, <3>8, TurnKept
  <2> QED
    BY <2>1, <2>2
<1> QED
  BY <1>2, <1>6, <1>7, RunCommandTurn

(* The select of save.                                                     *)
LEMMA SaveSelectKept ==
  ASSUME IInv, AllKept, NEW p \in Process, SaveSelect(p), NEW x \in Item,
         x \notin disturbed'
  PROVE  Kept(x)'
<1>1. Turn(p, "update", item[p], command[p], mem[p], row[item[p]], agenda[p])
  BY Unmoved DEF IInv, SaveSelect, GoTo, Turn
<1>2. row' = row /\ resv' = resv /\ repeated' = repeated /\ disturbed' = disturbed /\ pc[p] = "select"
  BY DEF SaveSelect, tables, history
<1>3. Kept(x)
  BY <1>2 DEF AllKept
<1>4. ~Committing(p, x) /\ Entries(agenda[p].loaded, x, row'[x], resv'[x])
  BY <1>2, <1>3 DEF Committing, Kept, Trusted
<1>5. item[p] = x => Stage("update", mem[p], row'[x], resv'[x], x \in repeated')
  BY <1>2, <1>3 DEF Kept, Trusted, Stage, Working, Saving, Commit
<1> QED
  BY <1>1, <1>2, <1>3, <1>4, <1>5, TurnKept

(* The update of save: the row is the copy's.                              *)
LEMMA SaveUpdateKept ==
  ASSUME IInv, AllKept, NEW p \in Process, SaveUpdate(p), NEW x \in Item,
         x \notin disturbed'
  PROVE  Kept(x)'
<1>1. Turn(p, "deleteReservations", item[p], command[p], mem[p], base[p], agenda[p])
  BY Unmoved DEF IInv, SaveUpdate, GoTo, Turn
<1>2. /\ resv' = resv /\ repeated' = repeated /\ disturbed' = disturbed /\ pc[p] = "update"
      /\ row' = [row EXCEPT ![item[p]] = ChangedColumns(mem[p].row, base[p], @)]
  BY DEF SaveUpdate, history
<1>3. x \notin disturbed /\ Kept(x)
  BY <1>2 DEF AllKept
<1>4. ~Committing(p, x) /\ Entries(agenda[p].loaded, x, row[x], resv'[x])
  BY <1>2, <1>3 DEF Committing, Kept, Trusted
<1>5. CASE x # item[p]
  <2>1. row'[x] = row[x]
    BY <1>2, <1>5 DEF IInv, Tables
  <2> QED
    BY <1>1, <1>2, <1>3, <1>4, <1>5, <2>1, TurnAwayKept
<1>6. CASE x = item[p]
  <2>1. base[p] = row[x]
    BY <1>2, <1>3, <1>6 DEF IInv, AllSound, Sound, Carries
  <2>2. row'[x] = mem[p].row
    <3>1. row[x] \in Row /\ mem[p].row \in Row
      BY MemoryTyped DEF IInv, Tables
    <3>2. ChangedColumns(mem[p].row, base[p], row[x]) = mem[p].row
      BY <2>1, <3>1, ColumnsWritten
    <3> QED
      BY <1>2, <1>6, <3>2 DEF IInv, Tables
  <2>3. Holds(p, x)
    BY <1>6 DEF Holds
  <2>4. Agrees(row[x], resv[x], x \in repeated)
    BY <1>3, <1>4, <2>3, TableAgrees
  <2>5. Stage("update", mem[p], row[x], resv[x], x \in repeated)
    BY <1>2, <1>3, <1>6 DEF Kept, Trusted
  <2>6. Stage("deleteReservations", mem[p], row'[x], resv'[x], x \in repeated')
    BY <1>2, <2>2, <2>4, <2>5 DEF Stage, Working, Saving, Commit, Agrees
  <2>7. Entries(agenda[p].loaded, x, row'[x], resv'[x])
    <3>1. ~Has(agenda[p].loaded, x)
      BY <1>2, <1>6 DEF AllKept, AllApart, Apart, Working, Saving
    <3> QED
      BY <3>1 DEF Entries, Has
  <2>8. \A q \in Process : Holds(q, x) => q = p
    BY <1>3, <2>3, HoldsAlone
  <2> QED
    BY <1>1, <1>2, <1>3, <1>6, <2>6, <2>7, <2>8, TurnKept DEF Commit
<1> QED
  BY <1>5, <1>6

(* The delete of save: the list is in memory only.                         *)
LEMMA DeleteReservationsKept ==
  ASSUME IInv, AllKept, NEW p \in Process, DeleteReservations(p), NEW x \in Item,
         x \notin disturbed'
  PROVE  Kept(x)'
<1>1. Turn(p, "insertReservations", item[p], command[p], mem[p], base[p], agenda[p])
  BY Unmoved DEF IInv, DeleteReservations, GoTo, Turn
<1>2. /\ row' = row /\ repeated' = repeated /\ disturbed' = disturbed
      /\ pc[p] = "deleteReservations" /\ resv' = [resv EXCEPT ![item[p]] = <<>>]
  BY DEF DeleteReservations, history
<1>3. x \notin disturbed /\ Kept(x)
  BY <1>2 DEF AllKept
<1>4. Entries(agenda[p].loaded, x, row[x], resv[x])
  BY <1>3 DEF Kept, Trusted
<1>5. CASE x # item[p]
  <2>1. resv'[x] = resv[x] /\ ~Committing(p, x)
    BY <1>2, <1>5 DEF IInv, Tables, Committing
  <2> QED
    BY <1>1, <1>2, <1>3, <1>5, <2>1, TurnAwayKept
<1>6. CASE x = item[p]
  <2>1. resv'[x] = <<>>
    BY <1>2, <1>6 DEF IInv, Tables
  <2>2. Stage("deleteReservations", mem[p], row[x], resv[x], x \in repeated)
    BY <1>2, <1>3, <1>6 DEF Kept, Trusted
  <2>3. Stage("insertReservations", mem[p], row'[x], resv'[x], x \in repeated')
    BY <1>2, <2>1, <2>2 DEF Stage, Working, Saving, Commit
  <2>4. Entries(agenda[p].loaded, x, row'[x], resv'[x])
    <3>1. ~Has(agenda[p].loaded, x)
      BY <1>2, <1>6 DEF AllKept, AllApart, Apart, Working, Saving
    <3> QED
      BY <3>1 DEF Entries, Has
  <2>5. \A q \in Process : Holds(q, x) => q = p
    <3>1. Holds(p, x)
      BY <1>6 DEF Holds
    <3> QED
      BY <1>3, <3>1, HoldsAlone
  <2> QED
    BY <1>1, <1>2, <1>3, <1>6, <2>3, <2>4, <2>5, TurnKept DEF Commit
<1> QED
  BY <1>5, <1>6

(* What the insert of save leaves: the list it had in memory.              *)
LEMMA ListReturns ==
  ASSUME IInv, NEW p \in Process, NEW x \in Item, x = item[p], Kept(x),
         pc[p] = "insertReservations", resv' = [resv EXCEPT ![item[p]] = @ \o mem[p].resv]
  PROVE  resv'[x] = mem[p].resv
<1>1. resv[x] = <<>>
  BY DEF Kept, Trusted, Stage
<1>2. mem[p].resv \in Seq(Reservation)
  BY MemoryTyped DEF IInv
<1>3. <<>> \o mem[p].resv = mem[p].resv
  BY <1>2, ConcatEmptySeq
<1>4. resv'[x] = resv[x] \o mem[p].resv
  BY DEF IInv, Tables
<1> QED
  BY <1>1, <1>3, <1>4

(* The insert of save: the list is in the table again.                     *)
LEMMA InsertReservationsKept ==
  ASSUME IInv, AllKept, NEW p \in Process, InsertReservations(p), NEW x \in Item,
         x \notin disturbed'
  PROVE  Kept(x)'
<1>1. PICK loaded \in Seq(Loaded) : loaded = agenda[p].loaded /\ NextGroup(p, loaded)
  BY MemoryTyped DEF IInv, InsertReservations
<1>2. /\ row' = row /\ repeated' = repeated /\ disturbed' = disturbed
      /\ pc[p] = "insertReservations" /\ resv' = [resv EXCEPT ![item[p]] = @ \o mem[p].resv]
  BY DEF InsertReservations, history
<1>3. x \notin disturbed /\ Kept(x)
  BY <1>2 DEF AllKept
<1>4. Entries(loaded, x, row[x], resv[x]) /\ (Has(loaded, x) => Holds(p, x))
  BY <1>1, <1>3 DEF Kept, Trusted, Has, Holds
<1>5. CASE x # item[p]
  <2>1. resv'[x] = resv[x] /\ ~Committing(p, x)
    BY <1>2, <1>5 DEF IInv, Tables, Committing
  <2> QED
    BY <1>1, <1>2, <1>3, <1>4, <2>1, NextGroupKept
<1>6. CASE x = item[p]
  <2>1. Stage("insertReservations", mem[p], row[x], resv[x], x \in repeated)
    BY <1>2, <1>3, <1>6 DEF Kept, Trusted
  <2>2. Agrees(mem[p].row, mem[p].resv, x \in repeated) /\ mem[p].row = row[x]
    BY <2>1 DEF Stage, Working, Saving, Commit
  <2>3. resv'[x] = mem[p].resv
    BY <1>2, <1>3, <1>6, ListReturns
  <2>4. ~Has(loaded, x)
    BY <1>1, <1>2, <1>6 DEF AllKept, AllApart, Apart, Working, Saving
  <2>5. Entries(loaded, x, row[x], resv'[x]) /\ Committing(p, x)
    BY <1>2, <1>6, <2>4 DEF Entries, Has, Committing
  <2> QED
    BY <1>1, <1>2, <1>3, <2>2, <2>3, <2>4, <2>5, NextGroupKept
<1> QED
  BY <1>5, <1>6

(* The copy of a loaded group is the row and the list.                     *)
LEMMA CronReservationsKept ==
  ASSUME IInv, AllKept, NEW j \in Job, CronReservations(j), NEW x \in Item,
         x \notin disturbed'
  PROVE  Kept(x)'
<1>1. j \in Process /\ pc[j] = "cronReservations"
  BY DEF Process, CronReservations
<1>2. row' = row /\ resv' = resv /\ repeated' = repeated /\ disturbed' = disturbed
  BY DEF CronReservations, tables, history
<1>3. x \notin disturbed /\ Kept(x) /\ ~Committing(j, x)
  BY <1>1, <1>2 DEF AllKept, Committing
<1>4. PICK todo \in Seq(Group), entry \in Loaded, loaded \in Seq(Loaded) :
        /\ entry.item = item[j]
        /\ entry.mem.row = mem[j].row /\ entry.mem.resv = resv[item[j]]
        /\ loaded = Append(agenda[j].loaded, entry)
        /\ \/ NextGroup(j, loaded)
           \/ \E a \in Agenda : /\ a.todo = Tail(todo) /\ a.loaded = loaded
                                /\ Turn(j, "cronRow", NoItem, command[j], mem[j], base[j], a)
  BY CronReservationsTurn
<1>5. PICK before \in Seq(Loaded) : before = agenda[j].loaded
  BY <1>1, MemoryTyped DEF IInv
<1>6. \A k \in DOMAIN loaded : loaded[k] = entry \/ (k \in DOMAIN before /\ loaded[k] = before[k])
  BY <1>4, <1>5, ListParts
<1>7. Entries(before, x, row[x], resv[x])
  BY <1>1, <1>3, <1>5 DEF Kept, Trusted
<1>8. item[j] = x => mem[j].row = row[x]
  BY <1>1, <1>3 DEF Kept, Trusted, Stage
<1>9. Entries(loaded, x, row[x], resv'[x])
  BY <1>2, <1>4, <1>6, <1>7, <1>8 DEF Entries
<1>10. Has(loaded, x) => Holds(j, x)
  BY <1>4, <1>5, <1>6 DEF Has, Holds
<1>11. CASE NextGroup(j, loaded)
  BY <1>1, <1>2, <1>3, <1>9, <1>10, <1>11, NextGroupKept
<1>12. ASSUME NEW a \in Agenda, a.loaded = loaded,
              Turn(j, "cronRow", NoItem, command[j], mem[j], base[j], a)
       PROVE  Kept(x)'
  <2>1. NoItem # x
    BY ProcessAssumption
  <2> QED
    BY <1>1, <1>2, <1>3, <1>9, <1>12, <2>1, TurnKept
<1> QED
  BY <1>4, <1>11, <1>12

(* A release keeps the copy in agreement.                                  *)
LEMMA CronReleaseKept ==
  ASSUME IInv, AllKept, NEW j \in Job, CronRelease(j), NEW x \in Item, x \notin disturbed'
  PROVE  Kept(x)'
<1>1. j \in Process
  BY DEF Process
<1>2. row' = row /\ resv' = resv /\ repeated' = repeated /\ disturbed' = disturbed
  BY DEF CronRelease, tables, history
<1>3. pc[j] = "release" /\ x \notin disturbed /\ Kept(x) /\ ~Committing(j, x)
  BY <1>2, CronReleaseTurn DEF AllKept, Committing
<1>4. Entries(agenda[j].loaded, x, row'[x], resv'[x])
  BY <1>1, <1>2, <1>3 DEF Kept, Trusted
<1>5. item[j] = x => Agrees(mem[j].row, mem[j].resv, x \in repeated)
  BY <1>1, <1>3 DEF Kept, Trusted, Stage, Working
<1>6. CASE Turn(j, "select", item[j], command[j], mem[j], base[j], agenda[j])
  <2>1. item[j] = x => Stage("select", mem[j], row'[x], resv'[x], x \in repeated')
    BY <1>2, <1>5 DEF Stage, Commit
  <2> QED
    BY <1>1, <1>2, <1>3, <1>4, <1>6, <2>1, TurnKept
<1>7. CASE Forget(j)
  BY <1>1, <1>2, <1>3, <1>7, ForgetKept
<1>8. ASSUME NEW new \in Release(mem[j], Head(agenda[j].orders)), NEW a \in Agenda,
             a.loaded = agenda[j].loaded,
             Turn(j, "release", item[j], command[j], new, base[j], a)
      PROVE  Kept(x)'
  <2>1. PICK inv \in Inventory : inv = mem[j]
    BY <1>1, MemoryTyped DEF IInv
  <2>2. new \in Inventory
    BY <2>1, <1>8, ReleaseSensible
  <2>3. item[j] = x => Agrees(new.row, new.resv, x \in repeated)
    <3> DEFINE b == x \in repeated
    <3>1. b \in BOOLEAN
      OBVIOUS
    <3>2. item[j] = x => Agrees(inv.row, inv.resv, b)
      BY <1>5, <2>1
    <3> HIDE DEF b
    <3>3. item[j] = x => Agrees(new.row, new.resv, b)
      BY <1>8, <2>1, <2>2, <3>1, <3>2, ReleaseAgrees
    <3> QED
      BY <3>3 DEF b
  <2>4. item[j] = x => Stage("release", new, row'[x], resv'[x], x \in repeated')
    BY <1>2, <2>1, <2>3 DEF Stage, Commit
  <2> QED
    BY <1>1, <1>2, <1>3, <1>4, <1>8, <2>4, TurnKept
<1> QED
  BY <1>6, <1>7, <1>8, CronReleaseTurn

(* A process dies: before its save wrote anything, or the inventory is     *)
(* disturbed.                                                              *)
LEMMA AbortKept ==
  ASSUME IInv, AllKept, NEW p \in Process, Abort(p), NEW x \in Item, x \notin disturbed'
  PROVE  Kept(x)'
<1>1. /\ row' = row /\ resv' = resv /\ repeated' = repeated /\ Forget(p)
      /\ x \notin disturbed /\ ~Committing(p, x)
  BY DEF Abort, tables, Committing
<1>2. Kept(x)
  BY <1>1 DEF AllKept
<1> QED
  BY <1>1, <1>2, ForgetKept

(* Every step keeps the agreement.                                         *)
LEMMA KeptInductive == IInv /\ AllKept /\ [Next]_vars => AllKept'
<1> SUFFICES ASSUME IInv, AllKept, [Next]_vars PROVE AllKept'
  OBVIOUS
<1>1. AllApart'
  BY ApartInductive DEF AllKept
<1>2. Request \subseteq Process /\ Job \subseteq Process
  BY DEF Process
<1>3. ASSUME NEW x \in Item, x \notin disturbed' PROVE Kept(x)'
  <2>1. ASSUME NEW p \in Process, Save(p) PROVE Kept(x)'
    BY <1>3, <2>1, SaveSelectKept, SaveUpdateKept, DeleteReservationsKept,
       InsertReservationsKept DEF Save
  <2>2. ASSUME NEW j \in Job, CronQuery(j) \/ CronStep(j) PROVE Kept(x)'
    BY <1>2, <1>3, <2>1, <2>2, CronQueryKept, CronRowKept, CronReservationsKept,
       CronReleaseKept
       DEF CronStep
  <2>3. CASE UNCHANGED <<tables, process, history>>
    BY <1>3, <2>3 DEF AllKept, Kept, Trusted, Committing, tables, process, history
  <2>4. Tick \/ UNCHANGED vars => UNCHANGED <<tables, process, history>>
    BY DEF Tick, vars
  <2> QED
    BY <1>2, <1>3, <2>1, <2>2, <2>3, <2>4, CreateKept, FindInventoryKept,
       RunCommandKept, AbortKept
       DEF Next, Proceed
<1> QED
  BY <1>1, <1>3 DEF AllKept

(* The empty database satisfies it.                                        *)
LEMMA InitKept == Init => AllKept
<1> SUFFICES ASSUME Init PROVE AllKept
  OBVIOUS
<1>1. \A p \in Process : /\ pc[p] = "idle" /\ item[p] = NoItem
                         /\ agenda[p].todo = <<>> /\ agenda[p].loaded = <<>>
  BY Blanks DEF Init
<1>2. AllApart
  BY <1>1, EmptyApart DEF AllApart
<1>3. ASSUME NEW i \in Item PROVE Kept(i)
  <2>1. \A p \in Process : Trusted(p, i)
    BY <1>1, Blanks DEF Trusted, Entries
  <2>2. PICK w \in Row : w = row[i] /\ w = Absent
    BY Blanks DEF Init
  <2>3. w.reserved = 0 /\ resv[i] = <<>> /\ repeated = {}
    BY <2>2 DEF Absent, Init
  <2>4. Agrees(row[i], resv[i], i \in repeated)
    BY <2>2, <2>3, NothingAgrees
  <2> QED
    BY <2>1, <2>4 DEF Kept
<1> QED
  BY <1>2, <1>3 DEF AllKept

(* What an undisturbed inventory holds: the list in the memory of the one  *)
(* process that is committing it, or the rows.                             *)
LEMMA HeldIs ==
  ASSUME NEW i \in Item
  PROVE  /\ (\A p \in Process : ~Committing(p, i)) => Held(i) = resv[i]
         /\ \A p \in Process : Committing(p, i) /\ (\A q \in Process : Committing(q, i) => q = p)
              => Held(i) = mem[p].resv
<1>1. ASSUME NEW p \in Process, Committing(p, i), \A q \in Process : Committing(q, i) => q = p
      PROVE  Held(i) = mem[p].resv
  <2>1. (CHOOSE q \in Process : Committing(q, i)) = p
    BY <1>1
  <2> QED
    BY <1>1, <2>1 DEF Held
<1> QED
  BY <1>1 DEF Held

(* The reserved column tells what is reserved: for an inventory nobody     *)
(* disturbed it covers its reservations, and is exactly what they add up   *)
(* to unless an order reserved a second time, whatever handlers and cron   *)
(* runs do and however many there are.                                     *)
THEOREM ReservedAddsUp == Spec => []ReservedMatches
<1>1. Init => IInv /\ AllKept
  BY InitIInv, InitKept
<1>2. IInv /\ AllKept /\ [Next]_vars => (IInv /\ AllKept)'
  BY Inductive, KeptInductive
<1>3. IInv /\ AllKept => ReservedMatches
  <2> SUFFICES ASSUME IInv, AllKept, NEW i \in Item, i \notin disturbed
               PROVE  /\ row[i].reserved >= Total(Held(i))
                      /\ i \notin repeated => row[i].reserved = Total(Held(i))
    BY DEF ReservedMatches
  <2>1. Kept(i)
    BY DEF AllKept
  <2>2. Agrees(row[i], Held(i), i \in repeated)
    <3>1. CASE \A p \in Process : ~Committing(p, i)
      BY <2>1, <3>1, HeldIs DEF Kept
    <3>2. ASSUME NEW p \in Process, Committing(p, i)
          PROVE  Agrees(row[i], Held(i), i \in repeated)
      <4>1. \A q \in Process : Committing(q, i) => q = p
        BY <3>2, HoldsAlone DEF Committing, Holds
      <4>2. Held(i) = mem[p].resv
        BY <3>2, <4>1, HeldIs
      <4>3. Stage(pc[p], mem[p], row[i], resv[i], i \in repeated)
        BY <2>1, <3>2 DEF Kept, Trusted, Committing
      <4> QED
        BY <3>2, <4>2, <4>3 DEF Stage, Committing, Commit, Working, Saving
    <3> QED
      BY <3>1, <3>2
  <2> QED
    BY <2>2 DEF Agrees
<1> QED
  BY <1>1, <1>2, <1>3, PTL DEF Spec

-----------------------------------------------------------------------------
(* Promises: what a save drops is due or given up by its order.            *)

(* Whatever the order o has in the list is due.                            *)
Due(s, o, t) == \A k \in DOMAIN s : s[k].order = o => s[k].expiresAt <= t

(* The list s lacks nothing of l but what is due or given up.              *)
Covers(s, l, t, gone) ==
  \A k \in DOMAIN l : l[k] \in ToSet(s) \/ l[k].expiresAt <= t \/ l[k].order \in gone

(* Orders of both lists have the same reservation in them.                 *)
Agreeing(s, l) ==
  \A j \in DOMAIN s, k \in DOMAIN l : s[j].order = l[k].order => s[j] = l[k]

(* The order whose reservation a handler gives up.                         *)
Gone(p, c) ==
  {o \in Order : p \in Request /\ c.op \in {"release", "consume"} /\ c.order = o}

(* What the list of a copy, at step s, makes of the list l of the tables;  *)
(* a cron run drops what is due only.                                      *)
Pledge(s, list, l, t, gone, orders) ==
  /\ s \in {"release", "select", "update"} => Covers(list, l, t, gone)
  /\ s \in Working \ {"insertReservations"} => Agreeing(list, l)
  /\ s = "release" => \A o \in ToSet(orders) : Due(list, o, t)

(* The orders of the groups a cron run loaded are due.                     *)
GroupsDue(loaded, i, l, t) ==
  \A k \in DOMAIN loaded : loaded[k].item = i => \A o \in ToSet(loaded[k].orders) : Due(l, o, t)

(* So is what cron runs listed, in the table and in every copy.            *)
ListedDue(i) ==
  \A o \in Order : Listed(i, o) =>
    /\ Due(resv[i], o, now)
    /\ \A p \in Process : item[p] = i /\ pc[p] \in Working => Due(mem[p].resv, o, now)

Pledged(i) ==
  /\ \A p \in Process :
       /\ item[p] = i => Pledge(pc[p], mem[p].resv, resv[i], now, Gone(p, command[p]),
                                agenda[p].orders)
       /\ GroupsDue(agenda[p].loaded, i, resv[i], now)
  /\ ListedDue(i)

AllPledged == \A i \in Item \ (disturbed \cup repeated) : Pledged(i)

(* Lists that drop something, and lists that gain something.               *)

(* Part of a list is due where the list is, and agrees with what it does.  *)
LEMMA PartOfList ==
  ASSUME NEW s \in Seq(Reservation), NEW l \in Seq(Reservation),
         ToSet(s) \subseteq ToSet(l)
  PROVE  /\ \A o, t : Due(l, o, t) => Due(s, o, t)
         /\ \A r : Agreeing(l, r) => Agreeing(s, r)
<1>1. \A j \in DOMAIN s : \E k \in DOMAIN l : s[j] = l[k]
  BY DEF ToSet
<1>2. \A o, t : Due(l, o, t) => Due(s, o, t)
  BY <1>1 DEF Due
<1>3. \A r : Agreeing(l, r) => Agreeing(s, r)
  BY <1>1 DEF Agreeing
<1> QED
  BY <1>2, <1>3

(* A list lacks nothing of itself, and agrees with itself.                 *)
LEMMA ListItself ==
  ASSUME NEW l, Once(l)
  PROVE  Agreeing(l, l) /\ \A t, gone : Covers(l, l, t, gone)
BY DEF Agreeing, Covers, Once, ToSet

(* Time passes: what was due is due.                                       *)
LEMMA DueLater ==
  ASSUME NEW t \in Nat, NEW u \in Nat, t <= u, NEW s \in Seq(Reservation)
  PROVE  /\ \A o : Due(s, o, t) => Due(s, o, u)
         /\ \A l, gone : Covers(l, s, t, gone) => Covers(l, s, u, gone)
<1>1. \A k \in DOMAIN s : s[k].expiresAt \in Nat
  BY Places
<1>2. \A k \in DOMAIN s : s[k].expiresAt <= t => s[k].expiresAt <= u
  BY <1>1
<1> QED
  BY <1>2 DEF Due, Covers

(* What a handler's method leaves of a list without repetitions.           *)
LEMMA OutcomePledges ==
  ASSUME NEW inv \in Inventory, NEW c \in Command, now \in Nat, NEW new \in Outcomes(c,
         inv),
         Once(inv.resv), c.op = "reserve" => Found(inv, c.order) = {}, NEW r \in Request
  PROVE  /\ \A t : Covers(new.resv, inv.resv, t, Gone(r, c))
         /\ Agreeing(new.resv, inv.resv)
         /\ \A o, t : Due(inv.resv, o, t) /\ ~(c.op = "reserve" /\ c.order = o) => Due(new.resv, o, t)
<1>1. PICK l \in Seq(Reservation), s \in Seq(Reservation) : l = inv.resv /\ s = new.resv
  BY OutcomeSensible, FieldsTyped
<1>2. Agreeing(l, l) /\ \A t, gone : Covers(l, l, t, gone)
  BY <1>1, ListItself
<1>3. CASE c.op = "reserve"
  <2>1. new \in Reserve(inv, c)
    BY <1>3 DEF Outcomes
  <2>2. PICK v \in Reservation : v.order = c.order /\ s = Append(l, v)
    BY <1>1, <1>3, <2>1, ReserveResult
  <2>3. /\ DOMAIN l = 1 .. Len(l) /\ Len(l) \in Nat
        /\ DOMAIN s = 1 .. Len(l) + 1 /\ s[Len(l) + 1] = v
        /\ \A k \in 1 .. Len(l) : s[k] = l[k]
    BY <2>2, Places, AppendProperties
  <2>4. \A k \in DOMAIN l : l[k].order # v.order
    BY <1>1, <1>3, <2>2 DEF Found
  <2>5. \A t : Covers(s, l, t, Gone(r, c))
    BY <2>3 DEF Covers, ToSet
  <2>6. Agreeing(s, l)
    BY <1>1, <2>3, <2>4 DEF Agreeing, Once
  <2>7. ASSUME NEW o, NEW t, Due(l, o, t), c.order # o PROVE Due(s, o, t)
    BY <2>2, <2>3, <2>7 DEF Due
  <2> QED
    BY <1>1, <1>3, <2>5, <2>6, <2>7
<1>4. CASE c.op \in {"release", "consume"}
  <2>1. new \in Release(inv, c.order) \/ new \in Consume(inv, c.order)
    BY <1>4 DEF Outcomes
  <2>2. s = WithoutOrder(l, c.order)
    BY <1>1, <2>1, ReleaseResult, ConsumeResult
  <2>3. ToSet(s) = {v \in ToSet(l) : v.order # c.order}
    BY <2>2, WithoutParts
  <2>4. Agreeing(s, l) /\ \A o, t : Due(l, o, t) => Due(s, o, t)
    BY <1>2, <2>3, PartOfList
  <2>5. ASSUME NEW t, NEW k \in DOMAIN l
        PROVE  l[k] \in ToSet(s) \/ l[k].order \in Gone(r, c)
    <3>1. l[k] \in ToSet(l) /\ l[k].order \in Order
      BY Places DEF ToSet
    <3>2. l[k].order = c.order => l[k].order \in Gone(r, c)
      BY <1>4, <3>1 DEF Gone
    <3> QED
      BY <2>3, <3>1, <3>2
  <2>6. \A t : Covers(s, l, t, Gone(r, c))
    BY <2>5 DEF Covers
  <2> QED
    BY <1>1, <2>4, <2>6
<1>5. CASE c.op = "updateTotal"
  <2>1. PICK n \in Nat : n = c.quantity
    BY <1>5, BoundAssumption DEF Command
  <2>2. new \in UpdateTotal(inv, n)
    BY <1>5, <2>1 DEF Outcomes
  <2>3. s = l
    BY <1>1, <2>2, UpdateResult
  <2> QED
    BY <1>1, <1>2, <2>3
<1> QED
  BY <1>3, <1>4, <1>5 DEF Command

(* What a cron run's release leaves: it drops an order that is due.        *)
LEMMA ReleasePledges ==
  ASSUME NEW inv \in Inventory, NEW o, NEW new \in Release(inv, o),
         NEW l \in Seq(Reservation), NEW t, NEW gone,
         Covers(inv.resv, l, t, gone), Agreeing(inv.resv, l), Due(inv.resv, o, t)
  PROVE  /\ Covers(new.resv, l, t, gone) /\ Agreeing(new.resv, l)
         /\ \A x : Due(inv.resv, x, t) => Due(new.resv, x, t)
<1>1. PICK m \in Seq(Reservation), s \in Seq(Reservation) : m = inv.resv /\ s = new.resv
  BY ReleaseSensible, FieldsTyped
<1>2. ToSet(s) = {v \in ToSet(m) : v.order # o}
  BY <1>1, ReleaseResult, WithoutParts
<1>3. Agreeing(s, l) /\ \A x : Due(m, x, t) => Due(s, x, t)
  BY <1>1, <1>2, PartOfList
<1>4. ASSUME NEW k \in DOMAIN l, l[k] \notin ToSet(s)
      PROVE  l[k].expiresAt <= t \/ l[k].order \in gone
  <2>1. CASE l[k] \in ToSet(m)
    <3>1. l[k].order = o
      BY <1>2, <1>4, <2>1
    <3> QED
      BY <1>1, <2>1, <3>1 DEF ToSet, Due
  <2>2. CASE l[k] \notin ToSet(m)
    BY <1>1, <2>2 DEF Covers
  <2> QED
    BY <2>1, <2>2
<1>5. Covers(s, l, t, gone)
  BY <1>4 DEF Covers
<1> QED
  BY <1>1, <1>3, <1>5

(* Where no order reserved twice, the table has each order once, also while *)
(* a save replaces its rows.                                               *)
LEMMA TableOnce ==
  ASSUME IInv, NEW i \in Item, i \notin disturbed, i \notin repeated, Kept(i)
  PROVE  Once(resv[i])
<1>1. CASE \A p \in Process : ~Committing(p, i)
  BY <1>1 DEF Kept, Agrees
<1>2. ASSUME NEW p \in Process, Committing(p, i) PROVE Once(resv[i])
  <2>1. Stage(pc[p], mem[p], row[i], resv[i], i \in repeated)
    BY <1>2 DEF Kept, Trusted, Committing
  <2> QED
    BY <1>2, <2>1 DEF Stage, Committing, Once
<1> QED
  BY <1>1, <1>2

(* A turn that lists nothing new.                                          *)
LEMMA ListedShrinks ==
  ASSUME Agents, NEW p \in Process, NEW s, NEW it, NEW c, NEW m, NEW b, NEW a,
         Turn(p, s, it, c, m, b, a),
         \A k \in DOMAIN a.todo : \E l \in DOMAIN agenda[p].todo : a.todo[k] = agenda[p].todo[l]
  PROVE  \A i, o : Listed(i, o)' => Listed(i, o)
<1> SUFFICES ASSUME NEW i, NEW o, Listed(i, o)' PROVE Listed(i, o)
  OBVIOUS
<1>1. PICK j \in Job : \E k \in DOMAIN agenda'[j].todo :
        agenda'[j].todo[k].item = i /\ o \in ToSet(agenda'[j].todo[k].orders)
  BY DEF Listed
<1>2. CASE j = p
  <2>1. agenda'[j] = a
    BY <1>2 DEF Agents, Turn
  <2> QED
    BY <1>1, <1>2, <2>1 DEF Listed
<1>3. CASE j # p
  <2>1. agenda'[j] = agenda[j]
    BY <1>3 DEF Agents, Turn, Process
  <2> QED
    BY <1>1, <2>1 DEF Listed
<1> QED
  BY <1>2, <1>3

(* The promises of i stand when p alone moves: it changes the rows of i    *)
(* only when no other process holds it, what it then has of i pledges what *)
(* its step needs, and what is listed is due there.                        *)
LEMMA TurnPledged ==
  ASSUME IInv, NEW p \in Process, NEW i \in Item, Pledged(i),
         NEW s, NEW it, NEW c, NEW m, NEW b, NEW a, Turn(p, s, it, c, m, b, a),
         now' = now,
         resv'[i] = resv[i] \/ \A q \in Process : Holds(q, i) => q = p,
         it = i => Pledge(s, m.resv, resv'[i], now, Gone(p, c), a.orders),
         GroupsDue(a.loaded, i, resv'[i], now),
         \A o \in Order : Listed(i, o)' =>
           /\ Due(resv'[i], o, now)
           /\ it = i /\ s \in Working => Due(m.resv, o, now)
           /\ \A q \in Process : q # p /\ item[q] = i /\ pc[q] \in Working => Due(mem[q].resv, o, now)
  PROVE  Pledged(i)'
<1>1. /\ pc'[p] = s /\ item'[p] = it /\ command'[p] = c /\ mem'[p] = m /\ agenda'[p] = a
      /\ \A q \in Process : q # p =>
           /\ pc'[q] = pc[q] /\ item'[q] = item[q] /\ command'[q] = command[q]
           /\ mem'[q] = mem[q] /\ agenda'[q] = agenda[q]
  BY DEF IInv, Agents, Turn
<1>2. ASSUME NEW q \in Process
      PROVE  /\ item'[q] = i => Pledge(pc'[q], mem'[q].resv, resv'[i], now', Gone(q, command'[q]),
                                       agenda'[q].orders)
             /\ GroupsDue(agenda'[q].loaded, i, resv'[i], now')
  <2>1. CASE q = p
    BY <1>1, <2>1
  <2>2. CASE q # p
    <3>1. /\ item[q] = i => Pledge(pc[q], mem[q].resv, resv[i], now, Gone(q, command[q]),
                                   agenda[q].orders)
          /\ GroupsDue(agenda[q].loaded, i, resv[i], now)
      BY DEF Pledged
    <3>2. CASE resv'[i] = resv[i]
      BY <1>1, <2>2, <3>1, <3>2
    <3>3. CASE \A o \in Process : Holds(o, i) => o = p
      <4>1. item[q] # i /\ \A k \in DOMAIN agenda[q].loaded : agenda[q].loaded[k].item # i
        BY <2>2, <3>3 DEF Holds
      <4> QED
        BY <1>1, <2>2, <4>1 DEF GroupsDue
    <3> QED
      BY <3>2, <3>3
  <2> QED
    BY <2>1, <2>2
<1>3. ASSUME NEW o \in Order, Listed(i, o)'
      PROVE  /\ Due(resv'[i], o, now')
             /\ \A q \in Process : item'[q] = i /\ pc'[q] \in Working => Due(mem'[q].resv, o, now')
  BY <1>1, <1>3
<1>4. ListedDue(i)'
  BY <1>3 DEF ListedDue
<1> QED
  BY <1>2, <1>4 DEF Pledged

(* They stand when p lists nothing new and leaves the rows alone.          *)
LEMMA QuietPledged ==
  ASSUME IInv, NEW p \in Process, NEW i \in Item, Pledged(i),
         NEW s, NEW it, NEW c, NEW m, NEW b, NEW a, Turn(p, s, it, c, m, b, a),
         now' = now,
         resv'[i] = resv[i],
         \A k \in DOMAIN a.todo : \E l \in DOMAIN agenda[p].todo : a.todo[k] = agenda[p].todo[l],
         it = i => Pledge(s, m.resv, resv[i], now, Gone(p, c), a.orders),
         GroupsDue(a.loaded, i, resv[i], now),
         \A o \in Order : Listed(i, o) /\ it = i /\ s \in Working => Due(m.resv, o, now)
  PROVE  Pledged(i)'
<1>1. \A o \in Order : Listed(i, o)' => Listed(i, o)
  BY ListedShrinks DEF IInv
<1>2. \A o \in Order : Listed(i, o)' =>
        /\ Due(resv'[i], o, now)
        /\ it = i /\ s \in Working => Due(m.resv, o, now)
        /\ \A q \in Process : q # p /\ item[q] = i /\ pc[q] \in Working => Due(mem[q].resv, o, now)
  BY <1>1 DEF Pledged, ListedDue
<1> QED
  BY <1>2, TurnPledged

(* They stand when p returns, throws or dies.                              *)
LEMMA ForgetPledged ==
  ASSUME IInv, NEW p \in Process, NEW i \in Item, Pledged(i), Forget(p), now' = now,
         resv'[i] = resv[i]
  PROVE  Pledged(i)'
<1>1. Turn(p, "idle", NoItem, NoCommand, NoInventory, Absent, NoAgenda)
  BY DEF Forget, Turn
<1>2. /\ GroupsDue(NoAgenda.loaded, i, resv[i], now) /\ NoItem # i
      /\ \A k \in DOMAIN NoAgenda.todo :
           \E l \in DOMAIN agenda[p].todo : NoAgenda.todo[k] = agenda[p].todo[l]
  BY Blanks DEF GroupsDue
<1> QED
  BY <1>1, <1>2, QuietPledged

(* They stand when a cron run goes on with what it loaded: the next copy   *)
(* is the list itself, and its orders are due.                             *)
LEMMA NextGroupPledged ==
  ASSUME IInv, NEW j \in Process, NEW i \in Item, i \notin disturbed, i \notin repeated,
         Kept(i), Pledged(i), NEW loaded \in Seq(Loaded), NextGroup(j, loaded), now' = now,
         \/ resv'[i] = resv[i]
         \/ /\ ~Has(loaded, i) /\ Holds(j, i)
            /\ \A o \in Order : Listed(i, o) => Due(resv'[i], o, now),
         Entries(loaded, i, row[i], resv[i]), GroupsDue(loaded, i, resv[i], now)
  PROVE  Pledged(i)'
<1>1. Holds(j, i) => \A q \in Process : Holds(q, i) => q = j
  BY HoldsAlone
<1>2. ASSUME NEW s, NEW it, NEW c, NEW m, NEW b, NEW a, Turn(j, s, it, c, m, b, a),
             a.todo = <<>>, it = i => Has(loaded, i) /\ s = "release",
             it = i => Pledge(s, m.resv, resv[i], now, Gone(j, c), a.orders) /\ m.resv = resv[i],
             GroupsDue(a.loaded, i, resv[i], now), Has(a.loaded, i) => Has(loaded, i)
      PROVE  Pledged(i)'
  <2>1. \A k \in DOMAIN a.todo : \E l \in DOMAIN agenda[j].todo : a.todo[k] = agenda[j].todo[l]
    BY <1>2
  <2>2. CASE resv'[i] = resv[i]
    <3>1. \A o \in Order : Listed(i, o) /\ it = i /\ s \in Working => Due(m.resv, o, now)
      BY <1>2 DEF Pledged, ListedDue
    <3> QED
      BY <1>2, <2>1, <2>2, <3>1, QuietPledged
  <2>3. CASE /\ ~Has(loaded, i) /\ Holds(j, i)
             /\ \A o \in Order : Listed(i, o) => Due(resv'[i], o, now)
    <3>1. it # i /\ GroupsDue(a.loaded, i, resv'[i], now)
      BY <1>2, <2>3 DEF GroupsDue, Has
    <3>2. \A o \in Order : Listed(i, o)' => Listed(i, o)
      BY <1>2, <2>1, ListedShrinks DEF IInv
    <3>3. \A q \in Process : q # j => item[q] # i
      BY <1>1, <2>3 DEF Holds
    <3>4. \A o \in Order : Listed(i, o)' =>
            /\ Due(resv'[i], o, now)
            /\ it = i /\ s \in Working => Due(m.resv, o, now)
            /\ \A q \in Process : q # j /\ item[q] = i /\ pc[q] \in Working => Due(mem[q].resv, o, now)
      BY <2>3, <3>1, <3>2, <3>3
    <3> QED
      BY <1>1, <1>2, <2>3, <3>1, <3>4, TurnPledged
  <2> QED
    BY <2>2, <2>3
<1>3. CASE loaded = <<>>
  <2>1. Turn(j, "idle", NoItem, NoCommand, NoInventory, Absent, NoAgenda)
    BY <1>3 DEF NextGroup, Finish, Forget, Turn
  <2>2. GroupsDue(NoAgenda.loaded, i, resv[i], now) /\ NoItem # i /\ ~Has(NoAgenda.loaded, i)
    BY Blanks DEF GroupsDue, Has
  <2> QED
    BY <1>2, <2>1, <2>2, Blanks
<1>4. CASE loaded # <<>>
  <2>1. PICK a : a = [todo |-> <<>>, loaded |-> Tail(loaded), orders |-> Head(loaded).orders]
    OBVIOUS
  <2>2. Turn(j, "release", Head(loaded).item, command[j], Head(loaded).mem, base[j], a)
    BY <1>4, <2>1, Unmoved DEF IInv, NextGroup, Turn
  <2>3. a.todo = <<>> /\ a.loaded = Tail(loaded) /\ a.orders = Head(loaded).orders
    BY <2>1
  <2>4. GroupsDue(a.loaded, i, resv[i], now) /\ (Has(a.loaded, i) => Has(loaded, i))
    BY <1>4, <2>3, ListParts DEF GroupsDue, Has
  <2>5. ASSUME Head(loaded).item = i
        PROVE  /\ Has(loaded, i) /\ Head(loaded).mem.resv = resv[i]
               /\ Pledge("release", Head(loaded).mem.resv, resv[i], now, Gone(j, command[j]), a.orders)
    <3>1. Has(loaded, i)
      BY <1>4, <2>5, HeadSane
    <3>2. Head(loaded).mem.resv = resv[i] /\ \A o \in ToSet(a.orders) : Due(resv[i], o, now)
      BY <1>4, <2>3, <2>5, ListParts DEF Entries, GroupsDue
    <3>3. Once(resv[i])
      BY TableOnce
    <3> QED
      BY <3>1, <3>2, <3>3, ListItself DEF Pledge
  <2> QED
    BY <1>2, <2>2, <2>3, <2>4, <2>5
<1> QED
  BY <1>3, <1>4

(* What stands before a step that changes nothing else.                    *)
LEMMA PledgedParts ==
  ASSUME NEW i \in Item, Pledged(i), NEW p \in Process
  PROVE  /\ GroupsDue(agenda[p].loaded, i, resv[i], now)
         /\ item[p] = i => Pledge(pc[p], mem[p].resv, resv[i], now, Gone(p, command[p]),
                                  agenda[p].orders)
         /\ \A o \in Order : Listed(i, o) =>
              /\ Due(resv[i], o, now)
              /\ item[p] = i /\ pc[p] \in Working => Due(mem[p].resv, o, now)
BY DEF Pledged, ListedDue

(* POST /inventory: there is nothing to drop.                              *)
LEMMA CreatePledged ==
  ASSUME IInv, AllKept, AllPledged, NEW r \in Request, NEW i \in Item,
         NEW q \in 0 .. MaxStock,
         Create(r, i, q), NEW x \in Item, x \notin disturbed', x \notin repeated'
  PROVE  Pledged(x)'
<1>1. r \in Process
  BY DEF Process
<1>2. /\ resv' = resv /\ now' = now /\ repeated' = repeated /\ ~row[i].exists
  BY DEF Create, Start
<1>3. /\ x \notin disturbed /\ x \notin repeated /\ Kept(x) /\ Pledged(x)
      /\ x = i => \A p \in Process : ~Holds(p, x)
  BY <1>2, Disturbs DEF IInv, AllKept, AllPledged, Create, Start
<1>4. PICK m : m = [row |-> Fresh(q), resv |-> <<>>]
  OBVIOUS
<1>5. Turn(r, "deleteReservations", i, command[r], m, base[r], agenda[r])
  BY <1>1, <1>4, Unmoved DEF IInv, Create, Start, Turn
<1>6. x = i => resv[x] = <<>>
  BY <1>2, <1>3 DEF Kept, Agrees, Committing, Holds
<1>7. m.resv = <<>>
  BY <1>4
<1>8. i = x => Pledge("deleteReservations", m.resv, resv[x], now, Gone(r, command[r]), agenda[r].orders)
  BY <1>6, <1>7 DEF Pledge, Agreeing
<1>9. \A o \in Order : Due(m.resv, o, now)
  BY <1>7 DEF Due
<1> QED
  BY <1>1, <1>2, <1>3, <1>5, <1>8, <1>9, PledgedParts, QuietPledged

(* A copy that nobody changed yet pledges nothing.                         *)
LEMMA NoPledge ==
  ASSUME NEW s \in {"findReservations", "cronRow", "cronReservations"}
  PROVE  s \notin Working /\ \A list, l, t, gone, orders : Pledge(s, list, l, t, gone, orders)
BY DEF Working, Saving, Pledge

(* The row query of a handler.                                             *)
LEMMA FindInventoryPledged ==
  ASSUME IInv, AllPledged, NEW r \in Request, NEW i \in Item, NEW c \in Command,
         FindInventory(r, i, c), NEW x \in Item, x \notin disturbed', x \notin repeated'
  PROVE  Pledged(x)'
<1>1. r \in Process
  BY DEF Process
<1>2. resv' = resv /\ now' = now /\ repeated' = repeated
  BY DEF FindInventory, Start, tables
<1>3. Pledged(x)
  BY <1>2, Disturbs DEF IInv, AllPledged, FindInventory, Start
<1>4. PICK m : m = [row |-> row[i], resv |-> <<>>]
  OBVIOUS
<1>5. Turn(r, "findReservations", i, c, m, base[r], agenda[r])
  BY <1>1, <1>4, Unmoved DEF IInv, FindInventory, Start, Turn
<1> QED
  BY <1>1, <1>2, <1>3, <1>5, NoPledge, PledgedParts, QuietPledged

(* The row query of the cron job.                                          *)
LEMMA CronRowPledged ==
  ASSUME IInv, AllPledged, NEW j \in Job, CronRow(j),
         NEW x \in Item, x \notin disturbed', x \notin repeated'
  PROVE  Pledged(x)'
<1>1. j \in Process
  BY DEF Process
<1>2. PICK i : i = Head(agenda[j].todo).item
  OBVIOUS
<1>3. resv' = resv /\ now' = now /\ repeated' = repeated /\ disturbed \subseteq disturbed'
  BY DEF CronRow, tables, Disturb
<1>4. Pledged(x)
  BY <1>3 DEF AllPledged
<1>5. PICK m : m = [row |-> row[i], resv |-> <<>>]
  OBVIOUS
<1>6. Turn(j, "cronReservations", i, command[j], m, base[j], agenda[j])
  BY <1>1, <1>2, <1>5, Unmoved DEF IInv, CronRow, Turn
<1> QED
  BY <1>1, <1>3, <1>4, <1>6, NoPledge, PledgedParts, QuietPledged

(* The query for what is due: an order it lists is due, in the table and,  *)
(* since a copy has the same reservation of it, in every copy.             *)
LEMMA CronQueryPledged ==
  ASSUME IInv, AllKept, AllPledged, NEW j \in Job, CronQuery(j),
         NEW x \in Item, x \notin disturbed', x \notin repeated'
  PROVE  Pledged(x)'
<1>1. j \in Process
  BY DEF Process
<1>2. resv' = resv /\ now' = now /\ repeated' = repeated /\ disturbed' = disturbed
  BY DEF CronQuery, tables, history
<1>3. x \notin disturbed /\ x \notin repeated /\ Kept(x) /\ Pledged(x)
  BY <1>2 DEF AllKept, AllPledged
<1>4. PICK a \in Agenda :
        /\ a.loaded = agenda[j].loaded
        /\ \A k \in DOMAIN a.todo : a.todo[k].orders = Orders(Expired(resv[a.todo[k].item]))
        /\ Turn(j, "cronRow", item[j], command[j], mem[j], base[j], a)
  BY CronQueryTurn
<1>5. ASSUME NEW o \in Order, Listed(x, o)', ~Listed(x, o)
      PROVE  \E v \in ToSet(resv[x]) : v.order = o /\ v.expiresAt <= now
  <2>1. PICK n \in Job : \E k \in DOMAIN agenda'[n].todo :
          agenda'[n].todo[k].item = x /\ o \in ToSet(agenda'[n].todo[k].orders)
    BY <1>5 DEF Listed
  <2>2. n = j /\ agenda'[j] = a
    <3>1. n # j => agenda'[n] = agenda[n]
      BY <1>4 DEF IInv, Agents, Turn, Process
    <3>2. agenda'[j] = a
      BY <1>1, <1>4 DEF IInv, Agents, Turn
    <3> QED
      BY <1>5, <2>1, <3>1, <3>2 DEF Listed
  <2>3. PICK s \in Seq(Reservation) : s = resv[x]
    BY DEF IInv, Tables
  <2>4. o \in ToSet(Orders(Expired(s)))
    BY <1>4, <2>1, <2>2, <2>3
  <2>5. PICK P \in SUBSET (DOMAIN s) : P = {k \in DOMAIN s : s[k].expiresAt <= now}
    OBVIOUS
  <2>6. PICK e \in Seq(Reservation) : e = Expired(s) /\ ToSet(e) = {s[k] : k \in P}
    BY <2>5, AtParts DEF Expired
  <2>7. PICK k \in DOMAIN e : e[k].order = o
    BY <2>4, <2>6 DEF Orders, ToSet
  <2>8. e[k] \in ToSet(e)
    BY DEF ToSet
  <2> QED
    BY <2>3, <2>5, <2>6, <2>7, <2>8 DEF ToSet
<1>6. ASSUME NEW o \in Order, Listed(x, o)'
      PROVE  /\ Due(resv[x], o, now)
             /\ \A q \in Process : item[q] = x /\ pc[q] \in Working => Due(mem[q].resv, o, now)
  <2>1. CASE Listed(x, o)
    BY <1>3, <2>1 DEF Pledged, ListedDue
  <2>2. CASE ~Listed(x, o)
    <3>1. PICK n \in DOMAIN resv[x] : resv[x][n].order = o /\ resv[x][n].expiresAt <= now
      BY <1>5, <1>6, <2>2 DEF ToSet
    <3>2. Once(resv[x])
      BY <1>3, TableOnce
    <3>3. Due(resv[x], o, now)
      BY <3>1, <3>2 DEF Due, Once
    <3>4. ASSUME NEW q \in Process, item[q] = x, pc[q] \in Working
      PROVE Due(mem[q].resv, o, now)
      <4>1. pc[q] # "insertReservations"
        BY <1>3, <3>1, <3>4 DEF Kept, Trusted, Stage
      <4>2. Agreeing(mem[q].resv, resv[x])
        BY <1>3, <3>4, <4>1 DEF Pledged, Pledge
      <4> QED
        BY <3>1, <4>2 DEF Agreeing, Due
    <3> QED
      BY <3>3, <3>4
  <2> QED
    BY <2>1, <2>2
<1>7. GroupsDue(a.loaded, x, resv'[x], now)
  BY <1>1, <1>2, <1>3, <1>4, PledgedParts
<1> QED
  BY <1>1, <1>2, <1>3, <1>4, <1>6, <1>7, NoPledge, TurnPledged

(* The domain method: a handler drops its own order only, and an order it  *)
(* adds is neither in the table nor listed.                                *)
LEMMA RunCommandPledged ==
  ASSUME IInv, AllKept, AllPledged, NEW r \in Request, RunCommand(r),
         NEW x \in Item, x \notin disturbed', x \notin repeated'
  PROVE  Pledged(x)'
<1>1. r \in Process
  BY DEF Process
<1>2. PICK i \in Item, c \in Command : i = item[r] /\ c = command[r]
  BY RunCommandTurn
<1>3. /\ row' = row /\ resv' = resv /\ now' = now /\ disturbed' = disturbed
      /\ pc[r] = "findReservations" /\ now \in Nat
  BY RunCommandTurn DEF IInv, Tables
<1>4. CASE Forget(r) /\ UNCHANGED <<events, repeated, clamped>>
  BY <1>1, <1>3, <1>4, ForgetPledged DEF AllPledged
<1>5. ASSUME NEW inv \in Inventory, NEW new \in Outcomes(c, inv), inv.resv = resv[i],
             Turn(r, "select", i, c, new, base[r], agenda[r]),
             repeated' = IF c.op = "reserve" /\ (Found(inv, c.order) # {} \/ Listed(i, c.order))
                         THEN repeated \cup {i} ELSE repeated
      PROVE  Pledged(x)'
  <2>1. x \notin disturbed /\ x \notin repeated /\ Kept(x) /\ Pledged(x)
    BY <1>3, <1>5 DEF AllKept, AllPledged
  <2>2. CASE x # i
    BY <1>1, <1>3, <1>5, <2>1, <2>2, PledgedParts, QuietPledged
  <2>3. CASE x = i
    <3>1. c.op = "reserve" => Found(inv, c.order) = {} /\ ~Listed(x, c.order)
      BY <1>5, <2>3
    <3>2. Once(inv.resv)
      BY <1>5, <2>1, <2>3, TableOnce
    <3>3. /\ \A t : Covers(new.resv, inv.resv, t, Gone(r, c))
          /\ Agreeing(new.resv, inv.resv)
          /\ \A o, t : Due(inv.resv, o, t) /\ ~(c.op = "reserve" /\ c.order = o) => Due(new.resv, o, t)
      BY <1>3, <3>1, <3>2, OutcomePledges
    <3>4. Pledge("select", new.resv, resv[x], now, Gone(r, c), agenda[r].orders)
      BY <1>5, <2>3, <3>3 DEF Pledge
    <3>5. ASSUME NEW o \in Order, Listed(x, o) PROVE Due(new.resv, o, now)
      <4>1. Due(inv.resv, o, now)
        BY <1>1, <1>5, <2>1, <2>3, <3>5, PledgedParts
      <4> QED
        BY <3>1, <3>3, <3>5, <4>1
    <3> QED
      BY <1>1, <1>3, <1>5, <2>1, <2>3, <3>4, <3>5, PledgedParts, QuietPledged
  <2> QED
    BY <2>2, <2>3
<1> QED
  BY <1>2, <1>4, <1>5, RunCommandTurn

(* The select and the update of save.                                      *)
LEMMA SaveRowPledged ==
  ASSUME IInv, AllKept, AllPledged, NEW p \in Process, SaveSelect(p) \/ SaveUpdate(p),
         NEW x \in Item, x \notin disturbed', x \notin repeated'
  PROVE  Pledged(x)'
<1>1. PICK s, b :
        /\ Turn(p, s, item[p], command[p], mem[p], b, agenda[p])
        /\ \/ pc[p] = "select" /\ s = "update"
           \/ pc[p] = "update" /\ s = "deleteReservations"
  <2>1. CASE SaveSelect(p)
    <3>1. Turn(p, "update", item[p], command[p], mem[p], row[item[p]], agenda[p])
      BY <2>1, Unmoved DEF IInv, SaveSelect, GoTo, Turn
    <3> QED
      BY <2>1, <3>1 DEF SaveSelect
  <2>2. CASE SaveUpdate(p)
    <3>1. Turn(p, "deleteReservations", item[p], command[p], mem[p], base[p], agenda[p])
      BY <2>2, Unmoved DEF IInv, SaveUpdate, GoTo, Turn
    <3> QED
      BY <2>2, <3>1 DEF SaveUpdate
  <2> QED
    BY <2>1, <2>2
<1>2. resv' = resv /\ now' = now /\ repeated' = repeated /\ disturbed' = disturbed
  BY DEF SaveSelect, SaveUpdate, tables, history
<1>3. Pledged(x)
  BY <1>2 DEF AllPledged
<1>4. pc[p] \in Working
  BY <1>1 DEF Working, Saving
<1>5. item[p] = x => Pledge(s, mem[p].resv, resv[x], now, Gone(p, command[p]), agenda[p].orders)
  BY <1>1, <1>3, PledgedParts DEF Pledge, Working, Saving
<1> QED
  BY <1>1, <1>2, <1>3, <1>4, <1>5, PledgedParts, QuietPledged

(* The delete of save: its holder alone has the list.                      *)
LEMMA DeleteReservationsPledged ==
  ASSUME IInv, AllKept, AllPledged, NEW p \in Process, DeleteReservations(p),
         NEW x \in Item, x \notin disturbed', x \notin repeated'
  PROVE  Pledged(x)'
<1>1. Turn(p, "insertReservations", item[p], command[p], mem[p], base[p], agenda[p])
  BY Unmoved DEF IInv, DeleteReservations, GoTo, Turn
<1>2. /\ now' = now /\ repeated' = repeated /\ disturbed' = disturbed
      /\ pc[p] = "deleteReservations" /\ resv' = [resv EXCEPT ![item[p]] = <<>>]
  BY DEF DeleteReservations, history
<1>3. x \notin disturbed /\ Kept(x) /\ Pledged(x) /\ pc[p] \in Working
  BY <1>2 DEF AllKept, AllPledged, Working, Saving
<1>4. item[p] = x => Pledge("insertReservations", mem[p].resv, resv'[x], now, Gone(p, command[p]),
                            agenda[p].orders)
  BY DEF Pledge, Working, Saving
<1>5. CASE x # item[p]
  <2>1. resv'[x] = resv[x]
    BY <1>2, <1>5 DEF IInv, Tables
  <2> QED
    BY <1>1, <1>2, <1>3, <1>5, <2>1, PledgedParts, QuietPledged
<1>6. CASE x = item[p]
  <2>1. resv'[x] = <<>> /\ \A o : Due(resv'[x], o, now)
    BY <1>2, <1>6 DEF IInv, Tables, Due
  <2>2. \A o \in Order : Listed(x, o)' => Listed(x, o)
    BY <1>1, ListedShrinks DEF IInv
  <2>3. \A q \in Process : Holds(q, x) => q = p
    BY <1>3, <1>6, HoldsAlone DEF Holds
  <2>4. GroupsDue(agenda[p].loaded, x, resv'[x], now)
    BY <2>1 DEF GroupsDue
  <2>5. \A o \in Order : Listed(x, o)' =>
          /\ Due(resv'[x], o, now)
          /\ item[p] = x /\ "insertReservations" \in Working => Due(mem[p].resv, o, now)
          /\ \A q \in Process : q # p /\ item[q] = x /\ pc[q] \in Working => Due(mem[q].resv, o, now)
    BY <1>3, <2>1, <2>2, PledgedParts DEF Pledged, ListedDue
  <2> QED
    BY <1>1, <1>2, <1>3, <1>4, <2>3, <2>4, <2>5, TurnPledged
<1> QED
  BY <1>5, <1>6

(* The insert of save: the rows are the list of the copy.                  *)
LEMMA InsertReservationsPledged ==
  ASSUME IInv, AllKept, AllPledged, NEW p \in Process, InsertReservations(p),
         NEW x \in Item, x \notin disturbed', x \notin repeated'
  PROVE  Pledged(x)'
<1>1. PICK loaded \in Seq(Loaded) : loaded = agenda[p].loaded /\ NextGroup(p, loaded)
  BY MemoryTyped DEF IInv, InsertReservations
<1>2. /\ now' = now /\ repeated' = repeated /\ disturbed' = disturbed
      /\ pc[p] = "insertReservations" /\ resv' = [resv EXCEPT ![item[p]] = @ \o mem[p].resv]
  BY DEF InsertReservations, history
<1>3. x \notin disturbed /\ x \notin repeated /\ Kept(x) /\ Pledged(x) /\ pc[p] \in Working
  BY <1>2 DEF AllKept, AllPledged, Working, Saving
<1>4. Entries(loaded, x, row[x], resv[x]) /\ GroupsDue(loaded, x, resv[x], now)
  BY <1>1, <1>3, PledgedParts DEF Kept, Trusted
<1>5. CASE x # item[p]
  <2>1. resv'[x] = resv[x]
    BY <1>2, <1>5 DEF IInv, Tables
  <2> QED
    BY <1>1, <1>2, <1>3, <1>4, <2>1, NextGroupPledged
<1>6. CASE x = item[p]
  <2>1. resv'[x] = mem[p].resv
    BY <1>2, <1>3, <1>6, ListReturns
  <2>2. ~Has(loaded, x) /\ Holds(p, x)
    BY <1>1, <1>2, <1>3, <1>6 DEF AllKept, AllApart, Apart, Holds
  <2>3. \A o \in Order : Listed(x, o) => Due(resv'[x], o, now)
    BY <1>3, <1>6, <2>1, PledgedParts
  <2> QED
    BY <1>1, <1>2, <1>3, <1>4, <2>2, <2>3, NextGroupPledged
<1> QED
  BY <1>5, <1>6

(* The load of a group: what the run listed is still due.                  *)
LEMMA CronReservationsPledged ==
  ASSUME IInv, AllKept, AllPledged, NEW j \in Job, CronReservations(j),
         NEW x \in Item, x \notin disturbed', x \notin repeated'
  PROVE  Pledged(x)'
<1>1. j \in Process /\ pc[j] = "cronReservations"
  BY DEF Process, CronReservations
<1>2. resv' = resv /\ now' = now /\ repeated' = repeated /\ disturbed' = disturbed
  BY DEF CronReservations, tables, history
<1>3. x \notin disturbed /\ x \notin repeated /\ Kept(x) /\ Pledged(x)
  BY <1>2 DEF AllKept, AllPledged
<1>4. PICK todo \in Seq(Group), entry \in Loaded, loaded \in Seq(Loaded) :
        /\ todo = agenda[j].todo /\ todo # <<>>
        /\ entry.item = item[j] /\ entry.item = Head(todo).item /\ entry.orders = Head(todo).orders
        /\ entry.mem.row = mem[j].row /\ entry.mem.resv = resv[item[j]]
        /\ loaded = Append(agenda[j].loaded, entry)
        /\ \/ NextGroup(j, loaded)
           \/ \E a \in Agenda : /\ a.todo = Tail(todo) /\ a.loaded = loaded
                                /\ Turn(j, "cronRow", NoItem, command[j], mem[j], base[j], a)
  BY CronReservationsTurn
<1>5. PICK before \in Seq(Loaded) : before = agenda[j].loaded
  BY <1>1, MemoryTyped DEF IInv
<1>6. \A k \in DOMAIN loaded : loaded[k] = entry \/ (k \in DOMAIN before /\ loaded[k] = before[k])
  BY <1>4, <1>5, ListParts
<1>7. Entries(loaded, x, row[x], resv[x])
  <2>1. Entries(before, x, row[x], resv[x])
    BY <1>1, <1>3, <1>5 DEF Kept, Trusted
  <2>2. item[j] = x => mem[j].row = row[x]
    BY <1>1, <1>3 DEF Kept, Trusted, Stage
  <2>3. entry.item = x => entry.mem.row = row[x] /\ entry.mem.resv = resv[x]
    BY <1>4, <2>2
  <2>4. ASSUME NEW k \in DOMAIN loaded, loaded[k].item = x
        PROVE  loaded[k].mem.row = row[x] /\ loaded[k].mem.resv = resv[x]
    <3>1. CASE loaded[k] = entry
      BY <2>3, <2>4, <3>1
    <3>2. CASE k \in DOMAIN before /\ loaded[k] = before[k]
      BY <2>1, <2>4, <3>2 DEF Entries
    <3> QED
      BY <1>6, <3>1, <3>2
  <2> QED
    BY <2>4 DEF Entries
<1>8. GroupsDue(loaded, x, resv[x], now)
  <2>1. GroupsDue(before, x, resv[x], now)
    BY <1>1, <1>3, <1>5, PledgedParts
  <2>2. ASSUME item[j] = x, NEW o \in ToSet(entry.orders) PROVE Due(resv[x], o, now)
    <3>1. 1 \in DOMAIN todo /\ Head(todo) = todo[1]
      BY <1>4, ListParts
    <3>2. Listed(x, o)
      BY <1>4, <2>2, <3>1 DEF Listed
    <3>3. o \in Order
      <4>1. entry.orders \in Seq(Order)
        BY DEF Loaded
      <4> QED
        BY <4>1, LenProperties, ElementOfSeq DEF ToSet
    <3> QED
      BY <1>1, <1>3, <3>2, <3>3, PledgedParts
  <2> QED
    BY <1>4, <1>6, <2>1, <2>2 DEF GroupsDue
<1>9. CASE NextGroup(j, loaded)
  BY <1>1, <1>2, <1>3, <1>7, <1>8, <1>9, NextGroupPledged
<1>10. ASSUME NEW a \in Agenda, a.todo = Tail(todo), a.loaded = loaded,
              Turn(j, "cronRow", NoItem, command[j], mem[j], base[j], a)
       PROVE  Pledged(x)'
  <2>1. NoItem # x
    BY ProcessAssumption
  <2>2. \A k \in DOMAIN a.todo : \E l \in DOMAIN agenda[j].todo : a.todo[k] = agenda[j].todo[l]
    BY <1>4, <1>10, ListParts
  <2>3. GroupsDue(a.loaded, x, resv[x], now) /\ resv'[x] = resv[x]
    BY <1>2, <1>8, <1>10
  <2>4. Turn(j, "cronRow", NoItem, command[j], mem[j], base[j], a)
    BY <1>10
  <2>5. Pledged(x) /\ now' = now
    BY <1>2, <1>3
  <2>6. PICK it, m : it = NoItem /\ m = mem[j]
    OBVIOUS
  <2>7. Turn(j, "cronRow", it, command[j], m, base[j], a)
    BY <2>4, <2>6
  <2>8. it # x
    BY <2>1, <2>6
  <2> QED
    BY <1>1, <2>2, <2>3, <2>5, <2>7, <2>8, QuietPledged
<1> QED
  BY <1>4, <1>9, <1>10

(* A cron run's release drops an order that is due.                        *)
LEMMA CronReleasePledged ==
  ASSUME IInv, AllKept, AllPledged, NEW j \in Job, CronRelease(j),
         NEW x \in Item, x \notin disturbed', x \notin repeated'
  PROVE  Pledged(x)'
<1>1. j \in Process
  BY DEF Process
<1>2. resv' = resv /\ now' = now /\ repeated' = repeated /\ disturbed' = disturbed
  BY DEF CronRelease, tables, history
<1>3. pc[j] = "release" /\ Pledged(x) /\ pc[j] \in Working
  BY <1>2, CronReleaseTurn DEF AllPledged, Working
<1>4. PICK orders \in Seq(Order) : orders = agenda[j].orders
  BY <1>1, MemoryTyped DEF IInv
<1>5. PICK inv \in Inventory, l \in Seq(Reservation) : inv = mem[j] /\ l = resv[x]
  BY <1>1, MemoryTyped DEF IInv, Tables
<1>6. item[j] = x =>
        /\ Covers(inv.resv, l, now, Gone(j, command[j])) /\ Agreeing(inv.resv, l)
        /\ \A o \in ToSet(orders) : Due(inv.resv, o, now)
  BY <1>1, <1>3, <1>4, <1>5, PledgedParts DEF Pledge
<1>7. CASE Turn(j, "select", item[j], command[j], mem[j], base[j], agenda[j])
  <2>1. item[j] = x => Pledge("select", mem[j].resv, resv[x], now, Gone(j, command[j]),
                              agenda[j].orders)
    BY <1>5, <1>6 DEF Pledge
  <2> QED
    BY <1>1, <1>2, <1>3, <1>7, <2>1, PledgedParts, QuietPledged
<1>8. CASE Forget(j)
  BY <1>1, <1>2, <1>3, <1>8, ForgetPledged
<1>9. ASSUME NEW new \in Release(inv, Head(orders)), NEW a \in Agenda, orders # <<>>,
             a.todo = agenda[j].todo, a.loaded = agenda[j].loaded, a.orders = Tail(orders),
             Turn(j, "release", item[j], command[j], new, base[j], a)
      PROVE  Pledged(x)'
  <2>1. Head(orders) \in ToSet(orders) /\ ToSet(Tail(orders)) \subseteq ToSet(orders)
    BY <1>9, ListParts DEF ToSet
  <2>2. item[j] = x =>
          /\ Covers(new.resv, l, now, Gone(j, command[j])) /\ Agreeing(new.resv, l)
          /\ \A o : Due(inv.resv, o, now) => Due(new.resv, o, now)
    BY <1>6, <2>1, ReleasePledges
  <2>3. item[j] = x => Pledge("release", new.resv, resv[x], now, Gone(j, command[j]), a.orders)
    BY <1>5, <1>6, <1>9, <2>1, <2>2 DEF Pledge
  <2>4. \A o \in Order : Listed(x, o) /\ item[j] = x => Due(new.resv, o, now)
    BY <1>1, <1>3, <1>5, <2>2, PledgedParts
  <2>5. GroupsDue(a.loaded, x, resv[x], now)
    BY <1>1, <1>3, <1>9, PledgedParts
  <2>6. \A k \in DOMAIN a.todo : \E n \in DOMAIN agenda[j].todo : a.todo[k] = agenda[j].todo[n]
    BY <1>9
  <2>7. \A o \in Order : Listed(x, o) /\ item[j] = x /\ "release" \in Working => Due(new.resv, o, now)
    BY <2>4
  <2>8. resv'[x] = resv[x]
    BY <1>2
  <2> QED
    BY <1>1, <1>2, <1>3, <1>9, <2>3, <2>5, <2>6, <2>7, <2>8, QuietPledged
<1> QED
  BY <1>4, <1>5, <1>7, <1>8, <1>9, CronReleaseTurn

(* The clock: what is due stays due.                                       *)
LEMMA TickPledged ==
  ASSUME IInv, AllPledged, Tick, NEW x \in Item, x \notin disturbed', x \notin repeated'
  PROVE  Pledged(x)'
<1>1. UNCHANGED <<tables, process, history>> /\ now \in Nat /\ now' \in Nat /\ now <= now'
  BY DEF Tick, IInv, Tables
<1>2. Pledged(x)
  BY <1>1 DEF AllPledged, history
<1>3. PICK l \in Seq(Reservation) : l = resv[x] /\ l = resv'[x]
  BY <1>1 DEF IInv, Tables, tables
<1>4. ASSUME NEW q \in Process
      PROVE  /\ item[q] = x => Pledge(pc[q], mem[q].resv, l, now', Gone(q, command[q]), agenda[q].orders)
             /\ GroupsDue(agenda[q].loaded, x, l, now')
  <2>1. PICK m \in Seq(Reservation) : m = mem[q].resv
    BY MemoryTyped DEF IInv
  <2>2. item[q] = x => Pledge(pc[q], m, l, now', Gone(q, command[q]), agenda[q].orders)
    <3> SUFFICES ASSUME item[q] = x
                 PROVE  Pledge(pc[q], m, l, now', Gone(q, command[q]), agenda[q].orders)
      OBVIOUS
    <3>1. PICK gone : gone = Gone(q, command[q])
      OBVIOUS
    <3>2. Pledge(pc[q], m, l, now, gone, agenda[q].orders)
      BY <1>2, <1>3, <2>1, <3>1, PledgedParts
    <3>3. pc[q] \in {"release", "select", "update"} => Covers(m, l, now', gone)
      BY <1>1, <3>2, DueLater DEF Pledge
    <3>4. pc[q] = "release" => \A o \in ToSet(agenda[q].orders) : Due(m, o, now')
      BY <1>1, <3>2, DueLater DEF Pledge
    <3>5. Pledge(pc[q], m, l, now', gone, agenda[q].orders)
      BY <3>2, <3>3, <3>4 DEF Pledge
    <3> QED
      BY <3>1, <3>5
  <2>3. GroupsDue(agenda[q].loaded, x, l, now')
    BY <1>1, <1>2, <1>3, PledgedParts, DueLater DEF GroupsDue
  <2> QED
    BY <2>1, <2>2, <2>3
<1>5. ASSUME NEW o \in Order, Listed(x, o)
      PROVE  /\ Due(l, o, now')
             /\ \A q \in Process : item[q] = x /\ pc[q] \in Working => Due(mem[q].resv, o, now')
  <2>1. Due(l, o, now')
    BY <1>1, <1>2, <1>3, <1>5, DueLater DEF Pledged, ListedDue
  <2>2. ASSUME NEW q \in Process, item[q] = x, pc[q] \in Working
    PROVE Due(mem[q].resv, o, now')
    <3>1. PICK m \in Seq(Reservation) : m = mem[q].resv
      BY MemoryTyped DEF IInv
    <3> QED
      BY <1>1, <1>2, <1>5, <2>2, <3>1, DueLater DEF Pledged, ListedDue
  <2> QED
    BY <2>1, <2>2
<1>6. \A o \in Order : Listed(x, o)' <=> Listed(x, o)
  BY <1>1 DEF Listed, process
<1> QED
  BY <1>1, <1>3, <1>4, <1>5, <1>6 DEF Pledged, ListedDue, process

(* A process dies: nothing is dropped.                                     *)
LEMMA AbortPledged ==
  ASSUME IInv, AllPledged, NEW p \in Process, Abort(p),
         NEW x \in Item, x \notin disturbed', x \notin repeated'
  PROVE  Pledged(x)'
<1>1. /\ resv' = resv /\ now' = now /\ repeated' = repeated /\ Forget(p) /\ x \notin disturbed
  BY DEF Abort, tables
<1> QED
  BY <1>1, ForgetPledged DEF AllPledged

(* Every step keeps the promises.                                          *)
LEMMA PledgedInductive == IInv /\ AllKept /\ AllPledged /\ [Next]_vars => AllPledged'
<1> SUFFICES ASSUME IInv, AllKept, AllPledged, [Next]_vars,
                    NEW x \in Item, x \notin disturbed', x \notin repeated'
             PROVE  Pledged(x)'
  BY DEF AllPledged
<1>1. Request \subseteq Process /\ Job \subseteq Process
  BY DEF Process
<1>2. ASSUME NEW p \in Process, Save(p) PROVE Pledged(x)'
  BY <1>2, SaveRowPledged, DeleteReservationsPledged, InsertReservationsPledged DEF Save
<1>3. ASSUME NEW j \in Job, CronQuery(j) \/ CronStep(j) PROVE Pledged(x)'
  BY <1>1, <1>2, <1>3, CronQueryPledged, CronRowPledged, CronReservationsPledged,
     CronReleasePledged
     DEF CronStep
<1>4. CASE UNCHANGED vars
  BY <1>4 DEF AllPledged, Pledged, ListedDue, Listed, vars, tables, process, history
<1> QED
  BY <1>1, <1>2, <1>3, <1>4, CreatePledged, FindInventoryPledged, RunCommandPledged,
     AbortPledged,
     TickPledged
     DEF Next, Proceed

(* At the start nothing is promised.                                       *)
LEMMA InitPledged == Init => AllPledged
<1> SUFFICES ASSUME Init, NEW i \in Item PROVE Pledged(i)
  BY DEF AllPledged
<1>1. \A p \in Process : /\ item[p] = NoItem
                         /\ agenda[p].todo = <<>> /\ agenda[p].loaded = <<>>
  BY Blanks DEF Init
<1>2. \A o : ~Listed(i, o)
  BY <1>1 DEF Listed, Process
<1> QED
  BY <1>1, <1>2, Blanks DEF Pledged, ListedDue, GroupsDue

-----------------------------------------------------------------------------
(* What an undisturbed inventory holds stays, except where a save writes   *)
(* its row.                                                                *)

(* The same of the next state.                                             *)
LEMMA HeldIsThen ==
  ASSUME NEW i \in Item
  PROVE  /\ (\A p \in Process : ~(item'[p] = i /\ pc'[p] \in Commit)) => Held(i)' = resv'[i]
         /\ \A p \in Process :
              /\ item'[p] = i /\ pc'[p] \in Commit
              /\ \A q \in Process : item'[q] = i /\ pc'[q] \in Commit => q = p
              => Held(i)' = mem'[p].resv
<1>1. ASSUME NEW p \in Process, item'[p] = i /\ pc'[p] \in Commit,
             \A q \in Process : item'[q] = i /\ pc'[q] \in Commit => q = p
      PROVE  Held(i)' = mem'[p].resv
  <2>1. (CHOOSE q \in Process : item'[q] = i /\ pc'[q] \in {"deleteReservations", "insertReservations"}) = p
    BY <1>1 DEF Commit
  <2> QED
    BY <1>1, <2>1 DEF Held, Committing, Commit
<1>2. (\A p \in Process : ~(item'[p] = i /\ pc'[p] \in Commit)) => Held(i)' = resv'[i]
  BY DEF Held, Committing, Commit
<1> QED
  BY <1>1, <1>2

(* Only p moves.                                                           *)
Others(p) ==
  \A q \in Process \ {p} : pc'[q] = pc[q] /\ item'[q] = item[q] /\ mem'[q] = mem[q]

(* The process of a turn is the one that moves.                            *)
LEMMA TurnOthers ==
  ASSUME Agents, NEW p \in Process, NEW s, NEW it, NEW c, NEW m, NEW b, NEW a,
         Turn(p, s, it, c, m, b, a)
  PROVE  Others(p) /\ pc'[p] = s /\ item'[p] = it /\ mem'[p] = m
BY DEF Agents, Turn, Others

(* The list stays when p goes on committing it, puts it back in the table, *)
(* or has nothing to do with it.                                           *)
LEMMA HeldStays ==
  ASSUME IInv, IInv', NEW i \in Item, i \notin disturbed, i \notin disturbed',
         NEW p \in Process, Others(p),
         \/ /\ Committing(p, i) /\ item'[p] = i /\ pc'[p] \in Commit /\ mem'[p] = mem[p]
         \/ /\ Committing(p, i) /\ pc'[p] \notin Commit /\ resv'[i] = mem[p].resv
         \/ /\ ~Committing(p, i) /\ ~(item'[p] = i /\ pc'[p] \in Commit) /\ resv'[i] = resv[i]
  PROVE  Held(i)' = Held(i)
<1>1. /\ \A q, r \in Process : Committing(q, i) /\ Committing(r, i) => q = r
      /\ \A q, r \in Process : item'[q] = i /\ item'[r] = i => q = r
  <2>1. OneHolder(i) /\ OneHolder(i)'
    BY DEF IInv, AllSound, Sound
  <2> QED
    BY <2>1 DEF OneHolder, Holds, Committing
<1>2. CASE Committing(p, i) /\ item'[p] = i /\ pc'[p] \in Commit /\ mem'[p] = mem[p]
  <2>1. Held(i) = mem[p].resv
    BY <1>1, <1>2, HeldIs
  <2>2. Held(i)' = mem'[p].resv
    BY <1>1, <1>2, HeldIsThen
  <2> QED
    BY <1>2, <2>1, <2>2
<1>3. CASE Committing(p, i) /\ pc'[p] \notin Commit /\ resv'[i] = mem[p].resv
  <2>1. Held(i) = mem[p].resv
    BY <1>1, <1>3, HeldIs
  <2>2. \A q \in Process : ~(item'[q] = i /\ pc'[q] \in Commit)
    BY <1>1, <1>3 DEF Others, Committing, Commit
  <2> QED
    BY <1>3, <2>1, <2>2, HeldIsThen
<1>4. CASE ~Committing(p, i) /\ ~(item'[p] = i /\ pc'[p] \in Commit) /\ resv'[i] = resv[i]
  <2>1. CASE \A q \in Process : ~Committing(q, i)
    <3>1. \A q \in Process : ~(item'[q] = i /\ pc'[q] \in Commit)
      BY <1>4, <2>1 DEF Others, Committing, Commit
    <3> QED
      BY <1>4, <2>1, <3>1, HeldIs, HeldIsThen
  <2>2. ASSUME NEW q \in Process, Committing(q, i) PROVE Held(i)' = Held(i)
    <3>1. Held(i) = mem[q].resv
      BY <1>1, <2>2, HeldIs
    <3>2. item'[q] = i /\ pc'[q] \in Commit /\ mem'[q] = mem[q]
      BY <1>4, <2>2 DEF Others, Committing, Commit
    <3>3. Held(i)' = mem'[q].resv
      BY <1>1, <3>2, HeldIsThen
    <3> QED
      BY <3>1, <3>2, <3>3
  <2> QED
    BY <2>1, <2>2
<1> QED
  BY <1>2, <1>3, <1>4

(* A step that changes nothing keeps it.                                   *)
LEMMA StillHeld ==
  ASSUME IInv, IInv', NEW i \in Item, i \notin disturbed, i \notin disturbed',
         UNCHANGED <<tables, process>>
  PROVE  Held(i)' = Held(i)
<1>1. resv' = resv /\ pc' = pc /\ item' = item /\ mem' = mem
  BY DEF tables, process
<1>2. CASE Process = {}
  BY <1>1, <1>2, HeldIs, HeldIsThen
<1>3. ASSUME NEW p \in Process PROVE Held(i)' = Held(i)
  <2>1. Others(p)
    BY <1>1 DEF Others
  <2> QED
    BY <1>1, <2>1, HeldStays DEF Committing, Commit
<1> QED
  BY <1>2, <1>3

(* A cron run goes on with the next group, or ends.                        *)
LEMMA NextGroupHeld ==
  ASSUME IInv, NEW j \in Process, NEW loaded, NextGroup(j, loaded)
  PROVE  Others(j) /\ pc'[j] \notin Commit
BY DEF NextGroup, Finish, Forget, IInv, Agents, Others, Commit

(* The steps that leave the list alone.                                    *)
LEMMA QuietHeld ==
  ASSUME IInv, IInv', NEW x \in Item, x \notin disturbed, x \notin disturbed',
         NEW p \in Process,
         \/ p \in Request /\ \E i \in Item : \E c \in Command : FindInventory(p, i, c)
         \/ p \in Request /\ RunCommand(p)
         \/ p \in Job /\ (CronQuery(p) \/ CronRow(p) \/ CronReservations(p) \/ CronRelease(p))
         \/ SaveSelect(p)
         \/ Abort(p)
  PROVE  Held(x)' = Held(x)
<1>1. resv' = resv
  BY DEF FindInventory, RunCommand, CronQuery, CronRow, CronReservations, CronRelease,
     SaveSelect,
         Abort, tables
<1>2. ~Committing(p, x)
  BY DEF FindInventory, Start, RunCommand, CronQuery, CronRow, CronReservations,
     CronRelease,
         SaveSelect, Abort, Committing
<1>3. Others(p) /\ pc'[p] \notin Commit
  <2>1. CASE \E i \in Item : \E c \in Command : FindInventory(p, i, c)
    BY <2>1 DEF FindInventory, Start, IInv, Agents, Others, Commit
  <2>2. CASE RunCommand(p)
    BY <2>2 DEF RunCommand, GoTo, Finish, Forget, IInv, Agents, Others, Commit
  <2>3. CASE CronQuery(p) \/ CronRow(p)
    BY <2>3 DEF CronQuery, CronRow, IInv, Agents, Others, Commit
  <2>4. CASE CronReservations(p)
    <3>1. CASE \E loaded : NextGroup(p, loaded)
      BY <3>1, NextGroupHeld
    <3>2. CASE /\ pc' = [pc EXCEPT ![p] = "cronRow"]
               /\ item' = [item EXCEPT ![p] = NoItem]
               /\ mem' = mem
      BY <3>2 DEF IInv, Agents, Others, Commit
    <3> QED
      BY <2>4, <3>1, <3>2 DEF CronReservations
  <2>5. CASE CronRelease(p)
    <3>1. pc[p] \notin Commit
      BY <2>5 DEF CronRelease, Commit
    <3> QED
      BY <2>5, <3>1 DEF CronRelease, GoTo, Finish, Forget, IInv, Agents, Others, Commit
  <2>6. CASE SaveSelect(p)
    BY <2>6 DEF SaveSelect, GoTo, IInv, Agents, Others, Commit
  <2>7. CASE Abort(p)
    BY <2>7 DEF Abort, Forget, IInv, Agents, Others, Commit
  <2> QED
    BY <2>1, <2>2, <2>3, <2>4, <2>5, <2>6, <2>7
<1> QED
  BY <1>1, <1>2, <1>3, HeldStays

(* So do the delete and the insert of save: one keeps the list in memory,  *)
(* the other puts it back.                                                 *)
LEMMA SaveHeld ==
  ASSUME IInv, IInv', AllKept, NEW x \in Item, x \notin disturbed, x \notin disturbed',
         NEW p \in Process, DeleteReservations(p) \/ InsertReservations(p)
  PROVE  Held(x)' = Held(x)
<1>1. CASE DeleteReservations(p)
  <2>1. /\ Others(p) /\ pc[p] = "deleteReservations" /\ pc'[p] = "insertReservations"
        /\ item'[p] = item[p] /\ mem'[p] = mem[p] /\ (x # item[p] => resv'[x] = resv[x])
    BY <1>1 DEF DeleteReservations, GoTo, IInv, Agents, Tables, Others
  <2> QED
    BY <2>1, HeldStays DEF Committing, Commit
<1>2. CASE InsertReservations(p)
  <2>1. Others(p) /\ pc'[p] \notin Commit
    BY <1>2, NextGroupHeld DEF InsertReservations
  <2>2. /\ pc[p] = "insertReservations" /\ resv' = [resv EXCEPT ![item[p]] = @ \o mem[p].resv]
        /\ (x # item[p] => resv'[x] = resv[x])
    BY <1>2 DEF InsertReservations, IInv, Tables
  <2>3. CASE x = item[p]
    <3>1. resv'[x] = mem[p].resv
      BY <2>2, <2>3, ListReturns DEF AllKept
    <3> QED
      BY <2>1, <2>2, <2>3, <3>1, HeldStays DEF Committing
  <2>4. CASE x # item[p]
    BY <2>1, <2>2, <2>4, HeldStays DEF Committing
  <2> QED
    BY <2>3, <2>4
<1> QED
  BY <1>1, <1>2

(* POST /inventory finds nothing held, or works on another inventory.      *)
LEMMA CreateHeld ==
  ASSUME IInv, IInv', AllKept, NEW x \in Item, x \notin disturbed, x \notin disturbed',
         NEW r \in Request, NEW i \in Item, NEW q \in 0 .. MaxStock, Create(r, i, q)
  PROVE  Held(x) = <<>> \/ Held(x)' = Held(x)
<1>1. r \in Process
  BY DEF Process
<1>2. /\ resv' = resv /\ ~row[i].exists /\ pc[r] = "idle" /\ item'[r] = i /\ Others(r)
  BY <1>1 DEF Create, Start, IInv, Agents, Others
<1>3. CASE x = i
  <2>1. \A p \in Process : ~Holds(p, x)
    BY <1>3, Disturbs DEF IInv, Create, Start
  <2>2. \A p \in Process : ~Committing(p, x)
    BY <2>1 DEF Holds, Committing
  <2>3. resv[x] = <<>>
    BY <1>2, <1>3, <2>2 DEF AllKept, Kept, Agrees
  <2> QED
    BY <2>2, <2>3, HeldIs
<1>4. CASE x # i
  BY <1>1, <1>2, <1>4, HeldStays DEF Committing
<1> QED
  BY <1>3, <1>4

(* The update of save: the list of the copy replaces that of the table.    *)
LEMMA SaveUpdateHeld ==
  ASSUME IInv, IInv', NEW x \in Item, x \notin disturbed, x \notin disturbed', Pledged(x),
         NEW p \in Process, SaveUpdate(p)
  PROVE  \/ Held(x)' = Held(x)
         \/ item[p] = x /\ \A k \in DOMAIN Held(x) :
              \/ Held(x)[k] \in ToSet(Held(x)')
              \/ Held(x)[k].expiresAt <= now
              \/ Held(x)[k].order \in Gone(p, command[p])
<1>1. /\ Others(p) /\ pc[p] = "update" /\ pc'[p] = "deleteReservations"
      /\ item'[p] = item[p] /\ mem'[p] = mem[p] /\ resv' = resv
  BY DEF SaveUpdate, GoTo, IInv, Agents, Others
<1>2. CASE x # item[p]
  BY <1>1, <1>2, HeldStays DEF Committing
<1>3. CASE x = item[p]
  <2>1. Covers(mem[p].resv, resv[x], now, Gone(p, command[p]))
    BY <1>1, <1>3 DEF Pledged, Pledge
  <2>2. \A q \in Process : ~Committing(q, x)
    <3>1. Holds(p, x)
      BY <1>3 DEF Holds
    <3> QED
      BY <1>1, <3>1, HoldsAlone DEF Committing
  <2>3. Held(x) = resv[x]
    BY <2>2, HeldIs
  <2>4. Held(x)' = mem[p].resv
    <3>1. \A q \in Process : item'[q] = x /\ pc'[q] \in Commit => q = p
      BY <1>1, <2>2 DEF Others, Committing, Commit
    <3> QED
      BY <1>1, <1>3, <3>1, HeldIsThen DEF Commit
  <2> QED
    BY <1>3, <2>1, <2>3, <2>4 DEF Covers
<1> QED
  BY <1>2, <1>3

(* What was disturbed stays so.                                            *)
LEMMA OnlyDisturbed == Tables /\ Next => disturbed \subseteq disturbed'
<1> SUFFICES ASSUME Tables, Next PROVE disturbed \subseteq disturbed'
  OBVIOUS
<1>1. CASE \E i \in Item : Disturb(i)
  BY <1>1, Disturbs
<1>2. CASE UNCHANGED disturbed
  BY <1>2
<1>3. ASSUME NEW p \in Process, Save(p) PROVE UNCHANGED disturbed
  BY <1>3 DEF Save, SaveSelect, SaveUpdate, DeleteReservations, InsertReservations,
     history
<1>4. ASSUME NEW j \in Job, CronRow(j) PROVE disturbed \subseteq disturbed'
  BY <1>4 DEF CronRow, Disturb
<1>5. ASSUME NEW p \in Process, Abort(p) PROVE disturbed \subseteq disturbed'
  BY <1>5 DEF Abort
<1>6. ASSUME NEW r \in Request, NEW i \in Item,
             \/ \E q \in 0 .. MaxStock : Create(r, i, q)
             \/ \E c \in Command : FindInventory(r, i, c)
      PROVE  disturbed \subseteq disturbed'
  BY <1>1, <1>6 DEF Create, FindInventory, Start
<1>7. ASSUME NEW r \in Request, RunCommand(r) PROVE UNCHANGED disturbed
  BY <1>7 DEF RunCommand
<1>8. ASSUME NEW j \in Job, CronQuery(j) \/ CronReservations(j) \/ CronRelease(j)
      PROVE  UNCHANGED disturbed
  BY <1>8 DEF CronQuery, CronReservations, CronRelease, history
<1>9. Tick => UNCHANGED disturbed
  BY DEF Tick, history
<1>10. Request \subseteq Process /\ Job \subseteq Process
  BY DEF Process
<1> QED
  BY <1>2, <1>3, <1>4, <1>5, <1>6, <1>7, <1>8, <1>9, <1>10 DEF Next, Proceed, CronStep

(* No step drops a reservation of an undisturbed inventory that is not due *)
(* and not given up by a handler of its own order: not the save of another *)
(* order's handler, not a cron run, however they cross.                    *)
THEOREM PromisesHold == Spec => PromiseKept
<1> DEFINE Kind(i) == \A k \in DOMAIN Held(i) :
             LET v == Held(i)[k] IN
             \/ i \in disturbed' \cup repeated
             \/ v.expiresAt <= now
             \/ v \in ToSet(Held(i)')
             \/ \E r \in Request :
                  /\ item[r] = i
                  /\ command[r].op \in {"release", "consume"}
                  /\ command[r].order = v.order
<1>1. Init => IInv /\ AllKept /\ AllPledged
  BY InitIInv, InitKept, InitPledged
<1>2. IInv /\ AllKept /\ AllPledged /\ [Next]_vars => (IInv /\ AllKept /\ AllPledged)'
  BY Inductive, KeptInductive, PledgedInductive
<1>3. IInv /\ AllKept /\ AllPledged /\ [Next]_vars => [\A i \in Item : Kind(i)]_vars
  <2> SUFFICES ASSUME IInv, AllKept, AllPledged, Next, NEW i \in Item,
                      i \notin disturbed', i \notin repeated
               PROVE  Kind(i)
    OBVIOUS
  <2>1. IInv' /\ i \notin disturbed /\ Pledged(i)
    <3>1. disturbed \subseteq disturbed'
      BY OnlyDisturbed DEF IInv
    <3> QED
      BY <3>1, Inductive DEF AllPledged
  <2>2. CASE Held(i)' = Held(i)
    BY <2>2 DEF ToSet
  <2>3. CASE Held(i) = <<>>
    BY <2>3
  <2>4. ASSUME NEW p \in Process, SaveUpdate(p) PROVE Kind(i)
    <3>1. \A o : o \in Gone(p, command[p]) =>
            p \in Request /\ command[p].op \in {"release", "consume"} /\ command[p].order = o
      BY DEF Gone
    <3>2. CASE item[p] = i /\ \A k \in DOMAIN Held(i) :
                 \/ Held(i)[k] \in ToSet(Held(i)')
                 \/ Held(i)[k].expiresAt <= now
                 \/ Held(i)[k].order \in Gone(p, command[p])
      BY <3>1, <3>2
    <3> QED
      BY <2>1, <2>2, <2>4, <3>2, SaveUpdateHeld
  <2>5. ASSUME NEW r \in Request, NEW x \in Item, NEW q \in 0 .. MaxStock, Create(r, x, q)
        PROVE  Kind(i)
    BY <2>1, <2>2, <2>3, <2>5, CreateHeld
  <2>6. ASSUME NEW p \in Process, Save(p) PROVE Kind(i)
    BY <2>1, <2>2, <2>4, <2>6, QuietHeld, SaveHeld DEF Save
  <2>7. CASE Tick
    BY <2>1, <2>2, <2>7, StillHeld DEF Tick
  <2>8. Request \subseteq Process /\ Job \subseteq Process
    BY DEF Process
  <2> QED
    BY <2>1, <2>2, <2>5, <2>6, <2>7, <2>8, QuietHeld DEF Next, Proceed, CronStep
<1> QED
  BY <1>1, <1>2, <1>3, PTL DEF Spec, PromiseKept
=============================================================================
