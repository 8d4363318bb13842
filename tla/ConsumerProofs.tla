--------------------------- MODULE ConsumerProofs ---------------------------
(***************************************************************************)
(* Proofs about the consumer's side, for any profiles, entries, limits and *)
(* handlers of consumer-service, and for any dishes, places, orders and    *)
(* clicks at the checkout.                                                 *)
(*                                                                         *)
(* Profiles: every list that a domain method makes of a list in order is   *)
(* in order; a save writes lists somebody made or leaves those that are    *)
(* there, so that the lists stay in order whatever saves overwrite.  Of an *)
(* undisturbed profile the one handler writes what it made of the row that *)
(* is there, which is a step of AddressBook for each of the lists.         *)
(*                                                                         *)
(* Checkout: what is true of a form on the page stays true of the form a   *)
(* press went on with, how far a press has come says what is ordered, paid *)
(* and held, and an emptied cart is never the cart of an earlier press.    *)
(***************************************************************************)
EXTENDS ConsumerStore, Checkout, SequenceTheorems, SumTheorems, TLAPS

-----------------------------------------------------------------------------
(* The aggregate.                                                          *)

(* An entry of a list is found.                                            *)
LEMMA PositionIsThere ==
  ASSUME NEW b \in Book, NEW e, Has(b, e)
  PROVE  Position(b, e) \in 1 .. Len(b) /\ b[Position(b, e)].id = e
BY DEF Has, Position, Book

(* What a list without its entry k looks like.                             *)
LEMMA WithoutIs ==
  ASSUME NEW b \in Book, NEW k \in 1 .. Len(b)
  PROVE  /\ Without(b, k) \in Book /\ Len(Without(b, k)) = Len(b) - 1
         /\ DOMAIN Without(b, k) = 1 .. Len(b) - 1
         /\ \A i \in 1 .. Len(b) - 1 :
              Without(b, k)[i] = IF i < k THEN b[i] ELSE b[i + 1]
<1>1. Len(b) - 1 \in Nat /\ \A i \in 1 .. Len(b) : b[i] \in Item BY DEF Book
<1>2. Without(b, k) \in [1 .. Len(b) - 1 -> Item] BY <1>1 DEF Without
<1>3. Without(b, k) \in Seq(Item) BY <1>1, <1>2, SeqDef
<1>4. Len(Without(b, k)) = Len(b) - 1 BY <1>1, <1>2, <1>3
<1> QED BY <1>2, <1>3, <1>4 DEF Without, Book

(* What is left is what was there, but for entry k.                        *)
LEMMA WithoutDistinct ==
  ASSUME NEW b \in Book, NEW k \in 1 .. Len(b), GoodBook(b)
  PROVE  /\ DistinctIn(Without(b, k))
         /\ \A i \in 1 .. Len(b) - 1 : \E j \in 1 .. Len(b) :
              j # k /\ Without(b, k)[i] = b[j]
         /\ \A j \in 1 .. Len(b) : j # k =>
              \E i \in 1 .. Len(b) - 1 : Without(b, k)[i] = b[j]
         /\ \A i, j \in 1 .. Len(b) - 1 :
              Without(b, k)[i].isDefault /\ Without(b, k)[j].isDefault => i = j
<1> DEFINE Old(i) == IF i < k THEN i ELSE i + 1
<1>1. Len(b) \in Nat /\ DOMAIN b = 1 .. Len(b) BY DEF Book
<1>2. \A i \in 1 .. Len(b) - 1 : Old(i) \in 1 .. Len(b) /\ Old(i) # k
        /\ Without(b, k)[i] = b[Old(i)]
  BY <1>1, WithoutIs
<1>3. \A i, j \in 1 .. Len(b) - 1 : Old(i) = Old(j) => i = j BY <1>1
<1>4. DOMAIN Without(b, k) = 1 .. Len(b) - 1 BY WithoutIs
<1>5. DistinctIn(Without(b, k))
  <2> SUFFICES ASSUME NEW i \in 1 .. Len(b) - 1, NEW j \in 1 .. Len(b) - 1,
                      Without(b, k)[i].id = Without(b, k)[j].id
               PROVE  i = j
    BY <1>4 DEF DistinctIn
  <2>1. b[Old(i)].id = b[Old(j)].id /\ Old(i) \in DOMAIN b /\ Old(j) \in DOMAIN b
    BY <1>1, <1>2
  <2>2. Old(i) = Old(j) BY <2>1 DEF GoodBook, DistinctIn
  <2> QED BY <1>3, <2>2
<1>6. \A i, j \in 1 .. Len(b) - 1 :
        Without(b, k)[i].isDefault /\ Without(b, k)[j].isDefault => i = j
  BY <1>1, <1>2, <1>3 DEF GoodBook, OneDefaultIn
<1>7. ASSUME NEW j \in 1 .. Len(b), j # k
      PROVE  \E i \in 1 .. Len(b) - 1 : Without(b, k)[i] = b[j]
  <2>1. CASE j < k
    <3>1. j \in 1 .. Len(b) - 1 /\ Without(b, k)[j] = b[j] BY <1>1, <2>1, WithoutIs
    <3> QED BY <3>1
  <2>2. CASE j > k
    <3>1. j - 1 \in 1 .. Len(b) - 1 /\ ~(j - 1 < k) /\ (j - 1) + 1 = j BY <1>1, <2>2
    <3>2. Without(b, k)[j - 1] = b[j] BY <3>1, WithoutIs
    <3> QED BY <3>1, <3>2
  <2> QED BY <1>1, <1>7, <2>1, <2>2
<1> QED BY <1>2, <1>5, <1>6, <1>7

(* Adding keeps a list in order if it is below the limit and the id is new. *)
LEMMA AddedGood ==
  ASSUME NEW b \in Book, GoodBook(b), Len(b) < MaxEntries,
         NEW e \in Entry, NEW text \in Text, ~Has(b, e)
  PROVE  Added(b, e, text) \in Book /\ GoodBook(Added(b, e, text))
<1> DEFINE x == [id |-> e, text |-> text, isDefault |-> b = <<>>]
           a == Append(b, x)
           n == Len(b)
<1>1. x \in Item BY DEF Item
<1>2. /\ n \in Nat /\ DOMAIN b = 1 .. n /\ a \in Seq(Item)
      /\ Len(a) = n + 1 /\ DOMAIN a = 1 .. n + 1
      /\ a[n + 1] = x /\ \A i \in 1 .. n : a[i] = b[i]
  BY <1>1 DEF Book
<1>3. b = <<>> <=> n = 0 BY DEF Book
<1>4. \A i \in 1 .. n + 1 : i \in 1 .. n \/ i = n + 1 BY <1>2
<1>5. DistinctIn(a)
  <2>1. \A i \in 1 .. n : a[i].id # e BY <1>2 DEF Has
  <2>2. a[n + 1].id = e BY <1>2
  <2>3. \A i, j \in 1 .. n : a[i].id = a[j].id => i = j
    BY <1>2 DEF GoodBook, DistinctIn
  <2> HIDE DEF a
  <2> QED BY <1>2, <1>4, <2>1, <2>2, <2>3 DEF DistinctIn
<1>6. OneDefaultIn(a)
  <2>1. CASE n = 0
    <3>1. x.isDefault BY <1>3, <2>1
    <3>2. a[1].isDefault /\ DOMAIN a = {1} BY <1>2, <2>1, <3>1
    <3> QED BY <3>2 DEF OneDefaultIn
  <2>2. CASE n > 0
    <3>1. (b = <<>>) = FALSE BY <1>3, <2>2
    <3>2. x.isDefault = FALSE BY <3>1
    <3>3. ~a[n + 1].isDefault BY <1>2, <3>2
    <3>4. PICK i \in 1 .. n : b[i].isDefault
      BY <1>2, <1>3, <2>2 DEF GoodBook, OneDefaultIn
    <3>5. a[i].isDefault /\ i \in DOMAIN a BY <1>2, <3>4
    <3>6. \A j, k \in 1 .. n : a[j].isDefault /\ a[k].isDefault => j = k
      BY <1>2 DEF GoodBook, OneDefaultIn
    <3> HIDE DEF a
    <3> QED BY <1>2, <1>4, <3>3, <3>5, <3>6 DEF OneDefaultIn
  <2> QED BY <1>2, <2>1, <2>2
<1>7. Len(a) <= MaxEntries BY <1>2, BoundsAssumption
<1> QED BY <1>2, <1>5, <1>6, <1>7 DEF Added, Book, GoodBook

(* Removing keeps it in order, with one entry less and none new.           *)
LEMMA RemovedGood ==
  ASSUME NEW b \in Book, GoodBook(b), NEW e \in Entry, Has(b, e)
  PROVE  /\ Removed(b, e) \in Book /\ GoodBook(Removed(b, e))
         /\ Len(Removed(b, e)) = Len(b) - 1
         /\ \A x \in Entry : ~Has(b, x) => ~Has(Removed(b, e), x)
<1> DEFINE k == Position(b, e)
           rest == Without(b, k)
           n == Len(b) - 1
           first == [i \in DOMAIN rest |->
                       IF i = 1 THEN [rest[i] EXCEPT !.isDefault = TRUE] ELSE rest[i]]
<1>1. k \in 1 .. Len(b) BY PositionIsThere
<1>2. n \in Nat /\ DOMAIN b = 1 .. Len(b) BY <1>1 DEF Book
<1>3. rest \in Seq(Item) /\ Len(rest) = n /\ DOMAIN rest = 1 .. n
  BY <1>1, WithoutIs DEF Book
<1>4. /\ DistinctIn(rest)
      /\ \A i \in 1 .. n : \E j \in 1 .. Len(b) : j # k /\ rest[i] = b[j]
      /\ \A j \in 1 .. Len(b) : j # k => \E i \in 1 .. n : rest[i] = b[j]
      /\ \A i, j \in 1 .. n : rest[i].isDefault /\ rest[j].isDefault => i = j
  BY <1>1, WithoutDistinct
<1>5. n <= MaxEntries BY <1>2, BoundsAssumption DEF GoodBook
<1>6. CASE b[k].isDefault /\ rest # <<>>
  <2>1. Removed(b, e) = first BY <1>6 DEF Removed
  <2>2. \A i \in 1 .. n : rest[i] \in Item BY <1>3
  <2>3. first \in [1 .. n -> Item] BY <1>3, <2>2 DEF Item
  <2>4. /\ first \in Seq(Item) /\ Len(first) = n /\ DOMAIN first = 1 .. n
        /\ \A i \in 1 .. n : first[i].id = rest[i].id
        /\ \A i \in 1 .. n : i # 1 => first[i].isDefault = rest[i].isDefault
        /\ n > 0 => first[1].isDefault
    BY <1>2, <1>3, <2>2, <2>3, SeqDef DEF Item
  <2>5. \A i \in 1 .. n : ~rest[i].isDefault
    BY <1>1, <1>2, <1>4, <1>6 DEF GoodBook, OneDefaultIn
  <2>6. n > 0 BY <1>2, <1>3, <1>6
  <2> HIDE DEF first
  <2>7. OneDefaultIn(first) BY <2>4, <2>5, <2>6 DEF OneDefaultIn
  <2>8. DistinctIn(first) BY <1>3, <1>4, <2>4 DEF DistinctIn
  <2>9. ASSUME NEW x \in Entry, ~Has(b, x) PROVE ~Has(first, x)
    <3>1. \A j \in 1 .. Len(b) : b[j].id # x BY <1>2, <2>9 DEF Has
    <3>2. \A i \in 1 .. n : rest[i].id # x BY <1>4, <3>1
    <3> QED BY <2>4, <3>2 DEF Has
  <2> QED BY <1>5, <2>1, <2>4, <2>7, <2>8, <2>9 DEF GoodBook, Book
<1>7. CASE ~(b[k].isDefault /\ rest # <<>>)
  <2>1. Removed(b, e) = rest BY <1>7 DEF Removed
  <2> HIDE DEF rest, k
  <2>2. rest # <<>> => \E i \in 1 .. n : rest[i].isDefault
    <3>1. SUFFICES ASSUME rest # <<>> PROVE \E i \in 1 .. n : rest[i].isDefault
      OBVIOUS
    <3>2. b # <<>> /\ ~b[k].isDefault BY <1>1, <1>2, <1>7, <3>1
    <3>3. PICK j \in 1 .. Len(b) : b[j].isDefault
      BY <1>2, <3>2 DEF GoodBook, OneDefaultIn
    <3> QED BY <1>4, <3>2, <3>3
  <2>3. OneDefaultIn(rest) BY <1>3, <1>4, <2>2 DEF OneDefaultIn
  <2>4. \A x \in Entry : ~Has(b, x) => ~Has(rest, x) BY <1>2, <1>3, <1>4 DEF Has
  <2> QED BY <1>3, <1>4, <1>5, <2>1, <2>3, <2>4 DEF GoodBook, Book
<1> QED BY <1>6, <1>7

(* So does choosing another default.                                       *)
LEMMA DefaultedGood ==
  ASSUME NEW b \in Book, GoodBook(b), NEW e \in Entry, Has(b, e)
  PROVE  Defaulted(b, e) \in Book /\ GoodBook(Defaulted(b, e))
<1> DEFINE d == Defaulted(b, e)
           n == Len(b)
<1>1. n \in Nat /\ DOMAIN b = 1 .. n /\ \A i \in 1 .. n : b[i] \in Item BY DEF Book
<1>2. d \in [1 .. n -> Item] BY <1>1 DEF Defaulted, Item
<1>3. d \in Seq(Item) /\ Len(d) = n /\ DOMAIN d = 1 .. n BY <1>1, <1>2, SeqDef
<1>4. \A i \in 1 .. n : d[i].id = b[i].id /\ d[i].isDefault = (b[i].id = e)
  BY <1>1 DEF Defaulted, Item
<1> HIDE DEF d
<1>5. DistinctIn(d) BY <1>1, <1>3, <1>4 DEF GoodBook, DistinctIn
<1>6. OneDefaultIn(d) BY <1>1, <1>3, <1>4 DEF GoodBook, DistinctIn, OneDefaultIn, Has
<1>7. d \in Book /\ GoodBook(d) BY <1>3, <1>5, <1>6 DEF GoodBook, Book
<1> QED BY <1>7 DEF d

(* So does a change of an entry's contents.                                *)
LEMMA UpdatedGood ==
  ASSUME NEW b \in Book, GoodBook(b), NEW e, NEW text \in Text
  PROVE  Updated(b, e, text) \in Book /\ GoodBook(Updated(b, e, text))
<1> DEFINE d == Updated(b, e, text)
           n == Len(b)
<1>1. n \in Nat /\ DOMAIN b = 1 .. n /\ \A i \in 1 .. n : b[i] \in Item BY DEF Book
<1>2. d \in [1 .. n -> Item] BY <1>1 DEF Updated, Item
<1>3. d \in Seq(Item) /\ Len(d) = n /\ DOMAIN d = 1 .. n BY <1>1, <1>2, SeqDef
<1>4. \A i \in 1 .. n : d[i].id = b[i].id /\ d[i].isDefault = b[i].isDefault
  BY <1>1 DEF Updated, Item
<1>5. b # <<>> <=> n # 0 BY DEF Book
<1>6. d # <<>> <=> n # 0 BY <1>3
<1> HIDE DEF d
<1>7. DistinctIn(d) BY <1>1, <1>3, <1>4 DEF GoodBook, DistinctIn
<1>8. OneDefaultIn(d) BY <1>1, <1>3, <1>4, <1>5, <1>6 DEF GoodBook, OneDefaultIn
<1>9. d \in Book /\ GoodBook(d) BY <1>3, <1>7, <1>8 DEF GoodBook, Book
<1> QED BY <1>9 DEF d

(* So does putting a new entry in place of an old one.                     *)
LEMMA ReplacedGood ==
  ASSUME NEW b \in Book, GoodBook(b), NEW e \in Entry, Has(b, e),
         NEW x \in Entry, ~Has(b, x), NEW text \in Text
  PROVE  LET a == Added(Removed(b, e), x, text) IN a \in Book /\ GoodBook(a)
<1> DEFINE rest == Removed(b, e)
<1>1. rest \in Book /\ GoodBook(rest) /\ Len(rest) = Len(b) - 1 /\ ~Has(rest, x)
  BY RemovedGood
<1>2. Len(b) \in Nat /\ Len(b) <= MaxEntries BY DEF Book, GoodBook
<1>3. Len(rest) < MaxEntries BY <1>1, <1>2, BoundsAssumption
<1> HIDE DEF rest
<1>4. Added(rest, x, text) \in Book /\ GoodBook(Added(rest, x, text))
  BY <1>1, <1>3, AddedGood
<1> QED BY <1>4 DEF rest

(* Whatever a command that is not refused makes of a list, it is in order. *)
LEMMA ChangedGood ==
  ASSUME NEW c \in Command, NEW b \in Book, GoodBook(b), ~Refused(c, b),
         c.new # NoEntry => ~Has(b, c.new)
  PROVE  Changed(c, b) \in Book /\ GoodBook(Changed(c, b))
<1>1. Len(b) \in Nat BY DEF Book
<1>2. /\ c.op \in {"profile", "add", "remove", "setDefault", "update", "replace"}
      /\ c.text \in Text
      /\ c.op \in {"add", "replace"} => c.new \in Entry
      /\ c.op \in {"remove", "setDefault", "update", "replace"} => c.entry \in Entry
  BY DEF Command
<1>3. CASE c.op = "profile" BY <1>3 DEF Changed
<1>4. CASE c.op = "add"
  <2>1. Changed(c, b) = Added(b, c.new, c.text) BY <1>4 DEF Changed
  <2>2. Len(b) < MaxEntries BY <1>1, <1>4, BoundsAssumption DEF Refused
  <2>3. ~Has(b, c.new) BY <1>2, <1>4, NullAssumption
  <2> QED BY <1>2, <1>4, <2>1, <2>2, <2>3, AddedGood
<1>5. CASE c.op = "remove"
  <2>1. Changed(c, b) = Removed(b, c.entry) BY <1>5 DEF Changed
  <2>2. Has(b, c.entry) BY <1>5 DEF Refused
  <2> QED BY <1>2, <1>5, <2>1, <2>2, RemovedGood
<1>6. CASE c.op = "setDefault"
  <2>1. Changed(c, b) = Defaulted(b, c.entry) BY <1>6 DEF Changed
  <2>2. Has(b, c.entry) BY <1>6 DEF Refused
  <2> QED BY <1>2, <1>6, <2>1, <2>2, DefaultedGood
<1>7. CASE c.op = "update"
  <2>1. Changed(c, b) = Updated(b, c.entry, c.text) BY <1>7 DEF Changed
  <2> QED BY <1>2, <2>1, UpdatedGood
<1>8. CASE c.op = "replace"
  <2>1. Changed(c, b) = Added(Removed(b, c.entry), c.new, c.text) BY <1>8 DEF Changed
  <2>2. Has(b, c.entry) BY <1>8 DEF Refused
  <2>3. ~Has(b, c.new) BY <1>2, <1>8, NullAssumption
  <2> QED BY <1>2, <1>8, <2>1, <2>2, <2>3, ReplacedGood
<1> QED BY <1>2, <1>3, <1>4, <1>5, <1>6, <1>7, <1>8

(* ... and of a profile.                                                   *)
LEMMA AfterCommandGood ==
  ASSUME NEW c \in Command, NEW e \in Row, GoodRow(e), ~Refused(c, BookOf(c, e)),
         c.new # NoEntry => ~Has(e.addresses, c.new) /\ ~Has(e.methods, c.new)
  PROVE  AfterCommand(c, e) \in Row /\ GoodRow(AfterCommand(c, e))
<1>1. e.addresses \in Book /\ e.methods \in Book BY DEF Row
<1>2. GoodBook(e.addresses) /\ GoodBook(e.methods) BY DEF GoodRow
<1>3. CASE c.book = "addresses"
  <2>1. /\ Changed(c, e.addresses) \in Book
        /\ GoodBook(Changed(c, e.addresses))
    BY <1>1, <1>2, <1>3, ChangedGood DEF BookOf
  <2> QED BY <1>2, <1>3, <2>1 DEF AfterCommand, Row, GoodRow
<1>4. CASE c.book # "addresses"
  <2>1. /\ Changed(c, e.methods) \in Book
        /\ GoodBook(Changed(c, e.methods))
    BY <1>1, <1>2, <1>4, ChangedGood DEF BookOf
  <2> QED BY <1>2, <1>4, <2>1 DEF AfterCommand, Row, GoodRow
<1> QED BY <1>3, <1>4

(* So is a new profile, and one that is not there.                         *)
LEMMA AbsentGood ==
  /\ Absent \in Row /\ GoodRow(Absent)
  /\ NewConsumer \in Row /\ GoodRow(NewConsumer)
<1>1. <<>> \in Book /\ Len(<<>>) = 0 /\ DOMAIN <<>> = {} BY EmptySeq DEF Book
<1>2. GoodBook(<<>>) BY <1>1, BoundsAssumption DEF GoodBook, OneDefaultIn, DistinctIn
<1> QED BY <1>1, <1>2 DEF Absent, NewConsumer, Row, GoodRow

(* A save that merges columns writes each list as somebody made it.        *)
LEMMA MergedGood ==
  ASSUME NEW e \in Row, NEW b \in Row, NEW current \in Row, GoodRow(e), GoodRow(current)
  PROVE  Merged(e, b, current) \in Row /\ GoodRow(Merged(e, b, current))
BY DEF Merged, Row, GoodRow

-----------------------------------------------------------------------------
(* Handlers.                                                               *)

(* The first state is in order.                                            *)
LEMMA InitGood == Init => TypeOK /\ BooksGood
BY AbsentGood DEF Init, TypeOK, BooksGood

(* A handler may start with any profile in order in its memory.            *)
LEMMA StartGood ==
  ASSUME TypeOK, BooksGood, NEW r \in Request, NEW c \in Consumer, NEW e \in Row,
         GoodRow(e), Start(r, c, e)
  PROVE  TypeOK' /\ BooksGood'
<1>1. TypeOK' BY DEF TypeOK, Start, Disturb
<1>2. BooksGood' BY DEF TypeOK, Start, BooksGood
<1> QED BY <1>1, <1>2

(* A handler may write any profile in order.                               *)
LEMMA FinishGood ==
  ASSUME TypeOK, BooksGood, NEW r \in Request, Finish(r), UNCHANGED <<started,
         overlapped>>,
         NEW c \in Consumer, NEW e \in Row, GoodRow(e), NEW a \in Row,
         row' = [row EXCEPT ![c] = e], agreed' = [agreed EXCEPT ![c] = a]
  PROVE  TypeOK' /\ BooksGood'
<1>1. TypeOK' BY AbsentGood DEF TypeOK, Finish
<1>2. BooksGood' BY AbsentGood DEF TypeOK, Finish, BooksGood
<1> QED BY <1>1, <1>2

(* No step takes a list out of order.                                      *)
LEMMA StepGood == TypeOK /\ BooksGood /\ [Next]_vars => TypeOK' /\ BooksGood'
<1> SUFFICES ASSUME TypeOK, BooksGood, [Next]_vars PROVE TypeOK' /\ BooksGood'
  OBVIOUS
<1>1. ASSUME NEW r \in Request, NEW c \in Consumer, CreateConsumer(r, c)
      PROVE  TypeOK' /\ BooksGood'
  BY <1>1, AbsentGood, StartGood DEF CreateConsumer
<1>2. ASSUME NEW r \in Request, NEW c \in Consumer, NEW command \in Command,
             FindConsumer(r, c, command)
      PROVE  TypeOK' /\ BooksGood'
  <2>1. row[c] \in Row /\ GoodRow(row[c]) BY DEF TypeOK, BooksGood
  <2>2. /\ ~Refused(command, BookOf(command, row[c]))
        /\ Start(r, c, AfterCommand(command, row[c]))
    BY <1>2 DEF FindConsumer
  <2>3. command.new # NoEntry =>
          ~Has(row[c].addresses, command.new) /\ ~Has(row[c].methods, command.new)
    BY <1>2 DEF FindConsumer, Unused
  <2> QED BY <2>1, <2>2, <2>3, AfterCommandGood, StartGood
<1>3. ASSUME NEW r \in Request, SaveSelect(r) PROVE TypeOK' /\ BooksGood'
  <2>1. TypeOK' BY <1>3 DEF TypeOK, SaveSelect
  <2>2. BooksGood' BY <1>3 DEF SaveSelect, BooksGood
  <2> QED BY <2>1, <2>2
<1>4. ASSUME NEW r \in Request, SaveUpdate(r) PROVE TypeOK' /\ BooksGood'
  <2> DEFINE c == target[r]
             e == IF base[r].exists THEN Merged(ent[r], base[r], row[c]) ELSE ent[r]
  <2>1. c \in Consumer BY <1>4 DEF SaveUpdate, TypeOK
  <2>2. /\ row[c] \in Row /\ ent[r] \in Row /\ base[r] \in Row
        /\ GoodRow(row[c]) /\ GoodRow(ent[r])
    BY <2>1 DEF TypeOK, BooksGood
  <2>3. e \in Row /\ GoodRow(e) BY <2>2, MergedGood
  <2>4. /\ row' = [row EXCEPT ![c] = e] /\ agreed' = [agreed EXCEPT ![c] = ent[r]]
        /\ Finish(r) /\ UNCHANGED <<started, overlapped>>
    BY <1>4 DEF SaveUpdate
  <2> HIDE DEF c, e
  <2> QED BY <2>1, <2>2, <2>3, <2>4, FinishGood
<1>5. ASSUME NEW r \in Request, Abort(r) PROVE TypeOK' /\ BooksGood'
  <2>1. TypeOK' BY <1>5, AbsentGood DEF TypeOK, Abort, Finish
  <2>2. BooksGood' BY <1>5, AbsentGood DEF TypeOK, Abort, Finish, BooksGood
  <2> QED BY <2>1, <2>2
<1>6. CASE UNCHANGED vars
  BY <1>6 DEF TypeOK, BooksGood, vars
<1> QED BY <1>1, <1>2, <1>3, <1>4, <1>5, <1>6 DEF Next

(* However handlers interleave, fail and overwrite one another, every list *)
(* of every profile has one default, no entry twice and at most            *)
(* MaxEntries entries.                                                     *)
THEOREM BooksInOrder == Spec => [](TypeOK /\ OneDefault /\ WithinLimit /\ NoEntryTwice)
<1>1. BooksGood => OneDefault /\ WithinLimit /\ NoEntryTwice
  BY DEF BooksGood, GoodRow, GoodBook, OneDefault, WithinLimit, NoEntryTwice
<1> QED BY <1>1, InitGood, StepGood, PTL DEF Spec

-----------------------------------------------------------------------------
(* An undisturbed profile has one handler at most, which selected the row  *)
(* that is there and writes what it has in memory.                         *)
Undisturbed(c) ==
  /\ row[c] = agreed[c]
  /\ \A r, s \in Request : target[r] = c /\ target[s] = c => r = s
  /\ \A r \in Request : target[r] = c =>
       ent[r].exists /\ (pc[r] = "update" => base[r] = row[c])

Quiet == \A c \in Consumer : c \notin overlapped => Undisturbed(c)

(* A slot works on a profile when it is busy, and on none when it is idle. *)
Slots == \A r \in Request : pc[r] = "idle" <=> target[r] = NoConsumer

(* A command leaves the profile there.                                     *)
LEMMA AfterCommandExists ==
  ASSUME NEW e \in Row, NEW c PROVE AfterCommand(c, e).exists = e.exists
BY DEF AfterCommand, Row

(* Writing the columns that differ from the row that is there leaves what  *)
(* the handler has in memory.                                              *)
LEMMA MergedAlone ==
  ASSUME NEW e \in Row, NEW b \in Row, e.exists, b.exists
  PROVE  Merged(e, b, b) = e
<1>1. e.exists = TRUE /\ b.exists = TRUE BY DEF Row
<1>2. e = [exists |-> b.exists, addresses |-> e.addresses, methods |-> e.methods]
  BY <1>1 DEF Row
<1>3. Merged(e, b, b) = [exists |-> b.exists, addresses |-> e.addresses, methods |-> e.methods]
  BY DEF Merged
<1> QED BY <1>2, <1>3

(* A handler that starts is alone on the profile, or disturbs it.          *)
LEMMA StartQuiet ==
  ASSUME TypeOK, Slots, Quiet, NEW r \in Request, NEW c \in Consumer, NEW e \in Row,
         e.exists, Start(r, c, e)
  PROVE  Slots' /\ Quiet'
<1>1. /\ pc[r] = "idle" /\ target[r] = NoConsumer
      /\ pc' = [pc EXCEPT ![r] = "select"] /\ target' = [target EXCEPT ![r] = c]
      /\ ent' = [ent EXCEPT ![r] = e] /\ base' = base /\ row' = row /\ agreed' = agreed
      /\ overlapped' = Disturb(c)
  BY DEF Start, Slots
<1>2. Slots' BY <1>1, NullAssumption DEF TypeOK, Slots
<1>3. ASSUME NEW d \in Consumer, d \notin overlapped' PROVE Undisturbed(d)'
  <2>1. d \notin overlapped /\ Undisturbed(d) BY <1>1, <1>3 DEF Disturb, Quiet
  <2>2. CASE d = c
    <3>1. \A s \in Request : target[s] # c BY <1>1, <1>3, <2>2 DEF Disturb, Busy
    <3> QED BY <1>1, <2>1, <2>2, <3>1 DEF TypeOK, Undisturbed
  <2>3. CASE d # c BY <1>1, <2>1, <2>3, NullAssumption DEF TypeOK, Undisturbed
  <2> QED BY <2>2, <2>3
<1> QED BY <1>2, <1>3 DEF Quiet

(* A handler may end after writing what it has in memory, or nothing.      *)
LEMMA FinishQuiet ==
  ASSUME TypeOK, Slots, Quiet, NEW r \in Request, Finish(r), overlapped' = overlapped,
         \A d \in Consumer : d # target[r] => row'[d] = row[d] /\ agreed'[d] = agreed[d],
         \A d \in Consumer : d = target[r] /\ d \notin overlapped => row'[d] = agreed'[d]
  PROVE  Slots' /\ Quiet'
<1>1. Slots' BY DEF TypeOK, Slots, Finish
<1>2. ASSUME NEW d \in Consumer, d \notin overlapped' PROVE Undisturbed(d)'
  <2>1. Undisturbed(d) BY <1>2 DEF Quiet
  <2>2. row'[d] = agreed'[d] BY <1>2, <2>1 DEF Undisturbed
  <2>3. \A s \in Request : s # r =>
          pc'[s] = pc[s] /\ target'[s] = target[s] /\ ent'[s] = ent[s] /\ base'[s] = base[s]
    BY DEF TypeOK, Finish
  <2>4. target'[r] = NoConsumer BY DEF TypeOK, Finish
  <2>5. \A s \in Request : target'[s] = d => s # r /\ target[s] = d
    BY <2>3, <2>4, NullAssumption
  <2>6. (\E s \in Request : target'[s] = d) => row'[d] = row[d]
    BY <2>1, <2>5 DEF Undisturbed
  <2> QED BY <2>1, <2>2, <2>3, <2>5, <2>6 DEF Undisturbed
<1> QED BY <1>1, <1>2 DEF Quiet

(* No step leaves an undisturbed profile other than as answered.           *)
LEMMA StepQuiet == TypeOK /\ BooksGood /\ Slots /\ Quiet /\ [Next]_vars => Slots' /\ Quiet'
<1> SUFFICES ASSUME TypeOK, BooksGood, Slots, Quiet, [Next]_vars PROVE Slots' /\ Quiet'
  OBVIOUS
<1>1. ASSUME NEW r \in Request, NEW c \in Consumer, CreateConsumer(r, c)
      PROVE  Slots' /\ Quiet'
  <2>1. NewConsumer \in Row /\ NewConsumer.exists BY AbsentGood DEF NewConsumer, Absent
  <2>2. Start(r, c, NewConsumer) BY <1>1 DEF CreateConsumer
  <2> QED BY <2>1, <2>2, StartQuiet
<1>2. ASSUME NEW r \in Request, NEW c \in Consumer, NEW command \in Command,
             FindConsumer(r, c, command)
      PROVE  Slots' /\ Quiet'
  <2> DEFINE e == AfterCommand(command, row[c])
  <2>1. row[c] \in Row /\ row[c].exists BY <1>2 DEF TypeOK, FindConsumer
  <2>2. e.exists BY <2>1, AfterCommandExists
  <2>3. Start(r, c, e) BY <1>2 DEF FindConsumer
  <2>4. e \in Row
    <3>1. GoodRow(row[c]) BY DEF BooksGood
    <3>2. ~Refused(command, BookOf(command, row[c])) BY <1>2 DEF FindConsumer
    <3>3. command.new # NoEntry =>
            ~Has(row[c].addresses, command.new) /\ ~Has(row[c].methods, command.new)
      BY <1>2 DEF FindConsumer, Unused
    <3> QED BY <2>1, <3>1, <3>2, <3>3, AfterCommandGood
  <2> HIDE DEF e
  <2> QED BY <2>2, <2>3, <2>4, StartQuiet
<1>3. ASSUME NEW r \in Request, SaveSelect(r) PROVE Slots' /\ Quiet'
  <2>1. Slots' BY <1>3 DEF TypeOK, Slots, SaveSelect
  <2>2. Quiet' BY <1>3 DEF TypeOK, SaveSelect, Quiet, Undisturbed
  <2> QED BY <2>1, <2>2
<1>4. ASSUME NEW r \in Request, SaveUpdate(r) PROVE Slots' /\ Quiet'
  <2>1. PICK c \in Consumer : c = target[r] BY <1>4 DEF SaveUpdate, TypeOK
  <2>2. ent[r] \in Row /\ base[r] \in Row /\ row[c] \in Row BY <2>1 DEF TypeOK
  <2>3. c \notin overlapped => ent[r].exists /\ base[r] = row[c]
    BY <1>4, <2>1 DEF Quiet, Undisturbed, SaveUpdate
  <2>4. /\ row' = [row EXCEPT ![c] = IF base[r].exists
                                    THEN Merged(ent[r], base[r], row[c]) ELSE ent[r]]
        /\ agreed' = [agreed EXCEPT ![c] = ent[r]]
        /\ Finish(r) /\ overlapped' = overlapped
    BY <1>4, <2>1 DEF SaveUpdate, TypeOK
  <2>5. c \notin overlapped => row'[c] = ent[r]
    BY <2>2, <2>3, <2>4, MergedAlone DEF TypeOK
  <2>6. agreed'[c] = ent[r] BY <2>4 DEF TypeOK
  <2>7. \A d \in Consumer : d # c => row'[d] = row[d] /\ agreed'[d] = agreed[d]
    BY <2>4 DEF TypeOK
  <2> QED BY <2>1, <2>4, <2>5, <2>6, <2>7, FinishQuiet
<1>5. ASSUME NEW r \in Request, Abort(r) PROVE Slots' /\ Quiet'
  <2>1. /\ Finish(r) /\ overlapped' = overlapped /\ row' = row /\ agreed' = agreed
    BY <1>5 DEF Abort
  <2>2. \A d \in Consumer : d \notin overlapped => row'[d] = agreed'[d]
    BY <2>1 DEF Quiet, Undisturbed
  <2> QED BY <2>1, <2>2, FinishQuiet
<1>6. CASE UNCHANGED vars
  BY <1>6 DEF vars, Slots, Quiet, Undisturbed
<1> QED BY <1>1, <1>2, <1>3, <1>4, <1>5, <1>6 DEF Next

(* The lists are in order, and unless two handlers worked on a profile at  *)
(* once its lists are those of the last answer, crashes included.          *)
THEOREM InvHolds == Spec => []Inv
<1>1. Init => Slots /\ Quiet
  BY NullAssumption DEF Init, Slots, Quiet, Undisturbed
<1>2. BooksGood /\ Quiet => OneDefault /\ WithinLimit /\ NoEntryTwice /\ BooksAsAgreed
  BY DEF BooksGood, GoodRow, GoodBook, OneDefault, WithinLimit, NoEntryTwice,
     BooksAsAgreed,
         Quiet, Undisturbed
<1>3. TypeOK /\ BooksGood /\ Quiet => Inv BY <1>2 DEF Inv
<1> QED BY <1>1, <1>3, InitGood, StepGood, StepQuiet, PTL DEF Spec

-----------------------------------------------------------------------------
(* Following AddressBook.                                                  *)

(* Between two lists: the same entries and default, or a step of the book. *)
Taken(b, d, e) ==
  /\ e \in Ids(b) /\ Ids(d) = Ids(b) \ {e}
  /\ IF Chosen(b) # e THEN Chosen(d) = Chosen(b)
     ELSE IF Ids(d) = {} THEN Chosen(d) = NoEntry ELSE Chosen(d) \in Ids(d)

Exchanged(b, d, e, f) ==
  /\ e \in Ids(b) /\ f \notin Ids(b) /\ Ids(d) = (Ids(b) \ {e}) \cup {f}
  /\ IF Chosen(b) # e THEN Chosen(d) = Chosen(b)
     ELSE IF Ids(b) = {e} THEN Chosen(d) = f ELSE Chosen(d) \in Ids(b) \ {e}

Grown(b, d, e) ==
  /\ e \notin Ids(b) /\ Ids(d) = Ids(b) \cup {e}
  /\ Chosen(d) = IF Ids(b) = {} THEN e ELSE Chosen(b)

Follows(b, d) ==
  \/ Ids(d) = Ids(b) /\ Chosen(d) = Chosen(b)
  \/ \E e \in Entry :
       \/ Grown(b, d, e) \/ Taken(b, d, e)
       \/ e \in Ids(b) /\ Chosen(d) = e /\ Ids(d) = Ids(b)
       \/ \E f \in Entry : Exchanged(b, d, e, f)

(* The ids of a list are those it has; an empty list has no default.       *)
LEMMA IdsAre ==
  ASSUME NEW b \in Book
  PROVE  /\ \A e : e \in Ids(b) <=> Has(b, e)
         /\ DOMAIN b = 1 .. Len(b) /\ Len(b) \in Nat
         /\ Ids(b) = {} <=> b = <<>>
         /\ b = <<>> => Chosen(b) = NoEntry
<1>1. DOMAIN b = 1 .. Len(b) /\ Len(b) \in Nat BY DEF Book
<1>2. \A e : e \in Ids(b) <=> Has(b, e) BY DEF Ids, Has
<1>3. b = <<>> <=> Len(b) = 0 BY DEF Book
<1>4. Ids(b) = {} <=> Len(b) = 0
  <2>1. Len(b) # 0 => 1 \in DOMAIN b BY <1>1
  <2>2. Len(b) = 0 => DOMAIN b = {} BY <1>1
  <2> QED BY <2>1, <2>2 DEF Ids
<1>5. b = <<>> => Chosen(b) = NoEntry BY <1>1, <1>3 DEF Chosen
<1> QED BY <1>1, <1>2, <1>3, <1>4, <1>5

(* In a list in order the default is the one entry that is marked.         *)
LEMMA ChosenIs ==
  ASSUME NEW b \in Book, OneDefaultIn(b), NEW i \in 1 .. Len(b), b[i].isDefault
  PROVE  Chosen(b) = b[i].id /\ Chosen(b) \in Ids(b)
<1>1. DOMAIN b = 1 .. Len(b) BY IdsAre
<1>2. \A j \in DOMAIN b : b[j].isDefault => j = i BY <1>1 DEF OneDefaultIn
<1> DEFINE First(k) == b[k].isDefault /\ \A j \in DOMAIN b : b[j].isDefault => k <= j
<1>3. First(i) BY <1>1, <1>2
<1>4. \A k \in DOMAIN b : First(k) => k = i BY <1>2
<1>5. (CHOOSE k \in DOMAIN b : First(k)) = i BY <1>1, <1>3, <1>4
<1>6. Chosen(b) = b[CHOOSE k \in DOMAIN b : First(k)].id BY <1>1 DEF Chosen
<1> QED BY <1>1, <1>5, <1>6 DEF Ids

(* ... which there is unless the list is empty.                            *)
LEMMA DefaultIsThere ==
  ASSUME NEW b \in Book, OneDefaultIn(b), b # <<>>
  PROVE  \E i \in 1 .. Len(b) : b[i].isDefault /\ Chosen(b) = b[i].id
<1>1. DOMAIN b = 1 .. Len(b) BY IdsAre
<1>2. PICK i \in 1 .. Len(b) : b[i].isDefault BY <1>1 DEF OneDefaultIn
<1> QED BY <1>2, ChosenIs

(* Adding grows the list by the entry.                                     *)
LEMMA AddedGrows ==
  ASSUME NEW b \in Book, GoodBook(b), Len(b) < MaxEntries,
         NEW e \in Entry, NEW text \in Text, ~Has(b, e)
  PROVE  Grown(b, Added(b, e, text), e)
<1> DEFINE x == [id |-> e, text |-> text, isDefault |-> b = <<>>]
<1>0. PICK a : a = Added(b, e, text) OBVIOUS
<1>1. a \in Book /\ OneDefaultIn(a) BY <1>0, AddedGood DEF GoodBook
<1>2. x \in Item BY DEF Item
<1>3. /\ Len(b) \in Nat /\ Len(a) = Len(b) + 1 /\ a[Len(b) + 1] = x
      /\ \A i \in 1 .. Len(b) : a[i] = b[i]
  BY <1>0, <1>2 DEF Added, Book
<1>4. x.id = e /\ x.isDefault = (b = <<>>) OBVIOUS
<1> HIDE DEF x
<1>5. DOMAIN b = 1 .. Len(b) /\ DOMAIN a = 1 .. Len(b) + 1 BY <1>1, <1>3, IdsAre
<1>6. Ids(a) = Ids(b) \cup {e} BY <1>3, <1>4, <1>5 DEF Ids
<1>7. CASE b = <<>>
  <2>1. PICK i \in 1 .. Len(a) : i = Len(b) + 1 BY <1>3
  <2>2. a[i].isDefault /\ a[i].id = e BY <1>3, <1>4, <1>7, <2>1
  <2>3. Chosen(a) = e BY <1>1, <2>2, ChosenIs
  <2> QED BY <1>0, <1>6, <1>7, <2>3, IdsAre DEF Grown
<1>8. CASE b # <<>>
  <2>1. PICK i \in 1 .. Len(b) : b[i].isDefault /\ Chosen(b) = b[i].id
    BY <1>8, DefaultIsThere DEF GoodBook
  <2>2. i \in 1 .. Len(a) /\ a[i].isDefault /\ a[i].id = Chosen(b) BY <1>3, <2>1
  <2>3. Chosen(a) = Chosen(b) BY <1>1, <2>2, ChosenIs
  <2> QED BY <1>0, <1>6, <1>8, <2>3, IdsAre DEF Grown
<1> QED BY <1>7, <1>8

(* Removing takes the entry out of the list.                               *)
LEMMA RemovedTakes ==
  ASSUME NEW b \in Book, GoodBook(b), NEW e \in Entry, Has(b, e)
  PROVE  Taken(b, Removed(b, e), e)
<1>1. PICK k \in 1 .. Len(b) : k = Position(b, e) /\ b[k].id = e BY PositionIsThere
<1>2. PICK rest : rest = Without(b, k) OBVIOUS
<1>3. PICK d : d = Removed(b, e) OBVIOUS
<1>4. d \in Book /\ OneDefaultIn(d) BY <1>3, RemovedGood DEF GoodBook
<1>5. /\ rest \in Book /\ DOMAIN rest = 1 .. Len(rest) /\ Len(rest) = Len(b) - 1
      /\ \A i \in 1 .. Len(rest) : \E j \in 1 .. Len(b) : j # k /\ rest[i] = b[j]
      /\ \A j \in 1 .. Len(b) : j # k => \E i \in 1 .. Len(rest) : rest[i] = b[j]
  <2>1. /\ Without(b, k) \in Book /\ Len(Without(b, k)) = Len(b) - 1
        /\ DOMAIN Without(b, k) = 1 .. Len(b) - 1
    BY WithoutIs
  <2>2. /\ \A i \in 1 .. Len(b) - 1 : \E j \in 1 .. Len(b) :
             j # k /\ Without(b, k)[i] = b[j]
        /\ \A j \in 1 .. Len(b) : j # k =>
             \E i \in 1 .. Len(b) - 1 : Without(b, k)[i] = b[j]
    BY WithoutDistinct
  <2> QED BY <1>2, <2>1, <2>2
<1>6. DOMAIN b = 1 .. Len(b) /\ Len(b) \in Nat BY IdsAre
<1>7. \A i, j \in 1 .. Len(b) : b[i].id = b[j].id => i = j
  BY <1>6 DEF GoodBook, DistinctIn
<1>8. \A j \in 1 .. Len(b) : j # k => b[j].id # e BY <1>1, <1>7
<1>9. Ids(rest) = Ids(b) \ {e}
  <2>1. ASSUME NEW x \in Ids(rest) PROVE x \in Ids(b) \ {e}
    <3>1. PICK i \in 1 .. Len(rest) : x = rest[i].id BY <1>5 DEF Ids
    <3>2. PICK j \in 1 .. Len(b) : j # k /\ rest[i] = b[j] BY <1>5
    <3> QED BY <1>6, <1>8, <3>1, <3>2 DEF Ids
  <2>2. ASSUME NEW x \in Ids(b), x # e PROVE x \in Ids(rest)
    <3>1. PICK j \in 1 .. Len(b) : x = b[j].id BY <1>6 DEF Ids
    <3>2. j # k BY <1>1, <2>2, <3>1
    <3>3. PICK i \in 1 .. Len(rest) : rest[i] = b[j] BY <1>5, <3>2
    <3> QED BY <1>5, <3>1, <3>3 DEF Ids
  <2> QED BY <2>1, <2>2
<1>10. d = IF b[k].isDefault /\ rest # <<>>
           THEN [i \in DOMAIN rest |->
                   IF i = 1 THEN [rest[i] EXCEPT !.isDefault = TRUE] ELSE rest[i]]
           ELSE rest
  BY <1>1, <1>2, <1>3 DEF Removed
<1>11. DOMAIN d = DOMAIN rest /\ \A i \in DOMAIN rest : d[i].id = rest[i].id
  <2>1. \A i \in DOMAIN rest : rest[i] \in Item BY <1>5 DEF Book
  <2> QED BY <1>10, <2>1 DEF Item
<1>12. Ids(d) = Ids(rest) BY <1>11 DEF Ids
<1>13. e \in Ids(b) BY IdsAre
<1>14. CASE b[k].isDefault
  <2>1. Chosen(b) = e BY <1>1, <1>14, ChosenIs DEF GoodBook
  <2>2. CASE d = <<>> BY <1>3, <1>4, <1>9, <1>12, <1>13, <2>1, <2>2, IdsAre DEF Taken
  <2>3. CASE d # <<>>
    <3>1. Chosen(d) \in Ids(d) BY <1>4, <2>3, DefaultIsThere, ChosenIs
    <3> QED BY <1>3, <1>9, <1>12, <1>13, <2>1, <3>1 DEF Taken
  <2> QED BY <2>2, <2>3
<1>15. CASE ~b[k].isDefault
  <2>1. d = rest BY <1>10, <1>15
  <2>2. b # <<>> BY <1>1, <1>6
  <2>3. PICK j \in 1 .. Len(b) : b[j].isDefault /\ Chosen(b) = b[j].id
    BY <2>2, DefaultIsThere DEF GoodBook
  <2>4. j # k BY <1>15, <2>3
  <2>5. PICK i \in 1 .. Len(rest) : rest[i] = b[j] BY <1>5, <2>4
  <2>6. Chosen(d) = Chosen(b) BY <1>4, <2>1, <2>3, <2>5, ChosenIs
  <2>7. Chosen(b) # e BY <1>8, <2>3, <2>4
  <2> QED BY <1>3, <1>9, <1>12, <1>13, <2>6, <2>7 DEF Taken
<1> QED BY <1>14, <1>15

(* Choosing another default changes nothing else.                          *)
LEMMA DefaultedChooses ==
  ASSUME NEW b \in Book, GoodBook(b), NEW e \in Entry, Has(b, e)
  PROVE  Ids(Defaulted(b, e)) = Ids(b) /\ Chosen(Defaulted(b, e)) = e
<1>0. PICK d : d = Defaulted(b, e) OBVIOUS
<1>1. d \in Book /\ OneDefaultIn(d) BY <1>0, DefaultedGood DEF GoodBook
<1>2. \A i \in DOMAIN b : b[i] \in Item BY DEF Book
<1>3. DOMAIN d = DOMAIN b /\ \A i \in DOMAIN b : d[i].id = b[i].id
  BY <1>0, <1>2 DEF Defaulted, Item
<1>4. \A i \in DOMAIN b : d[i].isDefault = (b[i].id = e) BY <1>0, <1>2 DEF Defaulted, Item
<1>5. Ids(d) = Ids(b) BY <1>3 DEF Ids
<1>6. PICK i \in DOMAIN b : b[i].id = e BY DEF Has
<1>7. i \in 1 .. Len(d) BY <1>1, <1>3, IdsAre
<1>8. Chosen(d) = d[i].id BY <1>1, <1>4, <1>6, <1>7, ChosenIs
<1> QED BY <1>0, <1>3, <1>5, <1>6, <1>8

(* New contents of an entry change neither ids nor default.                *)
LEMMA UpdatedSame ==
  ASSUME NEW b \in Book, GoodBook(b), NEW e, NEW text \in Text
  PROVE  Ids(Updated(b, e, text)) = Ids(b) /\ Chosen(Updated(b, e, text)) = Chosen(b)
<1>0. PICK d : d = Updated(b, e, text) OBVIOUS
<1>1. d \in Book /\ OneDefaultIn(d) BY <1>0, UpdatedGood DEF GoodBook
<1>2. \A i \in DOMAIN b : b[i] \in Item BY DEF Book
<1>3. /\ DOMAIN d = DOMAIN b
      /\ \A i \in DOMAIN b : d[i].id = b[i].id /\ d[i].isDefault = b[i].isDefault
  BY <1>0, <1>2 DEF Updated, Item
<1>4. Ids(d) = Ids(b) BY <1>3 DEF Ids
<1>5. CASE b = <<>> BY <1>0, <1>1, <1>4, <1>5, IdsAre
<1>6. CASE b # <<>>
  <2>1. PICK i \in 1 .. Len(b) : b[i].isDefault /\ Chosen(b) = b[i].id
    BY <1>6, DefaultIsThere DEF GoodBook
  <2>2. i \in DOMAIN b /\ i \in 1 .. Len(d) BY <1>1, <1>3, <2>1, IdsAre
  <2>3. Chosen(d) = Chosen(b) BY <1>1, <1>3, <2>1, <2>2, ChosenIs
  <2> QED BY <1>0, <1>4, <2>3
<1> QED BY <1>5, <1>6

(* A method put in the place of another is exchanged for it.               *)
LEMMA ReplacedExchanges ==
  ASSUME NEW b \in Book, GoodBook(b), NEW e \in Entry, Has(b, e),
         NEW x \in Entry, ~Has(b, x), NEW text \in Text
  PROVE  Exchanged(b, Added(Removed(b, e), x, text), e, x)
<1>1. PICK rest : rest = Removed(b, e) OBVIOUS
<1>2. rest \in Book /\ GoodBook(rest) /\ Len(rest) = Len(b) - 1 /\ ~Has(rest, x)
  BY <1>1, RemovedGood
<1>3. Len(b) \in Nat /\ Len(b) <= MaxEntries BY DEF Book, GoodBook
<1>4. PICK d : d = Added(rest, x, text) OBVIOUS
<1>5. Grown(rest, d, x) BY <1>2, <1>3, <1>4, AddedGrows, BoundsAssumption
<1>6. Taken(b, rest, e) BY <1>1, RemovedTakes
<1>7. x \notin Ids(b) BY IdsAre
<1>8. Chosen(b) \in Ids(b)
  <2>1. b # <<>> BY IdsAre
  <2> QED BY <2>1, DefaultIsThere, ChosenIs DEF GoodBook
<1>9. Exchanged(b, d, e, x) BY <1>5, <1>6, <1>7, <1>8 DEF Grown, Taken, Exchanged
<1> QED BY <1>1, <1>4, <1>9

(* Whatever a command makes of a list is a step of its book.               *)
LEMMA ChangedFollows ==
  ASSUME NEW c \in Command, NEW b \in Book, GoodBook(b), ~Refused(c, b),
         c.new # NoEntry => ~Has(b, c.new)
  PROVE  Follows(b, Changed(c, b))
<1>1. Len(b) \in Nat BY DEF Book
<1>2. /\ c.op \in {"profile", "add", "remove", "setDefault", "update", "replace"}
      /\ c.text \in Text
      /\ c.op \in {"add", "replace"} => c.new \in Entry
      /\ c.op \in {"remove", "setDefault", "update", "replace"} => c.entry \in Entry
  BY DEF Command
<1>3. CASE c.op = "profile" BY <1>3 DEF Changed, Follows
<1>4. CASE c.op = "add"
  <2>1. Changed(c, b) = Added(b, c.new, c.text) BY <1>4 DEF Changed
  <2>2. Len(b) < MaxEntries BY <1>1, <1>4, BoundsAssumption DEF Refused
  <2>3. ~Has(b, c.new) BY <1>2, <1>4, NullAssumption
  <2>4. Grown(b, Changed(c, b), c.new) BY <1>2, <1>4, <2>1, <2>2, <2>3, AddedGrows
  <2> QED BY <1>2, <1>4, <2>4 DEF Follows
<1>5. CASE c.op = "remove"
  <2>1. Changed(c, b) = Removed(b, c.entry) BY <1>5 DEF Changed
  <2>2. Has(b, c.entry) BY <1>5 DEF Refused
  <2>3. Taken(b, Changed(c, b), c.entry) BY <1>2, <1>5, <2>1, <2>2, RemovedTakes
  <2> QED BY <1>2, <1>5, <2>3 DEF Follows
<1>6. CASE c.op = "setDefault"
  <2>1. Changed(c, b) = Defaulted(b, c.entry) BY <1>6 DEF Changed
  <2>2. Has(b, c.entry) BY <1>6 DEF Refused
  <2>3. /\ Ids(Changed(c, b)) = Ids(b) /\ Chosen(Changed(c, b)) = c.entry
    BY <1>2, <1>6, <2>1, <2>2, DefaultedChooses
  <2>4. c.entry \in Ids(b) BY <2>2, IdsAre
  <2> QED BY <1>2, <1>6, <2>3, <2>4 DEF Follows
<1>7. CASE c.op = "update"
  <2>1. Changed(c, b) = Updated(b, c.entry, c.text) BY <1>7 DEF Changed
  <2> QED BY <1>2, <2>1, UpdatedSame DEF Follows
<1>8. CASE c.op = "replace"
  <2>1. Changed(c, b) = Added(Removed(b, c.entry), c.new, c.text) BY <1>8 DEF Changed
  <2>2. Has(b, c.entry) BY <1>8 DEF Refused
  <2>3. ~Has(b, c.new) BY <1>2, <1>8, NullAssumption
  <2>4. Exchanged(b, Changed(c, b), c.entry, c.new)
    BY <1>2, <1>8, <2>1, <2>2, <2>3, ReplacedExchanges
  <2> QED BY <1>2, <1>8, <2>4 DEF Follows
<1> QED BY <1>2, <1>3, <1>4, <1>5, <1>6, <1>7, <1>8

(* What a handler will write of an undisturbed profile is a step of both   *)
(* its books from what is there.                                           *)
BothFollow(x, y) == Follows(x.addresses, y.addresses) /\ Follows(x.methods, y.methods)

Leads(c) == \A r \in Request : target[r] = c => BothFollow(row[c], ent[r])

AllLead == \A c \in Consumer : c \notin overlapped => Leads(c)

(* A profile follows itself, and a command leads on from it.               *)
LEMMA AfterCommandFollows ==
  ASSUME NEW c \in Command, NEW e \in Row, GoodRow(e), ~Refused(c, BookOf(c, e)),
         c.new # NoEntry => ~Has(e.addresses, c.new) /\ ~Has(e.methods, c.new)
  PROVE  BothFollow(e, AfterCommand(c, e))
<1>1. e.addresses \in Book /\ e.methods \in Book BY DEF Row
<1>2. GoodBook(e.addresses) /\ GoodBook(e.methods) BY DEF GoodRow
<1>3. Follows(e.addresses, e.addresses) /\ Follows(e.methods, e.methods) BY DEF Follows
<1>4. CASE c.book = "addresses"
  <2>1. Follows(e.addresses, Changed(c, e.addresses))
    BY <1>1, <1>2, <1>4, ChangedFollows DEF BookOf
  <2>2. /\ AfterCommand(c, e).addresses = Changed(c, e.addresses)
        /\ AfterCommand(c, e).methods = e.methods
    BY <1>4 DEF AfterCommand, Row
  <2> QED BY <1>3, <2>1, <2>2 DEF BothFollow
<1>5. CASE c.book # "addresses"
  <2>1. Follows(e.methods, Changed(c, e.methods))
    BY <1>1, <1>2, <1>5, ChangedFollows DEF BookOf
  <2>2. /\ AfterCommand(c, e).methods = Changed(c, e.methods)
        /\ AfterCommand(c, e).addresses = e.addresses
    BY <1>5 DEF AfterCommand, Row
  <2> QED BY <1>3, <2>1, <2>2 DEF BothFollow
<1> QED BY <1>4, <1>5

(* A handler that starts intends a step from the row that is there.        *)
LEMMA StartLeads ==
  ASSUME TypeOK, AllLead, NEW r \in Request, NEW c \in Consumer, NEW e \in Row,
         BothFollow(row[c], e), Start(r, c, e)
  PROVE  AllLead' /\ row' = row
<1>1. /\ target' = [target EXCEPT ![r] = c] /\ ent' = [ent EXCEPT ![r] = e]
      /\ row' = row /\ overlapped' = Disturb(c)
  BY DEF Start
<1>2. ASSUME NEW d \in Consumer, d \notin overlapped', NEW s \in Request, target'[s] = d
      PROVE  BothFollow(row'[d], ent'[s])
  <2>1. d \notin overlapped BY <1>1, <1>2 DEF Disturb
  <2>2. CASE s = r
    <3>1. d = c /\ ent'[s] = e BY <1>1, <1>2, <2>2 DEF TypeOK
    <3> QED BY <1>1, <3>1
  <2>3. CASE s # r
    <3>1. target[s] = d /\ ent'[s] = ent[s] BY <1>1, <1>2, <2>3 DEF TypeOK
    <3>2. BothFollow(row[d], ent[s]) BY <2>1, <3>1 DEF AllLead, Leads
    <3> QED BY <1>1, <3>1, <3>2
  <2> QED BY <2>2, <2>3
<1>3. AllLead' BY <1>2 DEF AllLead, Leads
<1> QED BY <1>1, <1>3

(* The row of an undisturbed profile takes a step of its books, or none.   *)
RowFollows(c) == c \in overlapped' \/ BothFollow(row[c], row'[c])

(* A row that stays takes no step.                                         *)
LEMMA SameFollows == ASSUME row' = row, NEW c \in Consumer PROVE RowFollows(c)
BY DEF RowFollows, BothFollow, Follows

(* No step but the save of the only handler of a profile changes its row.  *)
LEMMA StepLeads ==
  TypeOK /\ BooksGood /\ Slots /\ Quiet /\ AllLead /\ [Next]_vars
    => AllLead' /\ \A c \in Consumer : RowFollows(c)
<1> SUFFICES ASSUME TypeOK, BooksGood, Slots, Quiet, AllLead, [Next]_vars
             PROVE  AllLead' /\ \A c \in Consumer : RowFollows(c)
  OBVIOUS
<1>1. ASSUME NEW r \in Request, NEW c \in Consumer, CreateConsumer(r, c)
      PROVE  AllLead' /\ \A d \in Consumer : RowFollows(d)
  <2>1. PICK e \in Row : e = NewConsumer BY AbsentGood
  <2>2. Start(r, c, e) /\ row[c] = Absent BY <1>1, <2>1 DEF CreateConsumer
  <2>3. row[c].addresses = e.addresses /\ row[c].methods = e.methods
    BY <2>1, <2>2 DEF NewConsumer, Absent
  <2>4. BothFollow(row[c], e) BY <2>3 DEF BothFollow, Follows
  <2> QED BY <2>2, <2>4, StartLeads, SameFollows
<1>2. ASSUME NEW r \in Request, NEW c \in Consumer, NEW command \in Command,
             FindConsumer(r, c, command)
      PROVE  AllLead' /\ \A d \in Consumer : RowFollows(d)
  <2>1. row[c] \in Row /\ GoodRow(row[c]) BY DEF TypeOK, BooksGood
  <2>2. ~Refused(command, BookOf(command, row[c])) BY <1>2 DEF FindConsumer
  <2>3. command.new # NoEntry =>
          ~Has(row[c].addresses, command.new) /\ ~Has(row[c].methods, command.new)
    BY <1>2 DEF FindConsumer, Unused
  <2>4. PICK e \in Row : e = AfterCommand(command, row[c])
    BY <2>1, <2>2, <2>3, AfterCommandGood
  <2>5. Start(r, c, e) BY <1>2, <2>4 DEF FindConsumer
  <2>6. BothFollow(row[c], e) BY <2>1, <2>2, <2>3, <2>4, AfterCommandFollows
  <2> QED BY <2>5, <2>6, StartLeads, SameFollows
<1>3. ASSUME NEW r \in Request, SaveSelect(r) \/ UNCHANGED vars
      PROVE  AllLead' /\ \A c \in Consumer : RowFollows(c)
  <2>1. row' = row /\ target' = target /\ ent' = ent /\ overlapped' = overlapped
    BY <1>3 DEF SaveSelect, vars
  <2>2. AllLead' BY <2>1 DEF AllLead, Leads
  <2> QED BY <2>1, <2>2, SameFollows
<1>4. ASSUME NEW r \in Request, Abort(r)
  PROVE AllLead' /\ \A c \in Consumer : RowFollows(c)
  <2>1. row' = row /\ overlapped' = overlapped /\ Finish(r) BY <1>4 DEF Abort
  <2>2. \A s \in Request :
          target'[s] # NoConsumer => target'[s] = target[s] /\ ent'[s] = ent[s]
    BY <2>1 DEF Finish, TypeOK
  <2>3. AllLead' BY <2>1, <2>2, NullAssumption DEF AllLead, Leads
  <2> QED BY <2>1, <2>3, SameFollows
<1>5. ASSUME NEW r \in Request, SaveUpdate(r)
      PROVE  AllLead' /\ \A c \in Consumer : RowFollows(c)
  <2>1. PICK c \in Consumer : c = target[r] BY <1>5 DEF SaveUpdate, TypeOK
  <2>2. PICK e \in Row, b \in Row : e = ent[r] /\ b = base[r] BY DEF TypeOK
  <2>3. /\ row' = [row EXCEPT ![c] = IF b.exists THEN Merged(e, b, row[c]) ELSE e]
        /\ overlapped' = overlapped /\ Finish(r) /\ pc[r] = "update"
    BY <1>5, <2>1, <2>2 DEF SaveUpdate, TypeOK
  <2>4. \A s \in Request : target'[s] # NoConsumer =>
          s # r /\ target'[s] = target[s] /\ ent'[s] = ent[s]
    BY <2>3 DEF Finish, TypeOK
  <2>5. \A d \in Consumer : d # c => row'[d] = row[d] BY <2>3 DEF TypeOK
  <2>6. c \notin overlapped =>
          /\ row'[c] = e /\ BothFollow(row[c], e)
          /\ \A s \in Request : target[s] = c => s = r
    <3> SUFFICES ASSUME c \notin overlapped
                 PROVE  /\ row'[c] = e /\ BothFollow(row[c], e)
                        /\ \A s \in Request : target[s] = c => s = r
      OBVIOUS
    <3>1. Undisturbed(c) BY DEF Quiet
    <3>2. e.exists /\ b = row[c] /\ \A s \in Request : target[s] = c => s = r
      BY <2>1, <2>2, <2>3, <3>1 DEF Undisturbed
    <3>3. row'[c] = e BY <2>3, <3>2, MergedAlone DEF TypeOK
    <3>4. BothFollow(row[c], e) BY <2>1, <2>2 DEF AllLead, Leads
    <3> QED BY <3>2, <3>3, <3>4
  <2>7. ASSUME NEW d \in Consumer, d \notin overlapped', NEW s \in Request, target'[s] = d
        PROVE  BothFollow(row'[d], ent'[s])
    <3>1. s # r /\ target[s] = d /\ ent'[s] = ent[s] BY <2>4, <2>7, NullAssumption
    <3>2. d # c BY <2>3, <2>6, <2>7, <3>1
    <3>3. BothFollow(row[d], ent[s]) BY <2>3, <2>7, <3>1 DEF AllLead, Leads
    <3> QED BY <2>5, <3>1, <3>2, <3>3
  <2>8. AllLead' BY <2>7 DEF AllLead, Leads
  <2>9. ASSUME NEW d \in Consumer PROVE RowFollows(d)
    <3>1. CASE d = c BY <2>3, <2>6, <3>1 DEF RowFollows
    <3>2. CASE d # c BY <2>5, <3>2 DEF RowFollows, BothFollow, Follows
    <3> QED BY <3>1, <3>2
  <2> QED BY <2>8, <2>9
<1>6. CASE UNCHANGED vars
  <2>1. row' = row /\ target' = target /\ ent' = ent /\ overlapped' = overlapped
    BY <1>6 DEF vars
  <2>2. AllLead' BY <2>1 DEF AllLead, Leads
  <2> QED BY <2>1, <2>2, SameFollows
<1> QED BY <1>1, <1>2, <1>3, <1>4, <1>5, <1>6 DEF Next

(* A step of the lists is a step of AddressBook.                           *)
LEMMA FollowsIsStep ==
  ASSUME NEW c \in Consumer, BothFollow(row[c], row'[c])
  PROVE  /\ AddressesOf(c)!Same \/ AddressesOf(c)!Step
         /\ MethodsOf(c)!Same \/ MethodsOf(c)!Step
<1>1. AddressesOf(c)!Same \/ AddressesOf(c)!Step
  BY DEF BothFollow, Follows, Grown, Taken, Exchanged, AddressesOf!Same, AddressesOf!Step,
         AddressesOf!Adds, AddressesOf!Removes, AddressesOf!Chooses, AddressesOf!Replaces
<1>2. MethodsOf(c)!Same \/ MethodsOf(c)!Step
  BY DEF BothFollow, Follows, Grown, Taken, Exchanged, MethodsOf!Same, MethodsOf!Step,
         MethodsOf!Adds, MethodsOf!Removes, MethodsOf!Chooses, MethodsOf!Replaces
<1> QED BY <1>1, <1>2

(* Unless two handlers work on a profile at once, each of its lists takes  *)
(* a step of AddressBook or none, whatever crashes in between.             *)
THEOREM FollowsBook == Spec => UndisturbedFollowsBook
<1>1. TypeOK /\ BooksGood /\ Slots /\ Quiet /\ AllLead /\ [Next]_vars
        => [\A c \in Consumer :
              \/ c \in overlapped'
              \/ /\ AddressesOf(c)!Same \/ AddressesOf(c)!Step
                 /\ MethodsOf(c)!Same \/ MethodsOf(c)!Step]_vars
  BY StepLeads, FollowsIsStep DEF RowFollows
<1>2. Init => Slots /\ Quiet /\ AllLead
  BY NullAssumption DEF Init, Slots, Quiet, Undisturbed, AllLead, Leads
<1>3. TypeOK /\ BooksGood /\ Slots /\ Quiet /\ AllLead /\ [Next]_vars => AllLead'
  BY StepLeads
<1> QED BY <1>1, <1>2, <1>3, InitGood, StepGood, StepQuiet, PTL DEF Spec,
   UndisturbedFollowsBook

-----------------------------------------------------------------------------
(* The delivery fee of order-service and of the checkout page.             *)

(* Rounding keeps the order of amounts.                                    *)
LEMMA RoundGrows ==
  ASSUME NEW m \in Nat, NEW n \in Nat, m <= n
  PROVE  /\ Round(m, 100) \in Nat /\ Round(n, 100) \in Nat
         /\ Round(m, 100) <= Round(n, 100)
         /\ Round(m, 1000) \in Nat /\ Round(n, 1000) \in Nat
         /\ Round(m, 1000) <= Round(n, 1000)
BY DEF Round

(* A longer way costs no less, whatever the surcharges.                    *)
LEMMA SurchargedGrows ==
  ASSUME NEW m \in Nat, NEW n \in Nat, m <= n,
         NEW rush, rush \in {100, 150},
         NEW weather, weather \in {100, 110, 115, 130, 150}
  PROVE  \E p \in Nat, q \in Nat :
           /\ p = Surcharged(m, rush, weather) /\ q = Surcharged(n, rush, weather)
           /\ p <= q
<1> DEFINE a == BaseFee + DistanceFee(m)
           b == BaseFee + DistanceFee(n)
<1>1. a \in Nat /\ b \in Nat /\ a <= b
  <2>1. m * 3000 \in Nat /\ n * 3000 \in Nat /\ m * 3000 <= n * 3000
    OBVIOUS
  <2> QED
    BY <2>1, RoundGrows DEF DistanceFee, BaseFee, PerKmRate
<1> HIDE DEF a, b
<1>2. a * rush \in Nat /\ b * rush \in Nat /\ a * rush <= b * rush
  <2>1. CASE rush = 100 BY <1>1, <2>1
  <2>2. CASE rush = 150 BY <1>1, <2>2
  <2> QED BY <2>1, <2>2
<1>3. PICK x \in Nat, y \in Nat :
        x = Round(a * rush, 100) /\ y = Round(b * rush, 100) /\ x <= y
  BY <1>2, RoundGrows
<1>4. PICK u \in Nat, v \in Nat : u = x * weather /\ v = y * weather /\ u <= v
  <2>1. CASE weather = 100 BY <1>3, <2>1
  <2>2. CASE weather = 110 BY <1>3, <2>2
  <2>3. CASE weather = 115 BY <1>3, <2>3
  <2>4. CASE weather = 130 BY <1>3, <2>4
  <2>5. CASE weather = 150 BY <1>3, <2>5
  <2> QED BY <2>1, <2>2, <2>3, <2>4, <2>5
<1>5. PICK p \in Nat, q \in Nat :
        p = Round(u, 100) /\ q = Round(v, 100) /\ p <= q
  <2>1. /\ Round(u, 100) \in Nat /\ Round(v, 100) \in Nat
        /\ Round(u, 100) <= Round(v, 100)
    BY <1>4, RoundGrows
  <2> QED
    BY <2>1
<1>6. p = Surcharged(m, rush, weather) /\ q = Surcharged(n, rush, weather)
  BY <1>3, <1>4, <1>5 DEF Surcharged, a, b
<1> QED
  BY <1>5, <1>6

(* Clamping keeps the order and ends between the bounds.                   *)
LEMMA ClampedGrows ==
  ASSUME NEW p \in Nat, NEW q \in Nat, p <= q
  PROVE  /\ Clamped(p) <= Clamped(q)
         /\ Clamped(p) \in MinFee .. MaxFee
         /\ Clamped(q) \in MinFee .. MaxFee
<1>1. PICK least \in Nat, greatest \in Nat :
        least = MinFee /\ greatest = MaxFee /\ least <= greatest
  BY DEF MinFee, MaxFee
<1> QED
  BY <1>1 DEF Clamped

(* At the same hour and weather the fee of the service, which follows the  *)
(* road where the router knows one, is never below the estimate of the     *)
(* page, which flies like the crow, and both stay between the least and    *)
(* the greatest fee.                                                       *)
THEOREM EstimateIsLeast ==
  ASSUME NEW crow \in Nat, NEW road \in Int, road < 0 \/ crow <= road,
         NEW oclock \in 0 .. 23, NEW w \in Weather
  PROVE  /\ PageFee(crow, oclock, w) <= ServiceFee(road, crow, oclock, w)
         /\ PageFee(crow, oclock, w) \in MinFee .. MaxFee
         /\ ServiceFee(road, crow, oclock, w) \in MinFee .. MaxFee
<1>1. PICK far \in Nat : far = (IF road < 0 THEN crow ELSE road) /\ crow <= far
  <2>1. CASE road < 0 BY <2>1
  <2>2. CASE ~(road < 0) BY <2>2
  <2> QED BY <2>1, <2>2
<1>2. PICK rush \in {100, 150} : rush = RushMultiplier(oclock)
  <2>1. RushMultiplier(oclock) \in {100, 150}
    BY DEF RushMultiplier
  <2> QED
    BY <2>1
<1>3. PICK weather \in {100, 110, 115, 130, 150} : weather = WeatherMultiplier(w)
  <2>1. w.condition \in {"wet", "snow", "fog", "clear"} /\ w.extreme \in BOOLEAN
    BY DEF Weather
  <2>2. WeatherMultiplier(w) \in {100, 110, 115, 130, 150}
    BY <2>1 DEF WeatherMultiplier
  <2> QED
    BY <2>2
<1>4. PICK p \in Nat, q \in Nat :
        /\ p = Surcharged(crow, rush, weather) /\ q = Surcharged(far, rush, weather)
        /\ p <= q
  <2>1. crow <= far
    BY <1>1
  <2> QED
    BY <2>1, SurchargedGrows
<1>5. /\ Clamped(p) <= Clamped(q)
      /\ Clamped(p) \in MinFee .. MaxFee
      /\ Clamped(q) \in MinFee .. MaxFee
  BY <1>4, ClampedGrows
<1>6. PageFee(crow, oclock, w) = Clamped(p)
  BY <1>2, <1>3, <1>4 DEF PageFee
<1>7. ServiceFee(road, crow, oclock, w) = Clamped(q)
  BY <1>1, <1>2, <1>3, <1>4 DEF PageFee, ServiceFee
<1> QED
  BY <1>5, <1>6, <1>7

-----------------------------------------------------------------------------
(* Types.                                                                  *)

(* Every fee is an amount.                                                 *)
LEMMA FeeTyped ==
  ASSUME NEW p \in Place, NEW h \in Hour, NEW w \in Sky
  PROVE  PageFee(Metres[p], h, w) \in Nat
<1>1. PICK crow \in Nat : crow = Metres[p]
  BY PlacesAssumption
<1>2. h \in 0 .. 23 /\ w \in Weather
  BY FeesAssumption
<1>3. PageFee(crow, h, w) \in MinFee .. MaxFee
  <2>1. PICK road \in Int : road = -1 /\ road < 0
    OBVIOUS
  <2>2. PICK oclock \in 0 .. 23 : oclock = h
    BY <1>2
  <2>3. PageFee(crow, oclock, w) \in MinFee .. MaxFee
    BY <1>2, <2>1, EstimateIsLeast
  <2> QED
    BY <2>2, <2>3
<1>4. PICK least \in Nat, greatest \in Nat : least = MinFee /\ greatest = MaxFee
  BY DEF MinFee, MaxFee
<1> QED
  BY <1>1, <1>3, <1>4

(* So is the sum of the dishes of a cart.                                  *)
LEMMA SubtotalTyped ==
  ASSUME NEW c \in Cart
  PROVE  Subtotal(c) \in Nat
<1> DEFINE cost == [d \in Dish |-> Price[d] * c.qty[d]]
<1>1. \A d \in Dish : cost[d] \in Nat
  <2> SUFFICES ASSUME NEW d \in Dish PROVE Price[d] * c.qty[d] \in Nat
    OBVIOUS
  <2>1. Price[d] \in Nat /\ c.qty[d] \in Nat
    BY PricesAssumption, ClicksAssumption DEF Cart
  <2> QED
    BY <2>1
<1>2. DOMAIN cost = Dish /\ IsFiniteSet(Dish)
  BY PricesAssumption
<1> HIDE DEF cost
<1>3. SumFunctionOnSet(cost, Dish) \in Nat
  BY <1>1, <1>2, SumInt
<1> QED
  BY <1>2, <1>3 DEF Subtotal, SumFunction, cost

(* Rounded parts of an amount are amounts.                                 *)
LEMMA RoundTyped ==
  ASSUME NEW n \in Nat
  PROVE  Round(n, 10) \in Nat /\ Round(n, 50) \in Nat
BY DEF Round

(* So is what a code takes off.                                            *)
LEMMA OffTyped ==
  ASSUME NEW c \in Cart, NEW code
  PROVE  Off(code, Subtotal(c)) \in Nat
BY SubtotalTyped, RoundTyped DEF Off

(* The page's total is an amount, its parts add up to an integer.          *)
LEMMA SumTyped ==
  ASSUME NEW c \in Cart, NEW f \in Form
  PROVE  Sum(c, f) \in Int /\ ShownTotal(c, f) \in Nat
<1>1. PICK n \in Nat : n = Subtotal(c)
  BY SubtotalTyped
<1>2. Round(n, 50) \in Nat
  BY RoundTyped
<1>3. f.fee \in Nat /\ f.discount \in Nat
  BY DEF Form
<1>4. Sum(c, f) \in Int
  BY <1>1, <1>2, <1>3 DEF Sum, DeliveryFee, ServiceCharge
<1> QED
  BY <1>4 DEF ShownTotal

(* A blank form is a form, an empty cart a cart.                           *)
LEMMA BlankTyped == Blank \in Form /\ Empty \in Cart /\ NotAsked \in Asked
<1>1. Blank \in Form
  <2>1. Here \in Place /\ "" \in Code /\ NoPlace \in Place \cup {NoPlace}
    BY PlacesAssumption, CodesAssumption
  <2>2. [point |-> Here, live |-> TRUE] \in Quote
    BY <2>1 DEF Quote
  <2>3. PICK first \in SUBSET Quote : first = {[point |-> Here, live |-> TRUE]}
    BY <2>2, Zenon
  <2>4. PICK no \in BOOLEAN : no = FALSE
    OBVIOUS
  <2>5. PICK method \in Method, via \in {"nothing", "list", "device", "hand", "race"},
             card \in {"none", "complete", "stale"} :
          method = "CASH" /\ via = "nothing" /\ card = "none"
    BY DEF Method
  <2>6. PICK zero \in Nat, code \in Code : zero = 0 /\ code = ""
    BY <2>1
  <2>7. [text |-> NoPlace, point |-> Here, looking |-> NoPlace, via |-> via,
         quotes |-> first, fee |-> zero, code |-> code, discount |-> zero,
         stale |-> no, method |-> method, card |-> card, gone |-> no] \in Form
    BY <2>1 DEF Form
  <2> QED
    BY <2>3, <2>4, <2>5, <2>6, <2>7, Zenon DEF Blank
<1>2. Empty \in Cart
  BY ClicksAssumption DEF Empty, Cart
<1> QED
  BY <1>1, <1>2 DEF NotAsked, Asked

(* The changes of address and point keep a form a form.                    *)
LEMMA FormChanges ==
  ASSUME NEW f \in Form, NEW p \in Place, NEW via \in {"nothing", "list", "device",
         "hand", "race"}
  PROVE  /\ Moved(f, p) \in Form
         /\ [f EXCEPT !.via = via] \in Form
         /\ \A t \in Place \cup {NoPlace} : [f EXCEPT !.text = t, !.via = via] \in Form
         /\ [f EXCEPT !.looking = p, !.via = via] \in Form
         /\ [f EXCEPT !.text = f.looking, !.looking = NoPlace] \in Form
<1>1. \A q \in Quote : [q EXCEPT !.live = FALSE] \in Quote
  BY DEF Quote
<1>2. [point |-> p, live |-> TRUE] \in Quote
  BY DEF Quote
<1>3. f.quotes \in SUBSET Quote
  BY DEF Form
<1>4. {[q EXCEPT !.live = FALSE] : q \in f.quotes} \cup {[point |-> p, live |-> TRUE]}
        \in SUBSET Quote
  BY <1>1, <1>2, <1>3
<1>5. Moved(f, p) \in Form
  BY <1>4 DEF Moved, Form
<1> QED
  BY <1>5 DEF Form

-----------------------------------------------------------------------------
(* The form.                                                               *)

(* What is true of a form on the page, and of the one a press went on      *)
(* with: its live request is for its point, its fee is one for its point   *)
(* or on its way, an address from the list or the device is its point or   *)
(* still looked up, and its discount is the code's.                        *)
FormGood(f, c) ==
  /\ \A q \in f.quotes : q.live => q.point = f.point
  /\ FeeFor(f)
  /\ f.via = "list" => f.looking = NoPlace /\ f.text = f.point
  /\ f.via = "device" /\ f.looking = NoPlace => f.text = f.point
  /\ f.via = "device" /\ f.looking # NoPlace => f.looking = f.point
  /\ ~f.stale => f.discount \in {0, Off(f.code, Subtotal(c))}

(* A blank form is good, its first request under way.                      *)
LEMMA BlankGood == ASSUME NEW c PROVE FormGood(Blank, c)
<1>1. PICK q : q = [point |-> Here, live |-> TRUE]
  OBVIOUS
<1>2. q.live /\ q.point = Here
  BY <1>1
<1>3. /\ Blank.quotes = {q} /\ Blank.point = Here /\ Blank.via = "nothing"
      /\ Blank.discount = 0
  BY <1>1 DEF Blank
<1> HIDE DEF Blank
<1> QED
  BY <1>2, <1>3 DEF FormGood, FeeFor

(* A new point cancels what was asked for and asks anew.                   *)
LEMMA MovedGood ==
  ASSUME NEW f \in Form, NEW p \in Place, NEW c, FormGood(f, c)
  PROVE  /\ Moved(f, p) \in Form /\ Moved(f, p).point = p
         /\ Moved(f, p).looking = f.looking /\ Moved(f, p).via = f.via
         /\ \A q \in Moved(f, p).quotes : q.live => q.point = p
         /\ FeeFor(Moved(f, p))
         /\ Moved(f, p).stale = f.stale /\ Moved(f, p).code = f.code
         /\ Moved(f, p).discount = f.discount
<1>1. Moved(f, p) \in Form
  BY FormChanges
<1>2. CASE p = f.point
  BY <1>1, <1>2 DEF Moved, FormGood
<1>3. CASE p # f.point
  <2>1. PICK fresh \in Quote : fresh = [point |-> p, live |-> TRUE]
    BY DEF Quote
  <2>2. PICK dead \in SUBSET Quote :
          /\ dead = {[q EXCEPT !.live = FALSE] : q \in f.quotes}
          /\ \A q \in dead : ~q.live
    <3>1. f.quotes \in SUBSET Quote
      BY DEF Form
    <3>2. \A q \in Quote :
            [q EXCEPT !.live = FALSE] \in Quote /\ ~[q EXCEPT !.live = FALSE].live
      BY DEF Quote
    <3>3. PICK dead : dead = {[q EXCEPT !.live = FALSE] : q \in f.quotes}
      OBVIOUS
    <3>4. \A x \in dead : x \in Quote /\ ~x.live
      BY <3>1, <3>2, <3>3
    <3>5. dead \in SUBSET Quote
      BY <3>4
    <3> QED
      BY <3>3, <3>4, <3>5
  <2>3. Moved(f, p) = [f EXCEPT !.point = p, !.quotes = dead \cup {fresh}]
    BY <1>3, <2>1, <2>2 DEF Moved
  <2>4. fresh.live /\ fresh.point = p
    BY <2>1
  <2>5. PICK e : e = Moved(f, p)
    OBVIOUS
  <2>6. /\ e.point = p /\ e.quotes = dead \cup {fresh} /\ e.looking = f.looking
        /\ e.via = f.via /\ e.stale = f.stale /\ e.code = f.code /\ e.discount = f.discount
    BY <2>3, <2>5 DEF Form
  <2>7. \A q \in e.quotes : q.live => q.point = p
    BY <2>2, <2>4, <2>6
  <2>8. FeeFor(e)
    BY <2>4, <2>6 DEF FeeFor
  <2> QED
    BY <1>1, <2>5, <2>6, <2>7, <2>8
<1> QED
  BY <1>2, <1>3

(* A suggestion, a click on the map and the device move the point.         *)
LEMMA ChosenGood ==
  ASSUME NEW f \in Form, NEW p \in Place, NEW c, FormGood(f, c)
  PROVE  /\ Suggested(f, p) \in Form /\ FormGood(Suggested(f, p), c)
         /\ [Moved(f, p) EXCEPT !.via = Via(f, "hand")] \in Form
         /\ FormGood([Moved(f, p) EXCEPT !.via = Via(f, "hand")], c)
         /\ f.looking = NoPlace =>
              /\ [Moved(f, p) EXCEPT !.looking = p, !.via = "device"] \in Form
              /\ FormGood([Moved(f, p) EXCEPT !.looking = p, !.via = "device"], c)
<1>1. PICK e \in Form :
        /\ e = Moved(f, p) /\ e.point = p /\ e.looking = f.looking /\ e.via = f.via
        /\ \A q \in e.quotes : q.live => q.point = p
        /\ FeeFor(e)
        /\ e.stale = f.stale /\ e.code = f.code /\ e.discount = f.discount
  BY MovedGood
<1>2. PICK list, hand :
        /\ list = Via(f, "list") /\ hand = Via(f, "hand")
        /\ list \in {"list", "race"} /\ hand \in {"hand", "race"}
        /\ list = "list" => f.looking = NoPlace
  BY DEF Via
<1>3. PICK x : x = [e EXCEPT !.text = p, !.via = list]
  OBVIOUS
<1>4. x \in Form /\ FormGood(x, c)
  <2>1. /\ x \in Form /\ x.text = p /\ x.via = list /\ x.point = p /\ x.looking = f.looking
        /\ x.quotes = e.quotes /\ x.fee = e.fee /\ x.stale = f.stale /\ x.code = f.code
        /\ x.discount = f.discount
    BY <1>1, <1>2, <1>3 DEF Form
  <2> QED
    BY <1>1, <1>2, <2>1 DEF FormGood, FeeFor
<1>5. PICK y : y = [e EXCEPT !.via = hand]
  OBVIOUS
<1>6. y \in Form /\ FormGood(y, c)
  <2>1. /\ y \in Form /\ y.via = hand /\ y.point = p
        /\ y.quotes = e.quotes /\ y.fee = e.fee /\ y.stale = f.stale /\ y.code = f.code
        /\ y.discount = f.discount
    BY <1>1, <1>2, <1>5 DEF Form
  <2> QED
    BY <1>1, <1>2, <2>1 DEF FormGood, FeeFor
<1>7. PICK z : z = [e EXCEPT !.looking = p, !.via = "device"]
  OBVIOUS
<1>8. z \in Form /\ FormGood(z, c)
  <2>1. /\ z \in Form /\ z.via = "device" /\ z.point = p /\ z.looking = p
        /\ z.quotes = e.quotes /\ z.fee = e.fee /\ z.stale = f.stale /\ z.code = f.code
        /\ z.discount = f.discount
    BY <1>1, <1>7 DEF Form
  <2>2. p # NoPlace
    BY PlacesAssumption
  <2> QED
    BY <1>1, <2>1, <2>2 DEF FormGood, FeeFor
<1> QED
  BY <1>1, <1>2, <1>3, <1>4, <1>5, <1>6, <1>7, <1>8 DEF Suggested

(* An address typed by hand, and the one that was looked up.               *)
LEMMA AddressGood ==
  ASSUME NEW f \in Form, NEW c, FormGood(f, c)
  PROVE  /\ \A t \in Place \cup {NoPlace} :
              /\ [f EXCEPT !.text = t, !.via = Via(f, "hand")] \in Form
              /\ FormGood([f EXCEPT !.text = t, !.via = Via(f, "hand")], c)
         /\ f.looking # NoPlace =>
              /\ [f EXCEPT !.text = f.looking, !.looking = NoPlace] \in Form
              /\ FormGood([f EXCEPT !.text = f.looking, !.looking = NoPlace], c)
<1>1. PICK hand \in {"hand", "race"} : hand = Via(f, "hand")
  BY DEF Via
<1>2. ASSUME NEW t \in Place \cup {NoPlace}, NEW x, x = [f EXCEPT !.text = t, !.via = hand]
      PROVE  x \in Form /\ FormGood(x, c)
  <2>1. /\ x \in Form /\ x.via = hand /\ x.point = f.point /\ x.quotes = f.quotes
        /\ x.fee = f.fee /\ x.stale = f.stale /\ x.code = f.code /\ x.discount = f.discount
    BY <1>2 DEF Form
  <2> QED
    BY <2>1 DEF FormGood, FeeFor
<1>3. ASSUME f.looking # NoPlace,
             NEW x, x = [f EXCEPT !.text = f.looking, !.looking = NoPlace]
      PROVE  x \in Form /\ FormGood(x, c)
  <2>1. /\ x \in Form /\ x.via = f.via /\ x.point = f.point /\ x.quotes = f.quotes
        /\ x.text = f.looking /\ x.looking = NoPlace
        /\ x.fee = f.fee /\ x.stale = f.stale /\ x.code = f.code /\ x.discount = f.discount
    BY <1>3 DEF Form
  <2> QED
    BY <1>3, <2>1 DEF FormGood, FeeFor
<1> QED
  BY <1>1, <1>2, <1>3

(* Only the live request, the one for the point, changes the fee.          *)
LEMMA AnsweredGood ==
  ASSUME NEW f \in Form, NEW c, FormGood(f, c),
         NEW q \in f.quotes, NEW h \in Hour, NEW w \in Sky
  PROVE  /\ Answered(f, q, PageFee(Metres[q.point], h, w)) \in Form
         /\ FormGood(Answered(f, q, PageFee(Metres[q.point], h, w)), c)
<1>1. PICK old \in SUBSET Quote : old = f.quotes /\ q \in old
  BY DEF Form
<1>2. q \in Quote /\ q.point \in Place
  BY <1>1 DEF Quote
<1>3. PICK fee \in Nat : fee = PageFee(Metres[q.point], h, w)
  BY <1>2, FeeTyped
<1>4. PICK new \in Nat : new = IF q.live THEN fee ELSE f.fee
  BY DEF Form
<1>5. PICK x : x = [f EXCEPT !.quotes = old \ {q}, !.fee = new]
  OBVIOUS
<1>6. /\ x \in Form /\ x.via = f.via /\ x.point = f.point /\ x.quotes = old \ {q}
      /\ x.text = f.text /\ x.looking = f.looking
      /\ x.fee = new /\ x.stale = f.stale /\ x.code = f.code /\ x.discount = f.discount
  BY <1>5 DEF Form
<1>7. FeeFor(x)
  <2>1. CASE q.live
    <3>1. q.point = f.point
      BY <2>1 DEF FormGood
    <3> QED
      BY <1>3, <1>4, <1>6, <2>1, <3>1 DEF FeeFor
  <2>2. CASE ~q.live
    <3>1. FeeFor(f) /\ new = f.fee
      BY <1>4, <2>2 DEF FormGood
    <3> QED
      BY <1>1, <1>6, <2>2, <3>1 DEF FeeFor
  <2> QED
    BY <2>1, <2>2
<1>8. FormGood(x, c)
  BY <1>1, <1>6, <1>7 DEF FormGood
<1>9. x = Answered(f, q, PageFee(Metres[q.point], h, w))
  BY <1>1, <1>3, <1>4, <1>5 DEF Answered
<1> QED
  BY <1>6, <1>8, <1>9

(* The form with another code and discount.                                *)
LEMMA DiscountGood ==
  ASSUME NEW f \in Form, NEW c, FormGood(f, c),
         NEW code \in Code, NEW discount \in Nat, NEW stale \in BOOLEAN,
         ~stale => discount \in {0, Off(code, Subtotal(c))}
  PROVE  /\ [f EXCEPT !.code = code, !.discount = discount, !.stale = stale] \in Form
         /\ FormGood([f EXCEPT !.code = code, !.discount = discount, !.stale = stale], c)
<1>1. PICK x : x = [f EXCEPT !.code = code, !.discount = discount, !.stale = stale]
  OBVIOUS
<1>2. /\ x \in Form /\ x.via = f.via /\ x.point = f.point /\ x.quotes = f.quotes
      /\ x.text = f.text /\ x.looking = f.looking /\ x.fee = f.fee /\ x.stale = stale
      /\ x.code = code /\ x.discount = discount
  BY <1>1 DEF Form
<1>3. FormGood(x, c)
  BY <1>2 DEF FormGood, FeeFor
<1> QED
  BY <1>1, <1>2, <1>3

(* The form with another method and other fields for the card.             *)
LEMMA CardGood ==
  ASSUME NEW f \in Form, NEW c, FormGood(f, c),
         NEW method \in Method, NEW card \in {"none", "complete", "stale"},
         NEW gone \in BOOLEAN
  PROVE  /\ [f EXCEPT !.method = method, !.card = card, !.gone = gone] \in Form
         /\ FormGood([f EXCEPT !.method = method, !.card = card, !.gone = gone], c)
<1>1. PICK x : x = [f EXCEPT !.method = method, !.card = card, !.gone = gone]
  OBVIOUS
<1>2. /\ x \in Form /\ x.via = f.via /\ x.point = f.point /\ x.quotes = f.quotes
      /\ x.text = f.text /\ x.looking = f.looking /\ x.fee = f.fee /\ x.stale = f.stale
      /\ x.code = f.code /\ x.discount = f.discount
  BY <1>1 DEF Form
<1>3. FormGood(x, c)
  BY <1>2 DEF FormGood, FeeFor
<1> QED
  BY <1>1, <1>2, <1>3

(* What a press of the button goes on with.                                *)
LEMMA ReadGood ==
  ASSUME NEW f \in Form, NEW c \in Cart, FormGood(f, c)
  PROVE  /\ Read(f) \in Form /\ FormGood(Read(f), c)
         /\ ShownTotal(c, Read(f)) = ShownTotal(c, f)
<1>1. PICK live \in SUBSET Quote :
        live = {q \in f.quotes : q.live} /\ live \subseteq f.quotes
  BY DEF Form
<1>2. PICK no \in BOOLEAN : no = FALSE
  OBVIOUS
<1>3. PICK x : x = [f EXCEPT !.card = "none", !.gone = no, !.quotes = live]
  OBVIOUS
<1>4. /\ x \in Form /\ x.via = f.via /\ x.point = f.point /\ x.quotes = live
      /\ x.text = f.text /\ x.looking = f.looking /\ x.fee = f.fee /\ x.stale = f.stale
      /\ x.code = f.code /\ x.discount = f.discount
  BY <1>3 DEF Form
<1>5. FormGood(x, c)
  BY <1>1, <1>4 DEF FormGood, FeeFor
<1>6. x = Read(f)
  BY <1>1, <1>2, <1>3 DEF Read
<1>7. ShownTotal(c, x) = ShownTotal(c, f)
  BY <1>4 DEF ShownTotal, Sum, DeliveryFee
<1> QED
  BY <1>4, <1>5, <1>6, <1>7

-----------------------------------------------------------------------------
(* The invariant.                                                          *)

(* The form is blank wherever the checkout page is not open.               *)
Mounted == page # "checkout" => form = Blank

(* The form of the page and those of the presses.                          *)
FormsGood ==
  /\ FormGood(form, cart)
  /\ \A o \in Order : FormGood(asked[o].form, asked[o].cart)

(* What is known of an order from how far its press has come.              *)
FlowGood(o) ==
  /\ flow[o] \in {"new", "placing"} => ~Placed(o) /\ payments[o] = NoTotal
  /\ flow[o] \in {"placed", "intent", "charging", "closing", "done"} => Placed(o)
  /\ flow[o] = "closing" => asked[o].form.method = "CASH" \/ o \in authorised
  /\ Placed(o) => orders[o] = asked[o].shown
  /\ payments[o] # NoTotal => payments[o] = asked[o].shown
  /\ flow[o] # "new" => /\ asked[o].basket <= basket
                        /\ asked[o].shown = ShownTotal(asked[o].cart, asked[o].form)
  /\ flow[o] = "done" => asked[o].basket < basket

(* Of two presses for one cart in one visit one has failed.                *)
Once ==
  \A o1, o2 \in Order :
    /\ o1 # o2 /\ flow[o1] # "new" /\ flow[o2] # "new"
    /\ asked[o1].basket = asked[o2].basket
    /\ asked[o1].visit = asked[o2].visit
    => "failed" \in {flow[o1], flow[o2]}

(* The inductive invariant.                                                *)
CheckoutIInv ==
  /\ CheckoutTypeOK /\ Mounted /\ OneKitchen /\ FormsGood
  /\ \A o \in Order : FlowGood(o)
  /\ Once

-----------------------------------------------------------------------------
(* The cart.                                                               *)

(* Adding a dish, changing its number and emptying keep a cart to one      *)
(* merchant.                                                               *)
LEMMA CartsGood ==
  ASSUME NEW c \in Cart, OneMerchant(c)
  PROVE  /\ \A d \in Dish : c.qty[d] < MaxQuantity =>
              WithDish(c, d) \in Cart /\ OneMerchant(WithDish(c, d))
         /\ \A d \in Dish, n \in 0 .. MaxQuantity : c.qty[d] > 0 =>
              WithQuantity(c, d, n) \in Cart /\ OneMerchant(WithQuantity(c, d, n))
         /\ Cleared(c) \in Cart /\ OneMerchant(Cleared(c))
<1>1. PICK qty \in [Dish -> 0 .. MaxQuantity], kitchen \in Merchant \cup {NoMerchant} :
        /\ c.qty = qty /\ c.kitchen = kitchen
        /\ \A d \in Dish : qty[d] > 0 => Kitchen[d] = kitchen
        /\ kitchen # NoMerchant => \E d \in Dish : qty[d] > 0
  BY DEF Cart, OneMerchant
<1>2. PICK none \in [Dish -> 0 .. MaxQuantity] :
        none = Empty.qty /\ \A d \in Dish : none[d] = 0
  <2>1. PICK none : none = [d \in Dish |-> 0]
    OBVIOUS
  <2>2. 0 \in 0 .. MaxQuantity
    BY ClicksAssumption
  <2>3. none \in [Dish -> 0 .. MaxQuantity] /\ \A d \in Dish : none[d] = 0
    BY <2>1, <2>2
  <2>4. none = Empty.qty
    BY <2>1 DEF Empty
  <2> QED
    BY <2>3, <2>4
<1>3. ASSUME NEW d \in Dish, qty[d] < MaxQuantity
      PROVE  WithDish(c, d) \in Cart /\ OneMerchant(WithDish(c, d))
  <2>1. PICK own \in [Dish -> 0 .. MaxQuantity] :
          /\ own = (IF kitchen \in {NoMerchant, Kitchen[d]} THEN qty ELSE none)
          /\ own[d] < MaxQuantity
          /\ \A e \in Dish : own[e] > 0 => Kitchen[e] = Kitchen[d]
    <3>1. Kitchen[d] \in Merchant /\ NoMerchant \notin Merchant
          /\ \A e \in Dish : Kitchen[e] \in Merchant
      BY PlacesAssumption
    <3>2. 0 < MaxQuantity
      BY <1>3, ClicksAssumption
    <3>3. CASE kitchen \in {NoMerchant, Kitchen[d]}
      BY <1>1, <1>3, <3>1, <3>3
    <3>4. CASE kitchen \notin {NoMerchant, Kitchen[d]}
      BY <1>2, <3>2, <3>4
    <3> QED
      BY <3>3, <3>4
  <2>2. PICK more : more = [own EXCEPT ![d] = @ + 1]
    OBVIOUS
  <2>3. /\ more \in [Dish -> 0 .. MaxQuantity]
        /\ more[d] > 0 /\ \A e \in Dish : more[e] > 0 => Kitchen[e] = Kitchen[d]
    <3>1. own[d] + 1 \in 0 .. MaxQuantity /\ own[d] + 1 > 0
      BY <2>1, ClicksAssumption
    <3> QED
      BY <2>1, <2>2, <3>1
  <2>4. WithDish(c, d) = [kitchen |-> Kitchen[d], qty |-> more]
    BY <1>1, <1>2, <2>1, <2>2 DEF WithDish
  <2>5. Kitchen[d] \in Merchant
    BY PlacesAssumption
  <2> QED
    BY <2>3, <2>4, <2>5 DEF Cart, OneMerchant
<1>4. ASSUME NEW d \in Dish, NEW n \in 0 .. MaxQuantity, qty[d] > 0
      PROVE  WithQuantity(c, d, n) \in Cart /\ OneMerchant(WithQuantity(c, d, n))
  <2>1. PICK left \in [Dish -> 0 .. MaxQuantity] :
          /\ left = [qty EXCEPT ![d] = n]
          /\ \A e \in Dish : left[e] > 0 => Kitchen[e] = kitchen
    <3>1. PICK left : left = [qty EXCEPT ![d] = n]
      OBVIOUS
    <3>2. left \in [Dish -> 0 .. MaxQuantity]
      BY <3>1
    <3>3. Kitchen[d] = kitchen
      BY <1>1, <1>4
    <3>4. \A e \in Dish : e = d \/ left[e] = qty[e]
      BY <3>1
    <3> QED
      BY <1>1, <3>1, <3>2, <3>3, <3>4
  <2>2. PICK from \in Merchant \cup {NoMerchant} :
          from = IF \A e \in Dish : left[e] = 0 THEN NoMerchant ELSE kitchen
    OBVIOUS
  <2>3. WithQuantity(c, d, n) = [kitchen |-> from, qty |-> left]
    BY <1>1, <2>1, <2>2 DEF WithQuantity
  <2>4. from # NoMerchant => \E e \in Dish : left[e] > 0
    BY <2>1, <2>2, ClicksAssumption
  <2>5. \A e \in Dish : left[e] > 0 => Kitchen[e] = from
    BY <2>1, <2>2
  <2> QED
    BY <2>3, <2>4, <2>5 DEF Cart, OneMerchant
<1>5. Cleared(c) \in Cart /\ OneMerchant(Cleared(c))
  <2>1. Empty \in Cart /\ Empty.kitchen = NoMerchant
    BY BlankTyped DEF Empty
  <2> QED
    BY <1>2, <2>1 DEF Cleared, OneMerchant
<1> QED
  BY <1>1, <1>3, <1>4, <1>5

-----------------------------------------------------------------------------
(* The steps of the tab.                                                   *)

(* Everything starts with an empty cart and a blank form.                  *)
LEMMA CheckoutInitGood == CheckoutInit => CheckoutIInv
<1> SUFFICES ASSUME CheckoutInit PROVE CheckoutIInv
  OBVIOUS
<1>1. CheckoutTypeOK
  BY BlankTyped DEF CheckoutInit, CheckoutTypeOK, Total, NoTotal
<1>2. Mounted
  BY DEF CheckoutInit, Mounted
<1>3. OneMerchant(Empty)
  BY DEF OneMerchant, Empty
<1>4. OneKitchen
  BY <1>3 DEF OneKitchen, CheckoutInit, NotAsked
<1>5. FormsGood
  <2>1. FormGood(form, cart)
    BY BlankGood DEF CheckoutInit
  <2>2. ASSUME NEW o \in Order PROVE FormGood(asked[o].form, asked[o].cart)
    <3>1. asked[o].form = Blank
      BY DEF CheckoutInit, NotAsked
    <3> QED
      BY <3>1, BlankGood
  <2> QED
    BY <2>1, <2>2 DEF FormsGood
<1>6. \A o \in Order : FlowGood(o)
  BY DEF CheckoutInit, FlowGood, Placed, NoTotal
<1>7. Once
  BY DEF CheckoutInit, Once
<1> QED
  BY <1>1, <1>2, <1>4, <1>5, <1>6, <1>7 DEF CheckoutIInv

(* A step that changes the tab alone: the cart of the shop, or the form.   *)
LEMMA TabStep ==
  ASSUME CheckoutIInv, NEW c \in Cart, OneMerchant(c), NEW f \in Form, FormGood(f, c),
         cart' = c, form' = f, page' \in {"shop", "checkout", "success"},
         page' # "checkout" => f = Blank,
         visits' \in Nat, clicks' \in Nat,
         UNCHANGED <<flow, asked, services, told, basket>>
  PROVE  CheckoutIInv'
<1>1. CheckoutTypeOK'
  BY DEF CheckoutIInv, CheckoutTypeOK, services
<1>2. Mounted'
  BY DEF Mounted
<1>3. OneKitchen'
  <2>1. OneMerchant(cart')
    OBVIOUS
  <2>2. \A o \in Order : OneMerchant(asked[o].cart)
    BY DEF CheckoutIInv, OneKitchen
  <2> QED
    BY <2>1, <2>2 DEF OneKitchen
<1>4. FormsGood'
  <2>1. FormGood(form', cart')
    OBVIOUS
  <2>2. \A o \in Order : FormGood(asked[o].form, asked[o].cart)
    BY DEF CheckoutIInv, FormsGood
  <2> QED
    BY <2>1, <2>2 DEF FormsGood
<1>5. (\A o \in Order : FlowGood(o))'
  BY DEF CheckoutIInv, FlowGood, Placed, services
<1>6. Once'
  BY DEF CheckoutIInv, Once
<1> QED
  BY <1>1, <1>2, <1>3, <1>4, <1>5, <1>6 DEF CheckoutIInv

(* The shop and the way to and from the checkout page.                     *)
LEMMA BrowseKeeps ==
  ASSUME CheckoutIInv, NEW c \in Cart, OneMerchant(c), Browse(c)
  PROVE  CheckoutIInv'
<1>1. Blank \in Form /\ FormGood(Blank, c)
  BY BlankTyped, BlankGood
<1>2. form' = Blank /\ page' = "shop"
  BY DEF Browse, CheckoutIInv, Mounted
<1>3. visits' \in Nat /\ clicks' \in Nat
  BY DEF Browse, Click, CheckoutIInv, CheckoutTypeOK
<1> QED
  BY <1>1, <1>2, <1>3, TabStep DEF Browse

(* The cart store.                                                         *)
LEMMA CartKeeps ==
  ASSUME CheckoutIInv,
         \/ \E d \in Dish : AddItem(d) \/ \E n \in 0 .. MaxQuantity : UpdateQuantity(d, n)
         \/ ClearCart
  PROVE  CheckoutIInv'
<1>1. cart \in Cart /\ OneMerchant(cart)
  BY DEF CheckoutIInv, CheckoutTypeOK, OneKitchen
<1>2. CASE \E d \in Dish : AddItem(d)
  <2>1. PICK d \in Dish : AddItem(d)
    BY <1>2
  <2>2. WithDish(cart, d) \in Cart /\ OneMerchant(WithDish(cart, d))
    BY <1>1, <2>1, CartsGood DEF AddItem
  <2> QED
    BY <2>1, <2>2, BrowseKeeps DEF AddItem
<1>3. CASE \E d \in Dish, n \in 0 .. MaxQuantity : UpdateQuantity(d, n)
  <2>1. PICK d \in Dish, n \in 0 .. MaxQuantity : UpdateQuantity(d, n)
    BY <1>3
  <2>2. WithQuantity(cart, d, n) \in Cart /\ OneMerchant(WithQuantity(cart, d, n))
    BY <1>1, <2>1, CartsGood DEF UpdateQuantity
  <2> QED
    BY <2>1, <2>2, BrowseKeeps DEF UpdateQuantity
<1>4. CASE ClearCart
  <2>1. Cleared(cart) \in Cart /\ OneMerchant(Cleared(cart))
    BY <1>1, CartsGood
  <2> QED
    BY <1>4, <2>1, BrowseKeeps DEF ClearCart
<1> QED
  BY <1>2, <1>3, <1>4

(* Opening and leaving the checkout page.                                  *)
LEMMA PageKeeps ==
  ASSUME CheckoutIInv, OpenCheckout \/ LeaveCheckout
  PROVE  CheckoutIInv'
<1>1. cart \in Cart /\ OneMerchant(cart)
  BY DEF CheckoutIInv, CheckoutTypeOK, OneKitchen
<1>2. Blank \in Form /\ FormGood(Blank, cart)
  BY BlankTyped, BlankGood
<1>3. /\ cart' = cart /\ form' = Blank /\ page' \in {"shop", "checkout"}
      /\ UNCHANGED <<flow, asked, services, told, basket>>
  BY DEF OpenCheckout, LeaveCheckout
<1>4. visits' \in Nat /\ clicks' \in Nat
  BY DEF CheckoutIInv, CheckoutTypeOK, OpenCheckout, LeaveCheckout, Click
<1> QED
  BY <1>1, <1>2, <1>3, <1>4, TabStep

(* The form changes on the checkout page.                                  *)
LEMMA FormStep ==
  ASSUME CheckoutIInv, NEW f \in Form, FormGood(f, cart), Becomes(f), clicks' \in Nat
  PROVE  CheckoutIInv'
<1>1. cart \in Cart /\ OneMerchant(cart)
  BY DEF CheckoutIInv, CheckoutTypeOK, OneKitchen
<1>2. /\ cart' = cart /\ form' = f /\ page' = "checkout" /\ visits' \in Nat
      /\ UNCHANGED <<flow, asked, services, told, basket>>
  BY DEF Becomes, CheckoutIInv, CheckoutTypeOK
<1> QED
  BY <1>1, <1>2, TabStep

(* The consumer changes the form.                                          *)
LEMMA EditStep ==
  ASSUME CheckoutIInv, NEW f \in Form, FormGood(f, cart), Edit(f)
  PROVE  CheckoutIInv'
<1>1. Becomes(f) /\ clicks' \in Nat
  BY DEF Edit, Click, CheckoutIInv, CheckoutTypeOK
<1> QED
  BY <1>1, FormStep

(* What the page holds is a good form.                                     *)
LEMMA FormKnown ==
  ASSUME CheckoutIInv
  PROVE  form \in Form /\ FormGood(form, cart) /\ cart \in Cart /\ clicks \in Nat
BY DEF CheckoutIInv, CheckoutTypeOK, FormsGood

(* Address and point.                                                      *)
LEMMA AddressKeeps ==
  ASSUME CheckoutIInv,
         \/ \E p \in Place : SelectSuggestion(p) \/ ClickMap(p) \/ Locate(p)
         \/ \E p \in Place \cup {NoPlace} : TypeAddress(p)
         \/ AddressFound
  PROVE  CheckoutIInv'
<1>1. PICK f \in Form : f = form /\ FormGood(f, cart) /\ clicks \in Nat
  BY FormKnown
<1>2. CASE \E p \in Place : SelectSuggestion(p)
  BY <1>1, <1>2, ChosenGood, EditStep DEF SelectSuggestion
<1>3. CASE \E p \in Place : ClickMap(p)
  BY <1>1, <1>3, ChosenGood, EditStep DEF ClickMap
<1>4. CASE \E p \in Place : Locate(p)
  BY <1>1, <1>4, ChosenGood, EditStep DEF Locate
<1>5. CASE \E p \in Place \cup {NoPlace} : TypeAddress(p)
  BY <1>1, <1>5, AddressGood, EditStep DEF TypeAddress
<1>6. CASE AddressFound
  BY <1>1, <1>6, AddressGood, FormStep DEF AddressFound
<1> QED
  BY <1>2, <1>3, <1>4, <1>5, <1>6

(* A fee arrives, wanted or not.                                           *)
LEMMA FeeKeeps ==
  ASSUME CheckoutIInv, NEW q \in Quote, NEW h \in Hour, NEW w \in Sky, FeeArrives(q, h, w)
  PROVE  CheckoutIInv'
<1>1. PICK f \in Form : f = form /\ FormGood(f, cart) /\ clicks \in Nat /\ q \in f.quotes
  BY FormKnown DEF FeeArrives
<1>2. PICK g \in Form :
        g = Answered(f, q, PageFee(Metres[q.point], h, w)) /\ FormGood(g, cart)
  BY <1>1, AnsweredGood
<1> QED
  BY <1>1, <1>2, FormStep DEF FeeArrives

(* Codes and their discounts.                                              *)
LEMMA CodeKeeps ==
  ASSUME CheckoutIInv,
         \/ \E code \in Code : TypeCode(code)
         \/ \E code \in {"PROMO10", "PROMO20"} : QuickCode(code)
         \/ ApplyCode
  PROVE  CheckoutIInv'
<1>1. PICK f \in Form, c \in Cart :
        f = form /\ c = cart /\ FormGood(f, c) /\ clicks \in Nat
  BY FormKnown
<1>2. PICK no \in BOOLEAN, zero \in Nat : no = FALSE /\ zero = 0
  OBVIOUS
<1>3. PICK off \in Nat : off = Off(f.code, Subtotal(c))
  BY OffTyped
<1>4. f.code \in Code /\ f.discount \in Nat
  BY DEF Form
<1>5. CASE \E code \in Code : TypeCode(code)
  <2>1. PICK code \in Code : TypeCode(code)
    BY <1>5
  <2>2. PICK g \in Form :
          g = [f EXCEPT !.code = code, !.discount = zero, !.stale = no] /\ FormGood(g, c)
    BY <1>1, <1>2, DiscountGood
  <2>3. g = Typed(f, code)
    BY <1>2, <2>2, Zenon DEF Typed
  <2> QED
    BY <1>1, <2>1, <2>2, <2>3, EditStep DEF TypeCode
<1>6. CASE ApplyCode
  <2>1. PICK g \in Form :
          g = [f EXCEPT !.code = f.code, !.discount = off, !.stale = no] /\ FormGood(g, c)
    BY <1>1, <1>2, <1>3, <1>4, DiscountGood
  <2>2. g = Applied(f, c)
    BY <1>2, <1>3, <2>1 DEF Applied, Form
  <2> QED
    BY <1>1, <1>6, <2>1, <2>2, EditStep DEF ApplyCode
<1>7. CASE \E code \in {"PROMO10", "PROMO20"} : QuickCode(code)
  <2>1. PICK code \in Code : QuickCode(code) /\ code # ""
    BY <1>7, CodesAssumption
  <2>2. PICK discount \in Nat : discount = IF f.code = "" THEN f.discount ELSE off
    BY <1>4
  <2>3. PICK stale \in BOOLEAN : stale = (code # f.code)
    OBVIOUS
  <2>4. ~stale => discount \in {0, Off(code, Subtotal(c))}
    BY <1>3, <2>1, <2>2, <2>3
  <2>5. PICK g \in Form :
          g = [f EXCEPT !.code = code, !.discount = discount, !.stale = stale]
            /\ FormGood(g, c)
    BY <1>1, <2>4, DiscountGood
  <2>6. Edit(g)
    BY <1>1, <1>3, <2>1, <2>2, <2>3, <2>5 DEF QuickCode
  <2> QED
    BY <1>1, <2>5, <2>6, EditStep
<1> QED
  BY <1>5, <1>6, <1>7

(* Method and card.                                                        *)
LEMMA CardKeeps ==
  ASSUME CheckoutIInv,
         \/ \E m \in Method : ChooseMethod(m)
         \/ \E card \in {"none", "complete"} : TypeCard(card)
  PROVE  CheckoutIInv'
<1>1. PICK f \in Form, c \in Cart :
        f = form /\ c = cart /\ FormGood(f, c) /\ clicks \in Nat
  BY FormKnown
<1>2. /\ f.method \in Method /\ f.card \in {"none", "complete", "stale"}
      /\ f.gone \in BOOLEAN
  BY DEF Form
<1>3. CASE \E m \in Method : ChooseMethod(m)
  <2>1. PICK m \in Method : ChooseMethod(m)
    BY <1>3
  <2>2. CASE f.method # "CREDIT_CARD"
    <3>1. PICK g \in Form :
            g = [f EXCEPT !.method = m, !.card = f.card, !.gone = f.gone] /\ FormGood(g, c)
      BY <1>1, <1>2, CardGood
    <3>2. g = Unmounted(f, m)
      BY <2>2, <3>1 DEF Unmounted, Form
    <3> QED
      BY <1>1, <2>1, <3>1, <3>2, EditStep DEF ChooseMethod
  <2>3. CASE f.method = "CREDIT_CARD"
    <3>1. PICK gone \in BOOLEAN : gone = (f.gone \/ FieldTaken)
      OBVIOUS
    <3>2. PICK card \in {"none", "complete", "stale"} :
            card = IF f.card = "complete" THEN "stale" ELSE f.card
      BY <1>2
    <3>3. PICK g \in Form :
            g = [f EXCEPT !.method = m, !.card = card, !.gone = gone] /\ FormGood(g, c)
      BY <1>1, CardGood
    <3>4. g = Unmounted(f, m)
      BY <2>3, <3>1, <3>2, <3>3 DEF Unmounted, Form
    <3> QED
      BY <1>1, <2>1, <3>3, <3>4, EditStep DEF ChooseMethod
  <2> QED
    BY <2>2, <2>3
<1>4. CASE \E card \in {"none", "complete"} : TypeCard(card)
  <2>1. PICK card \in {"none", "complete", "stale"} : TypeCard(card)
    BY <1>4
  <2>2. PICK g \in Form :
          g = [f EXCEPT !.method = f.method, !.card = card, !.gone = f.gone] /\ FormGood(g, c)
    BY <1>1, <1>2, CardGood
  <2>3. g = [f EXCEPT !.card = card]
    BY <2>2 DEF Form
  <2> QED
    BY <1>1, <2>1, <2>2, <2>3, EditStep DEF TypeCard
<1> QED
  BY <1>3, <1>4

-----------------------------------------------------------------------------
(* The presses of the button.                                              *)

(* A press that comes further.  The form of the page loses nothing but its *)
(* card field, and the others keep what they have.                         *)
LEMMA CallStep ==
  ASSUME CheckoutIInv, NEW o \in Order, NEW f \in Form, FormGood(f, cart),
         NEW to \in {"placed", "intent", "charging", "closing", "failed"},
         flow[o] \notin {"new", "failed"}, flow' = [flow EXCEPT ![o] = to],
         form' = f, page # "checkout" => f = Blank,
         UNCHANGED <<cart, page, basket, visits, clicks, asked, told>>,
         orders' \in [Order -> Total], payments' \in [Order -> Total],
         authorised' \in SUBSET Order,
         \A p \in Order \ {o} : /\ orders'[p] = orders[p] /\ payments'[p] = payments[p]
                                /\ p \in authorised => p \in authorised',
         FlowGood(o)'
  PROVE  CheckoutIInv'
<1>1. flow \in [Order -> {"new", "placing", "placed", "intent", "charging", "closing",
                          "done", "failed"}]
  BY DEF CheckoutIInv, CheckoutTypeOK
<1>2. flow' \in [Order -> {"new", "placing", "placed", "intent", "charging", "closing",
                           "done", "failed"}]
  BY <1>1
<1>3. CheckoutTypeOK'
  BY <1>2 DEF CheckoutIInv, CheckoutTypeOK
<1>4. Mounted'
  BY DEF Mounted
<1>5. OneKitchen'
  BY DEF CheckoutIInv, OneKitchen
<1>6. FormsGood'
  <2>1. FormGood(form', cart')
    OBVIOUS
  <2>2. \A p \in Order : FormGood(asked[p].form, asked[p].cart)
    BY DEF CheckoutIInv, FormsGood
  <2> QED
    BY <2>1, <2>2 DEF FormsGood
<1>7. (\A p \in Order : FlowGood(p))'
  <2> SUFFICES ASSUME NEW p \in Order \ {o} PROVE FlowGood(p)'
    OBVIOUS
  <2>1. FlowGood(p) /\ flow'[p] = flow[p]
    BY <1>1 DEF CheckoutIInv
  <2> QED
    BY <2>1 DEF FlowGood, Placed
<1>8. Once'
  <2>1. \A p \in Order : /\ p # o => flow'[p] = flow[p]
                         /\ flow'[p] # "new" => flow[p] # "new"
                         /\ flow[p] = "failed" => flow'[p] = "failed"
    BY <1>1
  <2> QED
    BY <2>1 DEF CheckoutIInv, Once
<1> QED
  BY <1>3, <1>4, <1>5, <1>6, <1>7, <1>8 DEF CheckoutIInv

(* What the page holds while a press comes further.                        *)
LEMMA PressKnown ==
  ASSUME CheckoutIInv, NEW o \in Order
  PROVE  /\ form \in Form /\ FormGood(form, cart) /\ (page # "checkout" => form = Blank)
         /\ flow \in [Order -> {"new", "placing", "placed", "intent", "charging",
                                "closing", "done", "failed"}]
         /\ orders \in [Order -> Total] /\ payments \in [Order -> Total]
         /\ authorised \in SUBSET Order
         /\ FlowGood(o)
BY DEF CheckoutIInv, CheckoutTypeOK, Mounted, FormsGood

(* order-service works out what the page showed.                           *)
LEMMA PlaceOrderKeeps ==
  ASSUME CheckoutIInv, NEW o \in Order, PlaceOrder(o)
  PROVE  CheckoutIInv'
<1>1. /\ form \in Form /\ FormGood(form, cart) /\ (page # "checkout" => form = Blank)
      /\ flow \in [Order -> {"new", "placing", "placed", "intent", "charging",
                             "closing", "done", "failed"}]
      /\ orders \in [Order -> Total] /\ payments \in [Order -> Total]
      /\ authorised \in SUBSET Order
      /\ FlowGood(o)
  BY PressKnown
<1>2. asked[o].cart \in Cart /\ asked[o].form \in Form
  BY DEF CheckoutIInv, CheckoutTypeOK, Asked
<1>3. PICK total \in Nat : total = PlacedTotal(o) /\ total = asked[o].shown
  <2>1. PICK sum \in Int : sum = Sum(asked[o].cart, asked[o].form)
    BY <1>2, SumTyped
  <2>2. sum >= 0 /\ sum = PlacedTotal(o)
    BY <2>1 DEF PlaceOrder, PlacedTotal
  <2>3. sum = ShownTotal(asked[o].cart, asked[o].form)
    BY <2>1, <2>2 DEF ShownTotal
  <2>4. flow[o] = "placing"
    BY DEF PlaceOrder, Step
  <2> QED
    BY <1>1, <2>2, <2>3, <2>4 DEF FlowGood
<1>4. total \in Total /\ total # NoTotal
  BY DEF Total, NoTotal
<1>5. /\ flow[o] = "placing" /\ flow' = [flow EXCEPT ![o] = "placed"]
      /\ orders' = [orders EXCEPT ![o] = total]
      /\ UNCHANGED <<cart, page, form, basket, visits, clicks, asked, payments,
                     authorised, told>>
  BY <1>3 DEF PlaceOrder, Step, tab
<1>6. FlowGood(o)'
  <2>1. flow'[o] = "placed" /\ orders'[o] = total
    BY <1>1, <1>5
  <2> QED
    BY <1>1, <1>3, <1>4, <1>5, <2>1 DEF FlowGood, Placed
<1>7. orders' \in [Order -> Total]
  BY <1>1, <1>4, <1>5
<1> QED
  BY <1>1, <1>5, <1>6, <1>7, CallStep

(* What is paid is the order's total.                                      *)
LEMMA PayingKeeps ==
  ASSUME CheckoutIInv, NEW o \in Order, PayCash(o) \/ SavePayment(o)
  PROVE  CheckoutIInv'
<1>1. /\ form \in Form /\ FormGood(form, cart) /\ (page # "checkout" => form = Blank)
      /\ flow \in [Order -> {"new", "placing", "placed", "intent", "charging",
                             "closing", "done", "failed"}]
      /\ orders \in [Order -> Total] /\ payments \in [Order -> Total]
      /\ authorised \in SUBSET Order
      /\ FlowGood(o)
  BY PressKnown
<1>2. PICK to \in {"closing", "charging"} :
        /\ flow' = [flow EXCEPT ![o] = to] /\ flow[o] \in {"placed", "intent"}
        /\ to = "closing" => asked[o].form.method = "CASH"
  BY DEF PayCash, SavePayment, Step
<1>3. UNCHANGED <<cart, page, form, basket, visits, clicks, asked, orders, authorised, told>>
  BY DEF PayCash, SavePayment, tab
<1>4. payments' \in {payments, [payments EXCEPT ![o] = orders[o]]}
  BY DEF PayCash, SavePayment
<1>5. payments' \in [Order -> Total] /\ \A p \in Order \ {o} : payments'[p] = payments[p]
  BY <1>1, <1>4
<1>6. FlowGood(o)'
  <2>1. flow'[o] = to /\ payments'[o] \in {payments[o], orders[o]}
    BY <1>1, <1>2, <1>4
  <2>2. Placed(o) /\ orders[o] = asked[o].shown
    BY <1>1, <1>2 DEF FlowGood
  <2> QED
    BY <1>1, <1>2, <1>3, <2>1, <2>2 DEF FlowGood, Placed
<1> QED
  BY <1>1, <1>2, <1>3, <1>5, <1>6, CallStep

(* The card: an intent takes the field of the page, and Stripe holds what  *)
(* the field says.                                                         *)
LEMMA ChargingKeeps ==
  ASSUME CheckoutIInv, NEW o \in Order, CreateIntent(o) \/ ConfirmCard(o)
  PROVE  CheckoutIInv'
<1>1. /\ form \in Form /\ FormGood(form, cart) /\ (page # "checkout" => form = Blank)
      /\ flow \in [Order -> {"new", "placing", "placed", "intent", "charging",
                             "closing", "done", "failed"}]
      /\ orders \in [Order -> Total] /\ payments \in [Order -> Total]
      /\ authorised \in SUBSET Order
      /\ FlowGood(o)
  BY PressKnown
<1>2. CASE CreateIntent(o)
  <2>1. /\ flow' = [flow EXCEPT ![o] = "intent"] /\ flow[o] = "placed"
        /\ page = "checkout" /\ form' = [form EXCEPT !.gone = FALSE]
        /\ UNCHANGED <<cart, page, basket, visits, clicks, asked, orders, payments,
                       authorised, told>>
    BY <1>2 DEF CreateIntent, Step, OnItsPage, services
  <2>2. PICK f \in Form : f = form /\ FormGood(f, cart)
    BY <1>1
  <2>3. PICK g \in Form : g = [f EXCEPT !.gone = FALSE] /\ FormGood(g, cart)
    <3>1. PICK no \in BOOLEAN : no = FALSE
      OBVIOUS
    <3>2. f.method \in Method /\ f.card \in {"none", "complete", "stale"}
      BY DEF Form
    <3>3. PICK g \in Form :
            g = [f EXCEPT !.method = f.method, !.card = f.card, !.gone = no]
              /\ FormGood(g, cart)
      BY <2>2, <3>2, CardGood
    <3>4. g = [f EXCEPT !.gone = no]
      BY <3>3 DEF Form
    <3> QED
      BY <3>1, <3>3, <3>4
  <2>4. FlowGood(o)'
    <3>1. flow'[o] = "intent"
      BY <1>1, <2>1
    <3> QED
      BY <1>1, <2>1, <3>1 DEF FlowGood, Placed
  <2>5. form' = g
    BY <2>1, <2>2, <2>3
  <2> QED
    BY <1>1, <2>1, <2>3, <2>4, <2>5, CallStep
<1>3. CASE ConfirmCard(o)
  <2>1. /\ flow' = [flow EXCEPT ![o] = "closing"] /\ flow[o] = "charging"
        /\ authorised' = authorised \cup {o}
        /\ UNCHANGED <<cart, page, form, basket, visits, clicks, asked, orders, payments,
                       told>>
    BY <1>3 DEF ConfirmCard, Step, tab
  <2>2. FlowGood(o)'
    <3>1. flow'[o] = "closing"
      BY <1>1, <2>1
    <3> QED
      BY <1>1, <2>1, <3>1 DEF FlowGood, Placed
  <2>3. authorised' \in SUBSET Order
    BY <1>1, <2>1
  <2> QED
    BY <1>1, <2>1, <2>2, <2>3, CallStep
<1> QED
  BY <1>2, <1>3

(* A call fails or its answer is lost.                                     *)
LEMMA CallFailsKeeps ==
  ASSUME CheckoutIInv, NEW o \in Order, CallFails(o)
  PROVE  CheckoutIInv'
<1>1. /\ form \in Form /\ FormGood(form, cart) /\ (page # "checkout" => form = Blank)
      /\ flow \in [Order -> {"new", "placing", "placed", "intent", "charging",
                             "closing", "done", "failed"}]
      /\ orders \in [Order -> Total] /\ payments \in [Order -> Total]
      /\ authorised \in SUBSET Order
      /\ FlowGood(o)
  BY PressKnown
<1>2. /\ flow' = [flow EXCEPT ![o] = "failed"]
      /\ flow[o] \in {"placing", "placed", "intent", "charging", "closing"}
      /\ UNCHANGED <<cart, page, form, basket, visits, clicks, asked, orders, payments,
                     authorised, told>>
  BY DEF CallFails, tab, services
<1>3. FlowGood(o)'
  <2>1. flow'[o] = "failed"
    BY <1>1, <1>2
  <2> QED
    BY <1>1, <1>2, <2>1 DEF FlowGood, Placed
<1> QED
  BY <1>1, <1>2, <1>3, CallStep

(* A press that starts knows the form, and no other of this visit is       *)
(* under way.                                                              *)
LEMMA PressButtonKeeps ==
  ASSUME CheckoutIInv, NEW o \in Order, PressButton(o)
  PROVE  CheckoutIInv'
<1>1. /\ form \in Form /\ FormGood(form, cart)
      /\ flow \in [Order -> {"new", "placing", "placed", "intent", "charging",
                             "closing", "done", "failed"}]
      /\ FlowGood(o)
  BY PressKnown
<1>2. /\ cart \in Cart /\ OneMerchant(cart) /\ asked \in [Order -> Asked]
      /\ basket \in Nat /\ visits \in Nat
  BY DEF CheckoutIInv, CheckoutTypeOK, OneKitchen
<1>3. PICK f \in Form :
        /\ f = Read(form) /\ FormGood(f, cart)
        /\ ShownTotal(cart, f) = ShownTotal(cart, form)
  BY <1>1, <1>2, ReadGood
<1>4. PICK shown \in Nat : shown = ShownTotal(cart, f)
  BY <1>2, SumTyped
<1>5. PICK a \in Asked :
        /\ a = [cart |-> cart, form |-> f, shown |-> shown, basket |-> basket,
                visit |-> visits]
        /\ a.cart = cart /\ a.form = f /\ a.shown = shown /\ a.basket = basket
        /\ a.visit = visits
  <2>1. PICK c \in Cart, n \in Nat, v \in Nat : c = cart /\ n = basket /\ v = visits
    BY <1>2
  <2>2. PICK a \in Asked :
          /\ a = [cart |-> c, form |-> f, shown |-> shown, basket |-> n, visit |-> v]
          /\ a.cart = c /\ a.form = f /\ a.shown = shown /\ a.basket = n /\ a.visit = v
    <3>1. PICK a : a = [cart |-> c, form |-> f, shown |-> shown, basket |-> n, visit |-> v]
      OBVIOUS
    <3>2. a \in Asked
      BY <3>1 DEF Asked
    <3>3. a.cart = c /\ a.form = f /\ a.shown = shown /\ a.basket = n /\ a.visit = v
      BY <3>1
    <3> QED
      BY <3>1, <3>2, <3>3
  <2> QED
    BY <2>1, <2>2
<1>6. /\ flow[o] = "new" /\ ~ButtonBusy(visits) /\ clicks' \in Nat
      /\ flow' = [flow EXCEPT ![o] = "placing"]
      /\ asked' = [asked EXCEPT ![o] = a]
      /\ UNCHANGED <<cart, page, form, basket, visits, orders, payments, authorised, told>>
  BY <1>3, <1>4, <1>5 DEF PressButton, Click, tab, services, CheckoutIInv, CheckoutTypeOK
<1>7. /\ flow' \in [Order -> {"new", "placing", "placed", "intent", "charging",
                              "closing", "done", "failed"}]
      /\ asked' \in [Order -> Asked]
      /\ flow'[o] = "placing" /\ asked'[o] = a
      /\ \A p \in Order \ {o} : flow'[p] = flow[p] /\ asked'[p] = asked[p]
  BY <1>1, <1>2, <1>6
<1>8. CheckoutTypeOK'
  BY <1>6, <1>7 DEF CheckoutIInv, CheckoutTypeOK
<1>9. Mounted'
  BY <1>6 DEF CheckoutIInv, Mounted
<1>10. OneKitchen'
  <2>1. \A p \in Order : OneMerchant(asked'[p].cart)
    BY <1>2, <1>5, <1>7 DEF CheckoutIInv, OneKitchen
  <2> QED
    BY <1>2, <1>6, <2>1 DEF OneKitchen
<1>11. FormsGood'
  <2>1. \A p \in Order : FormGood(asked'[p].form, asked'[p].cart)
    BY <1>3, <1>5, <1>7 DEF CheckoutIInv, FormsGood
  <2> QED
    BY <1>1, <1>6, <2>1 DEF FormsGood
<1>12. (\A p \in Order : FlowGood(p))'
  <2>1. FlowGood(o)'
    BY <1>1, <1>2, <1>4, <1>5, <1>6, <1>7 DEF FlowGood, Placed
  <2>2. ASSUME NEW p \in Order \ {o} PROVE FlowGood(p)'
    <3>1. FlowGood(p)
      BY DEF CheckoutIInv
    <3> QED
      BY <1>6, <1>7, <3>1 DEF FlowGood, Placed
  <2> QED
    BY <2>1, <2>2
<1>13. Once'
  <2>1. ASSUME NEW p \in Order \ {o}, flow[p] # "new", asked[p].visit = visits,
               asked[p].basket = basket
        PROVE  flow[p] = "failed"
    <3>1. flow[p] \in {"done", "failed"}
      BY <1>6, <2>1 DEF ButtonBusy
    <3>2. FlowGood(p) /\ asked[p].basket \in Nat
      BY <1>2 DEF CheckoutIInv, Asked
    <3>3. flow[p] # "done"
      BY <1>2, <2>1, <3>2 DEF FlowGood
    <3> QED
      BY <3>1, <3>3
  <2>2. Once
    BY DEF CheckoutIInv
  <2>3. SUFFICES ASSUME NEW p \in Order, NEW q \in Order, p # q,
                        flow'[p] # "new", flow'[q] # "new",
                        asked'[p].basket = asked'[q].basket,
                        asked'[p].visit = asked'[q].visit
                 PROVE  "failed" \in {flow'[p], flow'[q]}
    BY DEF Once
  <2>4. CASE p = o
    BY <1>5, <1>7, <2>1, <2>3, <2>4
  <2>5. CASE q = o
    BY <1>5, <1>7, <2>1, <2>3, <2>5
  <2>6. CASE p # o /\ q # o
    BY <1>7, <2>2, <2>3, <2>6 DEF Once
  <2> QED
    BY <2>4, <2>5, <2>6
<1> QED
  BY <1>8, <1>9, <1>10, <1>11, <1>12, <1>13 DEF CheckoutIInv

(* The last step empties the cart, so that it is another one from then on. *)
LEMMA FinishOrderKeeps ==
  ASSUME CheckoutIInv, NEW o \in Order, FinishOrder(o)
  PROVE  CheckoutIInv'
<1>1. /\ form \in Form /\ (page # "checkout" => form = Blank)
      /\ flow \in [Order -> {"new", "placing", "placed", "intent", "charging",
                             "closing", "done", "failed"}]
      /\ FlowGood(o)
  BY PressKnown
<1>2. cart' \in Cart /\ OneMerchant(cart') /\ cart' = Empty
  BY CartsGood DEF FinishOrder, Cleared, CheckoutIInv, CheckoutTypeOK, OneKitchen
<1>3. form' = Blank /\ page' \in {"shop", "success"}
  BY <1>1 DEF FinishOrder, CheckoutIInv, CheckoutTypeOK
<1>4. /\ flow[o] = "closing" /\ flow' = [flow EXCEPT ![o] = "done"]
      /\ basket' = basket + 1 /\ basket \in Nat /\ told' \in SUBSET Order
      /\ UNCHANGED <<asked, orders, payments, authorised, visits, clicks>>
  BY DEF FinishOrder, Step, services, CheckoutIInv, CheckoutTypeOK
<1>5. /\ flow' \in [Order -> {"new", "placing", "placed", "intent", "charging",
                              "closing", "done", "failed"}]
      /\ flow'[o] = "done" /\ \A p \in Order \ {o} : flow'[p] = flow[p]
  BY <1>1, <1>4
<1>6. CheckoutTypeOK'
  BY <1>2, <1>3, <1>4, <1>5, BlankTyped DEF CheckoutIInv, CheckoutTypeOK
<1>7. Mounted'
  BY <1>3 DEF Mounted
<1>8. OneKitchen'
  BY <1>2, <1>4 DEF CheckoutIInv, OneKitchen
<1>9. FormsGood'
  <2>1. FormGood(form', cart')
    BY <1>3, BlankGood
  <2>2. \A p \in Order : FormGood(asked[p].form, asked[p].cart)
    BY DEF CheckoutIInv, FormsGood
  <2> QED
    BY <1>4, <2>1, <2>2 DEF FormsGood
<1>10. (\A p \in Order : FlowGood(p))'
  <2> SUFFICES ASSUME NEW p \in Order PROVE FlowGood(p)'
    OBVIOUS
  <2>1. FlowGood(p) /\ asked[p].basket \in Nat
    BY DEF CheckoutIInv, CheckoutTypeOK, Asked
  <2>2. CASE p = o
    BY <1>4, <1>5, <2>1, <2>2 DEF FlowGood, Placed
  <2>3. CASE p # o
    BY <1>4, <1>5, <2>1, <2>3 DEF FlowGood, Placed
  <2> QED
    BY <2>2, <2>3
<1>11. Once'
  <2>1. \A p \in Order : /\ flow'[p] # "new" => flow[p] # "new"
                         /\ flow[p] = "failed" => flow'[p] = "failed"
    BY <1>4, <1>5
  <2> QED
    BY <1>4, <2>1 DEF CheckoutIInv, Once
<1> QED
  BY <1>6, <1>7, <1>8, <1>9, <1>10, <1>11 DEF CheckoutIInv

-----------------------------------------------------------------------------
(* Theorems.                                                               *)

(* Every step keeps the invariant.                                         *)
LEMMA CheckoutStepKeeps == CheckoutIInv /\ [CheckoutNext]_checkoutVars => CheckoutIInv'
<1> SUFFICES ASSUME CheckoutIInv, [CheckoutNext]_checkoutVars PROVE CheckoutIInv'
  OBVIOUS
<1>1. CASE UNCHANGED checkoutVars
  <2>1. PICK f \in Form, c \in Cart :
          /\ f = form /\ c = cart /\ FormGood(f, c) /\ OneMerchant(c)
          /\ page # "checkout" => f = Blank
    BY DEF CheckoutIInv, CheckoutTypeOK, FormsGood, OneKitchen, Mounted
  <2>2. /\ page' \in {"shop", "checkout", "success"} /\ page' = page
        /\ visits' \in Nat /\ clicks' \in Nat
    BY <1>1 DEF CheckoutIInv, CheckoutTypeOK, checkoutVars
  <2>3. cart' = c /\ form' = f /\ UNCHANGED <<flow, asked, services, told, basket>>
    BY <1>1, <2>1 DEF checkoutVars, services
  <2> QED
    BY <2>1, <2>2, <2>3, TabStep
<1>2. CASE \/ \E d \in Dish : AddItem(d) \/ \E n \in 0 .. MaxQuantity : UpdateQuantity(d, n)
           \/ ClearCart
  BY <1>2, CartKeeps
<1>3. CASE OpenCheckout \/ LeaveCheckout
  BY <1>3, PageKeeps
<1>4. CASE \/ \E p \in Place : SelectSuggestion(p) \/ ClickMap(p) \/ Locate(p)
           \/ \E p \in Place \cup {NoPlace} : TypeAddress(p)
           \/ AddressFound
  BY <1>4, AddressKeeps
<1>5. CASE \E q \in Quote, h \in Hour, w \in Sky : FeeArrives(q, h, w)
  BY <1>5, FeeKeeps
<1>6. CASE \/ \E code \in Code : TypeCode(code)
           \/ \E code \in {"PROMO10", "PROMO20"} : QuickCode(code)
           \/ ApplyCode
  BY <1>6, CodeKeeps
<1>7. CASE \/ \E m \in Method : ChooseMethod(m)
           \/ \E card \in {"none", "complete"} : TypeCard(card)
  BY <1>7, CardKeeps
<1>8. CASE \E o \in Order : \/ PressButton(o) \/ PlaceOrder(o) \/ PayCash(o)
                            \/ CreateIntent(o) \/ SavePayment(o) \/ ConfirmCard(o)
                            \/ CallFails(o) \/ FinishOrder(o)
  BY <1>8, PressButtonKeeps, PlaceOrderKeeps, PayingKeeps, ChargingKeeps, CallFailsKeeps,
     FinishOrderKeeps
<1> QED
  BY <1>1, <1>2, <1>3, <1>4, <1>5, <1>6, <1>7, <1>8 DEF CheckoutNext

(* It holds in every reachable state.                                      *)
THEOREM CheckoutInductive == CheckoutSpec => []CheckoutIInv
<1> QED
  BY CheckoutInitGood, CheckoutStepKeeps, PTL DEF CheckoutSpec

(* A cart is of one merchant, the courier's point is the address the       *)
(* consumer read, a discount is the code's, and a cart is ordered twice    *)
(* only after an error.                                                    *)
THEOREM CheckoutInvHolds == CheckoutSpec => []CheckoutInv
<1>1. CheckoutIInv => CheckoutInv
  <2> SUFFICES ASSUME CheckoutIInv PROVE CheckoutInv
    OBVIOUS
  <2>1. AddressIsThePoint
    BY DEF CheckoutIInv, FormsGood, FormGood, AddressIsThePoint
  <2>2. DiscountEarned
    BY DEF CheckoutIInv, FormsGood, FormGood, DiscountEarned
  <2>3. OrderedTwiceOnlyAfterError
    <3>1. \A o \in Order : Placed(o) => flow[o] # "new"
      BY DEF CheckoutIInv, FlowGood
    <3> QED
      BY <3>1 DEF CheckoutIInv, Once, OrderedTwiceOnlyAfterError
  <2> QED
    BY <2>1, <2>2, <2>3 DEF CheckoutIInv, CheckoutInv
<1> QED
  BY <1>1, CheckoutInductive, PTL

(* The delivery fee of an order is one for its place, in whatever order    *)
(* the answers came, unless it was still on its way.                       *)
THEOREM FeeIsForThePlace == CheckoutSpec => []FeeForThePlace
<1>1. CheckoutIInv => FeeForThePlace
  BY DEF CheckoutIInv, FormsGood, FormGood, FeeForThePlace
<1> QED
  BY <1>1, CheckoutInductive, PTL

(* What order-service and Stripe charge is the total the page showed when  *)
(* the button was pressed.                                                 *)
THEOREM ChargedAsShown == CheckoutSpec => []ShownIsCharged
<1>1. CheckoutIInv => ShownIsCharged
  BY DEF CheckoutIInv, FlowGood, ShownIsCharged
<1> QED
  BY <1>1, CheckoutInductive, PTL

(* The checkout implements the promise of Purchase: who was told of an     *)
(* order has one, its money held or due at the door.                       *)
THEOREM PurchaseImplemented == CheckoutSpec => FollowsPurchase
<1>1. CheckoutInit => P!Init
  BY DEF CheckoutInit, P!Init, InOrders, Secured, Placed
<1>2. CheckoutIInv /\ [CheckoutNext]_checkoutVars => [P!Next]_P!vars
  <2> SUFFICES ASSUME CheckoutIInv, [CheckoutNext]_checkoutVars PROVE [P!Next]_P!vars
    OBVIOUS
  <2>1. ASSUME UNCHANGED <<asked, services, told>> PROVE UNCHANGED P!vars
    <3>1. InOrders' = InOrders
      BY <2>1 DEF InOrders, Placed, services
    <3>2. Secured' = Secured
      BY <2>1, <3>1 DEF Secured, services
    <3> QED
      BY <2>1, <3>1, <3>2 DEF P!vars
  <2>2. CASE ~\E o \in Order : \/ PressButton(o) \/ PlaceOrder(o) \/ PayCash(o)
                               \/ SavePayment(o) \/ ConfirmCard(o) \/ FinishOrder(o)
    <3>1. UNCHANGED <<asked, services, told>>
      BY <2>2 DEF CheckoutNext, checkoutVars, services, AddItem, UpdateQuantity,
         ClearCart, Browse,
         OpenCheckout, LeaveCheckout, TypeAddress, SelectSuggestion, ClickMap, Locate,
         AddressFound, FeeArrives, TypeCode, QuickCode, ApplyCode, ChooseMethod, TypeCard,
         Edit, Becomes, CreateIntent, CallFails
    <3> QED
      BY <2>1, <3>1
  <2>3. ASSUME NEW o \in Order, PressButton(o) PROVE UNCHANGED P!vars
    <3>1. ~Placed(o)
      BY <2>3 DEF PressButton, CheckoutIInv, FlowGood
    <3>2. /\ UNCHANGED <<orders, authorised, told>>
          /\ \A p \in Order \ {o} : asked'[p] = asked[p]
      BY <2>3 DEF PressButton, services, CheckoutIInv, CheckoutTypeOK
    <3>3. InOrders' = InOrders
      BY <3>2 DEF InOrders, Placed
    <3>4. o \notin InOrders /\ InOrders \subseteq Order
      BY <3>1 DEF InOrders
    <3>5. Secured' = Secured
      BY <3>2, <3>3, <3>4 DEF Secured
    <3> QED
      BY <3>2, <3>3, <3>5 DEF P!vars
  <2>4. ASSUME NEW o \in Order, PlaceOrder(o) PROVE P!PlaceOrder(o)
    <3>1. /\ o \notin InOrders
          /\ UNCHANGED <<asked, authorised, told>>
          /\ orders' = [orders EXCEPT ![o] = PlacedTotal(o)]
      BY <2>4 DEF PlaceOrder, Step, CheckoutIInv, FlowGood, InOrders
    <3>2. orders \in [Order -> Total] /\ PlacedTotal(o) # NoTotal
      BY <2>4 DEF CheckoutIInv, CheckoutTypeOK, PlaceOrder, NoTotal
    <3>3. InOrders' = InOrders \cup {o}
      BY <3>1, <3>2 DEF InOrders, Placed
    <3>4. Secured' = Secured \/ Secured' = Secured \cup {o}
      <4>1. CASE asked[o].form.method = "CASH"
        BY <3>1, <3>3, <4>1 DEF Secured
      <4>2. CASE asked[o].form.method # "CASH"
        BY <3>1, <3>3, <4>2 DEF Secured
      <4> QED
        BY <4>1, <4>2
    <3> QED
      BY <3>1, <3>3, <3>4 DEF P!PlaceOrder
  <2>5. ASSUME NEW o \in Order, PayCash(o) \/ SavePayment(o) PROVE UNCHANGED P!vars
    <3>1. UNCHANGED <<asked, orders, authorised, told>>
      BY <2>5 DEF PayCash, SavePayment
    <3>2. InOrders' = InOrders
      BY <3>1 DEF InOrders, Placed
    <3>3. Secured' = Secured
      BY <3>1, <3>2 DEF Secured
    <3> QED
      BY <3>1, <3>2, <3>3 DEF P!vars
  <2>6. ASSUME NEW o \in Order, ConfirmCard(o) PROVE P!Secure(o)
    <3>1. /\ UNCHANGED <<asked, orders, told>> /\ authorised' = authorised \cup {o}
          /\ Placed(o)
      BY <2>6 DEF ConfirmCard, Step, CheckoutIInv, FlowGood
    <3>2. InOrders' = InOrders
      BY <3>1 DEF InOrders, Placed
    <3>3. Secured' = Secured \cup {o}
      BY <3>1, <3>2 DEF Secured
    <3> QED
      BY <3>1, <3>2, <3>3 DEF P!Secure, InOrders
  <2>7. ASSUME NEW o \in Order, FinishOrder(o)
        PROVE  P!Confirm(o) \/ UNCHANGED P!vars
    <3>1. /\ UNCHANGED <<asked, orders, authorised>> /\ told' \in {told, told \cup {o}}
          /\ Placed(o) /\ (asked[o].form.method = "CASH" \/ o \in authorised)
      BY <2>7 DEF FinishOrder, Step, services, CheckoutIInv, FlowGood
    <3>2. InOrders' = InOrders
      BY <3>1 DEF InOrders, Placed
    <3>3. Secured' = Secured /\ o \in Secured
      BY <3>1, <3>2 DEF Secured, InOrders
    <3> QED
      BY <3>1, <3>2, <3>3 DEF P!Confirm, P!vars
  <2> QED
    BY <2>2, <2>3, <2>4, <2>5, <2>6, <2>7 DEF P!Next
<1> QED
  BY <1>1, <1>2, CheckoutInductive, PTL DEF CheckoutSpec, P!Spec, FollowsPurchase
=============================================================================
