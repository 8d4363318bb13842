---------------------------- MODULE ConsumerStore ----------------------------
(***************************************************************************)
(* consumer-service: the profile of a consumer with a list of addresses    *)
(* and a list of payment methods, each a column of its own.  A handler     *)
(* loads the row, changes it in memory and saves it: TypeORM selects the   *)
(* row again and writes the columns that differ.  Each query is an action, *)
(* and nothing serialises two handlers.                                    *)
(***************************************************************************)
EXTENDS Naturals, Sequences, FiniteSets

CONSTANTS
  Consumer,        \* ids of profiles
  NoConsumer,      \* an idle slot works on no profile
  Entry,           \* ids of addresses and payment methods
  NoEntry,         \* no entry
  Text,            \* contents of an entry
  Request,         \* slots for handlers running at the same time
  MaxEntries,      \* 10 in the code
  MaxRequests      \* bound on the handlers that ever start

ASSUME NullAssumption == NoConsumer \notin Consumer /\ NoEntry \notin Entry
ASSUME BoundsAssumption == MaxEntries \in Nat \ {0} /\ MaxRequests \in Nat

VARIABLES
  row,        \* the consumers table
  pc,         \* the query each handler issues next
  target,     \* the profile each handler works on
  ent,        \* the profile it has in memory
  base,       \* the row TypeORM selected before its update
  started,    \* handlers started so far
  agreed,     \* history: the lists last answered with success, each by the
              \* handlers that changed it
  overlapped  \* history: profiles two handlers worked on at once

vars == <<row, pc, target, ent, base, started, agreed, overlapped>>

memory == <<pc, target, ent, base>>

Item == [id : Entry, text : Text, isDefault : BOOLEAN]
Book == Seq(Item)

Row == [exists : BOOLEAN, addresses : Book, methods : Book]
Absent == [exists |-> FALSE, addresses |-> <<>>, methods |-> <<>>]

(* Consumer.create.                                                        *)
NewConsumer == [Absent EXCEPT !.exists = TRUE]

(* The routes to an existing profile; an entry that is added or put in     *)
(* place of another comes with a new id.                                   *)
Command ==
  [op : {"profile"}, book : {"addresses"}, entry : {NoEntry}, new : {NoEntry}, text : Text]
    \cup [op : {"add"}, book : {"addresses", "methods"}, entry : {NoEntry}, new : Entry,
          text : Text]
    \cup [op : {"remove", "setDefault"}, book : {"addresses", "methods"}, entry : Entry,
          new : {NoEntry}, text : Text]
    \cup [op : {"update"}, book : {"addresses"}, entry : Entry, new : {NoEntry}, text : Text]
    \cup [op : {"replace"}, book : {"methods"}, entry : Entry, new : Entry, text : Text]

TypeOK ==
  /\ row \in [Consumer -> Row]
  /\ pc \in [Request -> {"idle", "select", "update"}]
  /\ target \in [Request -> Consumer \cup {NoConsumer}]
  /\ \A r \in Request : pc[r] # "idle" => target[r] \in Consumer
  /\ ent \in [Request -> Row]
  /\ base \in [Request -> Row]
  /\ started \in Nat
  /\ agreed \in [Consumer -> Row]
  /\ overlapped \in SUBSET Consumer

Init ==
  /\ row = [c \in Consumer |-> Absent]
  /\ pc = [r \in Request |-> "idle"]
  /\ target = [r \in Request |-> NoConsumer]
  /\ ent = [r \in Request |-> Absent]
  /\ base = [r \in Request |-> Absent]
  /\ started = 0
  /\ agreed = [c \in Consumer |-> Absent]
  /\ overlapped = {}

-----------------------------------------------------------------------------
(* The aggregate.  Both lists are kept by the same code, written twice.    *)

Has(b, e) == \E i \in DOMAIN b : b[i].id = e

Position(b, e) == CHOOSE i \in DOMAIN b : b[i].id = e

(* Mutants: id and contents are swapped; the first entry is not made the   *)
(* default.                                                                *)
Swapped(b, e, text) == Append(b, [id |-> text, text |-> e, isDefault |-> b = <<>>])

NoFirstDefault(b, e, text) == Append(b, [id |-> e, text |-> text, isDefault |-> FALSE])

(* addAddress, addPaymentMethod: the first entry is the default.           *)
Added(b, e, text) == Append(b, [id |-> e, text |-> text, isDefault |-> b = <<>>])

Without(b, k) == [i \in 1 .. Len(b) - 1 |-> IF i < k THEN b[i] ELSE b[i + 1]]

(* Mutant: the default is not passed on.                                   *)
JustRemoved(b, e) == Without(b, Position(b, e))

(* removeAddress, removePaymentMethod: a default that is taken out is      *)
(* followed by the first entry that is left.                               *)
Removed(b, e) ==
  LET k == Position(b, e)
      rest == Without(b, k) IN
  IF b[k].isDefault /\ rest # <<>>
  THEN [i \in DOMAIN rest |-> IF i = 1 THEN [rest[i] EXCEPT !.isDefault = TRUE] ELSE rest[i]]
  ELSE rest

(* setDefaultAddress, setDefaultPaymentMethod.                             *)
Defaulted(b, e) == [i \in DOMAIN b |-> [b[i] EXCEPT !.isDefault = b[i].id = e]]

(* updateAddress: in place, id and default stay.                           *)
Updated(b, e, text) ==
  LET k == Position(b, e) IN
  [i \in DOMAIN b |-> IF i = k THEN [b[i] EXCEPT !.text = text] ELSE b[i]]

(* Mutant: the limit is looked at when it is passed.                       *)
OneTooMany(c, b) ==
  \/ c.op = "add" /\ Len(b) > MaxEntries
  \/ c.op \in {"remove", "setDefault", "update", "replace"} /\ ~Has(b, c.entry)

(* The commands that fail.                                                 *)
Refused(c, b) ==
  \/ c.op = "add" /\ Len(b) >= MaxEntries
  \/ c.op \in {"remove", "setDefault", "update", "replace"} /\ ~Has(b, c.entry)

(* The list a command is about, after the domain method; updatePayment-    *)
(* Method removes the old entry and adds the new one.                      *)
Changed(c, b) ==
  CASE c.op = "profile" -> b
    [] c.op = "add" -> Added(b, c.new, c.text)
    [] c.op = "remove" -> Removed(b, c.entry)
    [] c.op = "setDefault" -> Defaulted(b, c.entry)
    [] c.op = "update" -> Updated(b, c.entry, c.text)
    [] c.op = "replace" -> Added(Removed(b, c.entry), c.new, c.text)

BookOf(c, e) == IF c.book = "addresses" THEN e.addresses ELSE e.methods

AfterCommand(c, e) ==
  IF c.book = "addresses" THEN [e EXCEPT !.addresses = Changed(c, e.addresses)]
  ELSE [e EXCEPT !.methods = Changed(c, e.methods)]

-----------------------------------------------------------------------------
(* Handlers.                                                               *)

Finish(r) ==
  /\ pc' = [pc EXCEPT ![r] = "idle"]
  /\ target' = [target EXCEPT ![r] = NoConsumer]
  /\ ent' = [ent EXCEPT ![r] = Absent]
  /\ base' = [base EXCEPT ![r] = Absent]

Busy(c) == \E r \in Request : target[r] = c

Disturb(c) == IF Busy(c) THEN overlapped \cup {c} ELSE overlapped

Start(r, c, e) ==
  /\ pc[r] = "idle"
  /\ started < MaxRequests
  /\ started' = started + 1
  /\ pc' = [pc EXCEPT ![r] = "select"]
  /\ target' = [target EXCEPT ![r] = c]
  /\ ent' = [ent EXCEPT ![r] = e]
  /\ overlapped' = Disturb(c)
  /\ UNCHANGED <<row, base, agreed>>

(* POST /consumers, with a new id and no look at the user's other profiles.*)
CreateConsumer(r, c) ==
  /\ row[c] = Absent /\ ~Busy(c) /\ c \notin overlapped
  /\ Start(r, c, NewConsumer)

(* A new uuid, in no list and in nobody's memory.                          *)
Unused(e) ==
  LET Free(x) == ~Has(x.addresses, e) /\ ~Has(x.methods, e) IN
  /\ \A c \in Consumer : Free(row[c])
  /\ \A r \in Request : Free(ent[r]) /\ Free(base[r])

(* findById and the domain method.                                         *)
FindConsumer(r, c, command) ==
  /\ row[c].exists
  /\ ~Refused(command, BookOf(command, row[c]))
  /\ command.new # NoEntry => Unused(command.new)
  /\ Start(r, c, AfterCommand(command, row[c]))

SaveSelect(r) ==
  /\ pc[r] = "select"
  /\ pc' = [pc EXCEPT ![r] = "update"]
  /\ base' = [base EXCEPT ![r] = row[target[r]]]
  /\ UNCHANGED <<row, target, ent, started, agreed, overlapped>>

(* Mutants: a save adds to the lists that are there; the methods are not   *)
(* written.                                                                *)
SavedAgain(e, b, current) ==
  [current EXCEPT !.addresses = current.addresses \o e.addresses]

AddressesOnly(e, b, current) ==
  [current EXCEPT !.addresses = IF e.addresses # b.addresses THEN e.addresses ELSE @]

(* The columns that differ from the selected row are written, a list as a  *)
(* whole.                                                                  *)
Merged(e, b, current) ==
  LET Column(mine, read, theirs) == IF mine # read THEN mine ELSE theirs IN
  [exists |-> current.exists,
   addresses |-> Column(e.addresses, b.addresses, current.addresses),
   methods |-> Column(e.methods, b.methods, current.methods)]

SaveUpdate(r) ==
  LET c == target[r] IN
  /\ pc[r] = "update"
  /\ row' = [row EXCEPT ![c] = IF base[r].exists THEN Merged(ent[r], base[r], @) ELSE ent[r]]
  /\ agreed' = [agreed EXCEPT ![c] = ent[r]]
  /\ Finish(r)
  /\ UNCHANGED <<started, overlapped>>

(* The process dies, or the database fails, before the next query.         *)
Abort(r) ==
  /\ pc[r] # "idle"
  /\ Finish(r)
  /\ UNCHANGED <<row, started, agreed, overlapped>>

Next ==
  \E r \in Request :
    \/ \E c \in Consumer :
         CreateConsumer(r, c) \/ \E command \in Command : FindConsumer(r, c, command)
    \/ SaveSelect(r) \/ SaveUpdate(r) \/ Abort(r)

Spec == Init /\ [][Next]_vars

-----------------------------------------------------------------------------
(* Properties.                                                             *)

Ids(b) == {b[i].id : i \in DOMAIN b}

(* The entry a reader takes for the default.                               *)
Chosen(b) ==
  IF \E i \in DOMAIN b : b[i].isDefault
  THEN b[CHOOSE i \in DOMAIN b :
           b[i].isDefault /\ \A j \in DOMAIN b : b[j].isDefault => i <= j].id
  ELSE NoEntry

AddressesOf(c) == INSTANCE AddressBook WITH
  entries <- Ids(row[c].addresses), chosen <- Chosen(row[c].addresses)
MethodsOf(c) == INSTANCE AddressBook WITH
  entries <- Ids(row[c].methods), chosen <- Chosen(row[c].methods)

(* Both lists of a profile no two handlers worked on at once keep the      *)
(* promise of AddressBook at every step of the row, crashes included.      *)
UndisturbedFollowsBook ==
  [][\A c \in Consumer :
       \/ c \in overlapped'
       \/ /\ AddressesOf(c)!Same \/ AddressesOf(c)!Step
          /\ MethodsOf(c)!Same \/ MethodsOf(c)!Step]_vars

(* Exactly one entry of a list is its default, if it has any.              *)
OneDefaultIn(b) ==
  /\ b # <<>> => \E i \in DOMAIN b : b[i].isDefault
  /\ \A i, j \in DOMAIN b : b[i].isDefault /\ b[j].isDefault => i = j

(* No id is twice in a list.                                               *)
DistinctIn(b) == \A i, j \in DOMAIN b : b[i].id = b[j].id => i = j

(* However handlers interleave and whatever saves overwrite, both lists of *)
(* every profile have one default.                                         *)
OneDefault ==
  \A c \in Consumer : OneDefaultIn(row[c].addresses) /\ OneDefaultIn(row[c].methods)

(* However handlers interleave, no list outgrows its limit.                *)
WithinLimit ==
  \A c \in Consumer : Len(row[c].addresses) <= MaxEntries /\ Len(row[c].methods) <= MaxEntries

(* However handlers interleave, no list holds an entry twice.              *)
NoEntryTwice ==
  \A c \in Consumer : DistinctIn(row[c].addresses) /\ DistinctIn(row[c].methods)

(* Unless handlers overlapped on the profile, its lists are the ones the   *)
(* last answer showed.                                                     *)
BooksAsAgreed == \A c \in Consumer : c \in overlapped \/ row[c] = agreed[c]

(* The inductive invariant: the lists on disk and in memory are in order.  *)
GoodBook(b) == OneDefaultIn(b) /\ DistinctIn(b) /\ Len(b) <= MaxEntries
GoodRow(x) == GoodBook(x.addresses) /\ GoodBook(x.methods)

BooksGood ==
  /\ \A c \in Consumer : GoodRow(row[c])
  /\ \A r \in Request : GoodRow(ent[r])

(* The lists of every profile are in order (OneDefault, WithinLimit and    *)
(* NoEntryTwice), and those of an undisturbed one are the lists shown last. *)
Inv == TypeOK /\ BooksGood /\ OneDefault /\ WithinLimit /\ NoEntryTwice /\ BooksAsAgreed
=============================================================================
