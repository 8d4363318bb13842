---------------------------- MODULE IdentityStore ----------------------------
(***************************************************************************)
(* identity-service and the registration pages in front of it.  A handler  *)
(* loads an account, changes it in memory and saves it: TypeORM selects    *)
(* the row again and writes the columns that differ.  A registration page  *)
(* makes its calls one after the other and starts over when one of them    *)
(* fails, or when its answer is lost.                                      *)
(***************************************************************************)
EXTENDS Naturals, FiniteSets

CONSTANTS
  User,            \* ids of accounts
  NoUser,          \* the account of an idle slot
  Phone, NoPhone,
  Password, NoPassword,
  Page,            \* registration pages open in browsers
  Request,         \* slots for the calls of everyone else, none of them a page
  MaxRequests      \* bound on the calls that ever start

VARIABLES
  account,      \* the users table
  token,        \* tokens that have not expired
  couriers,     \* profiles driver-service keeps for each account
  restaurants,  \* profiles merchant-service keeps for each account
  form,         \* what each registration page shows
  pc,           \* the query the handler of each slot issues next
  target,       \* the account each handler works on
  op,           \* what each handler was asked for
  ent,          \* the account it has in memory
  base,         \* the row TypeORM selected before its update
  started,      \* calls started so far
  agreed,       \* history: the password last answered with success
  overlapped,   \* history: accounts two handlers worked on at once
  lost          \* history: pages that lost the answer of a call that worked

vars == <<account, token, couriers, restaurants, form, pc, target, op, ent, base,
          started, agreed, overlapped, lost>>

memory == <<pc, target, op, ent, base>>

Slot == Page \cup Request

UserRole == {"CONSUMER", "DRIVER", "MERCHANT_OWNER", "MERCHANT_STAFF", "ADMIN"}

(* Nobody is banned: ban has no caller.                                    *)
UserStatus == {"ACTIVE", "INACTIVE", "SUSPENDED"}

Account == [phone : Phone \cup {NoPhone}, roles : SUBSET UserRole,
            status : UserStatus \cup {"NONE"}, password : Password \cup {NoPassword}]
Absent == [phone |-> NoPhone, roles |-> {}, status |-> "NONE", password |-> NoPassword]

Token == [user : User, kind : {"access", "refresh"}, roles : SUBSET UserRole]

Form == [step : {"account", "registering", "login", "loggingIn", "profile", "done"},
         kind : {"consumer", "driver", "merchant"},
         phone : Phone \cup {NoPhone}, password : Password \cup {NoPassword},
         user : User \cup {NoUser}]
Empty == [step |-> "account", kind |-> "consumer", phone |-> NoPhone,
          password |-> NoPassword, user |-> NoUser]

(* The steps that need an account.                                         *)
Beyond == {"login", "loggingIn", "profile", "done"}

TypeOK ==
  /\ account \in [User -> Account]
  /\ token \subseteq Token
  /\ couriers \in [User -> Nat]
  /\ restaurants \in [User -> Nat]
  /\ form \in [Page -> Form]
  /\ pc \in [Slot -> {"idle", "select", "update"}]
  /\ target \in [Slot -> User \cup {NoUser}]
  /\ \A s \in Slot : pc[s] # "idle" => target[s] \in User
  /\ op \in [Slot -> {"none", "register", "login", "password", "status"}]
  /\ ent \in [Slot -> Account]
  /\ base \in [Slot -> Account]
  /\ started \in Nat
  /\ agreed \in [User -> Password \cup {NoPassword}]
  /\ overlapped \in SUBSET User
  /\ lost \in SUBSET Page

Init ==
  /\ account = [u \in User |-> Absent]
  /\ token = {}
  /\ couriers = [u \in User |-> 0]
  /\ restaurants = [u \in User |-> 0]
  /\ form = [p \in Page |-> Empty]
  /\ pc = [s \in Slot |-> "idle"]
  /\ target = [s \in Slot |-> NoUser]
  /\ op = [s \in Slot |-> "none"]
  /\ ent = [s \in Slot |-> Absent]
  /\ base = [s \in Slot |-> Absent]
  /\ started = 0
  /\ agreed = [u \in User |-> NoPassword]
  /\ overlapped = {}
  /\ lost = {}

-----------------------------------------------------------------------------
(* Roles and statuses.                                                     *)

AllowedSelfRegisterRoles == {"CONSUMER", "DRIVER"}

(* Mutant: the roles of the request are taken as they are.                 *)
Believed(requested) == IF requested = {} THEN {"CONSUMER"} ELSE requested

(* register keeps the roles anyone may have, and CONSUMER if none is left. *)
Sanitized(requested) ==
  LET kept == requested \cap AllowedSelfRegisterRoles IN
  IF kept = {} THEN {"CONSUMER"} ELSE kept

(* ROLE_HIERARCHY.                                                         *)
Inherited(role) ==
  CASE role = "ADMIN" -> UserRole
    [] role = "MERCHANT_OWNER" -> {"MERCHANT_OWNER", "MERCHANT_STAFF"}
    [] OTHER -> {role}

(* RolesGuard.canActivate.                                                 *)
Allowed(required, roles) ==
  required = {} \/ \E role \in roles : Inherited(role) \cap required # {}

(* Mutant: any status may be set.                                          *)
AnyTransition(from, to) == from # to /\ to \in UserStatus

(* validTransitions of updateUserStatus.                                   *)
ValidTransition(from, to) ==
  \/ from = "ACTIVE" /\ to \in {"INACTIVE", "SUSPENDED"}
  \/ from \in {"INACTIVE", "SUSPENDED"} /\ to = "ACTIVE"

-----------------------------------------------------------------------------
(* Calls and their answers.                                                *)

Busy(u) == \E s \in Slot : target[s] = u

Disturb(u) == IF Busy(u) THEN overlapped \cup {u} ELSE overlapped

Call(s, u, what, e) ==
  /\ pc[s] = "idle"
  /\ started < MaxRequests
  /\ started' = started + 1
  /\ pc' = [pc EXCEPT ![s] = "select"]
  /\ target' = [target EXCEPT ![s] = u]
  /\ op' = [op EXCEPT ![s] = what]
  /\ ent' = [ent EXCEPT ![s] = e]
  /\ overlapped' = Disturb(u)
  /\ UNCHANGED <<account, token, couriers, restaurants, base, agreed, lost>>

Finish(s) ==
  /\ pc' = [pc EXCEPT ![s] = "idle"]
  /\ target' = [target EXCEPT ![s] = NoUser]
  /\ op' = [op EXCEPT ![s] = "none"]
  /\ ent' = [ent EXCEPT ![s] = Absent]
  /\ base' = [base EXCEPT ![s] = Absent]

(* Mutant: a page that finds its number taken goes on to the login.        *)
PatientFailed(f) ==
  IF f.step \in {"registering", "loggingIn"}
  THEN [f EXCEPT !.step = IF f.step = "registering" THEN "login" ELSE "account"] ELSE f

(* A page shows the error and the step it is at, from the beginning.       *)
Failed(f) == IF f.step = "profile" THEN f ELSE [f EXCEPT !.step = "account"]

(* Mutant: the page does not leave its second form.                        *)
StaysAtProfile(f, u) ==
  CASE f.step = "registering" ->
         [f EXCEPT !.user = u, !.step = IF f.kind = "consumer" THEN "done" ELSE "login"]
    [] f.step = "loggingIn" -> [f EXCEPT !.step = "profile"]
    [] OTHER -> f

(* What a page does with a good answer.                                    *)
Succeeded(f, u) ==
  CASE f.step = "registering" ->
         [f EXCEPT !.user = u, !.step = IF f.kind = "consumer" THEN "done" ELSE "login"]
    [] f.step = "loggingIn" -> [f EXCEPT !.step = "profile"]
    [] f.step = "profile" -> [f EXCEPT !.step = "done"]
    [] OTHER -> f

(* A page gets its answer, or loses it; nobody else is modelled further.   *)
Answered(s, u, ok) ==
  IF s \notin Page THEN UNCHANGED <<form, lost>>
  ELSE \/ ok /\ form' = [form EXCEPT ![s] = Succeeded(@, u)] /\ UNCHANGED lost
       \/ /\ form' = [form EXCEPT ![s] = Failed(@)]
          /\ lost' = IF ok THEN lost \cup {s} ELSE lost

-----------------------------------------------------------------------------
(* identity-service.                                                       *)

Fresh(u) == account[u] = Absent /\ ~Busy(u)

(* POST /auth/register looks for nobody; the unique index does.            *)
Register(s, u, phone, requested, password) ==
  /\ Fresh(u)
  /\ Call(s, u, "register",
          [phone |-> phone, roles |-> Sanitized(requested), status |-> "ACTIVE",
           password |-> password])

(* Mutant: anyone may log in.                                              *)
KnowsPassword(e, password) == e # Absent /\ e.password = password

MayLogin(e, password) ==
  e # Absent /\ e.status = "ACTIVE" /\ e.password = password

(* POST /auth/login notes the time and saves the account.                  *)
Login(s, u, phone, password) ==
  /\ account[u].phone = phone /\ MayLogin(account[u], password)
  /\ Call(s, u, "login", account[u])

(* POST /auth/change-password asks for an access token and the password,   *)
(* not for an active account.                                              *)
ChangePassword(s, u, current, new) ==
  /\ \E t \in token : t.user = u /\ t.kind = "access"
  /\ account[u].password = current
  /\ Call(s, u, "password", [account[u] EXCEPT !.password = new])
  /\ UNCHANGED form

(* PATCH /auth/users/:id/status by an admin.                               *)
UpdateUserStatus(s, u, status) ==
  /\ ValidTransition(account[u].status, status)
  /\ Call(s, u, "status", [account[u] EXCEPT !.status = status])
  /\ UNCHANGED form

NewTokens(u, e) ==
  {[user |-> u, kind |-> "access", roles |-> e.roles],
   [user |-> u, kind |-> "refresh", roles |-> {}]}

(* Mutant: a refresh does not look at the account.                         *)
RefreshAnyone(e) == e # Absent

MayRefresh(e) == e # Absent /\ e.status = "ACTIVE"

(* POST /auth/refresh reads the account and changes nothing.               *)
Refresh(u) ==
  /\ \E t \in token : t.user = u /\ t.kind = "refresh"
  /\ MayRefresh(account[u])
  /\ token' = token \cup NewTokens(u, account[u])
  /\ UNCHANGED <<account, couriers, restaurants, form, memory, started, agreed,
                 overlapped, lost>>

SaveSelect(s) ==
  /\ pc[s] = "select"
  /\ pc' = [pc EXCEPT ![s] = "update"]
  /\ base' = [base EXCEPT ![s] = account[target[s]]]
  /\ UNCHANGED <<account, token, couriers, restaurants, form, target, op, ent,
                 started, agreed, overlapped, lost>>

(* Mutant: the index is not unique.                                        *)
AnyPhone(u, phone) == TRUE
PhoneFree(u, phone) == \A v \in User \ {u} : account[v].phone # phone

(* Mutant: a save never writes the password.                               *)
PasswordForgotten(e, b, current) ==
  [current EXCEPT !.status = IF e.status # b.status THEN e.status ELSE @]

(* The columns that differ from the selected row are written.              *)
Merged(e, b, current) ==
  LET Column(mine, read, theirs) == IF mine # read THEN mine ELSE theirs IN
  [phone |-> Column(e.phone, b.phone, current.phone),
   roles |-> Column(e.roles, b.roles, current.roles),
   status |-> Column(e.status, b.status, current.status),
   password |-> Column(e.password, b.password, current.password)]

(* A new account is inserted unless its number is taken; a login is        *)
(* answered with tokens for the account in memory.                         *)
SaveUpdate(s) ==
  LET u == target[s]
      new == base[s] = Absent
      ok == ~new \/ PhoneFree(u, ent[s].phone) IN
  /\ pc[s] = "update"
  /\ account' = IF ~ok THEN account
                ELSE [account EXCEPT ![u] = IF new THEN ent[s] ELSE Merged(ent[s], base[s], @)]
  /\ token' = IF op[s] = "login" THEN token \cup NewTokens(u, ent[s]) ELSE token
  /\ agreed' = IF ok /\ op[s] \in {"register", "password"}
               THEN [agreed EXCEPT ![u] = ent[s].password] ELSE agreed
  /\ Answered(s, u, ok)
  /\ Finish(s)
  /\ UNCHANGED <<couriers, restaurants, started, overlapped>>

(* The process dies, or the database fails, before the next query.         *)
Abort(s) ==
  /\ pc[s] # "idle"
  /\ Answered(s, target[s], FALSE)
  /\ Finish(s)
  /\ UNCHANGED <<account, token, couriers, restaurants, started, agreed, overlapped>>

Expire(t) ==
  /\ t \in token
  /\ token' = token \ {t}
  /\ UNCHANGED <<account, couriers, restaurants, form, memory, started, agreed,
                 overlapped, lost>>

-----------------------------------------------------------------------------
(* The registration pages of consumer-app, driver-app and merchant-app.    *)

RolesOf(kind) ==
  CASE kind = "consumer" -> {"CONSUMER"}
    [] kind = "driver" -> {"DRIVER"}
    [] kind = "merchant" -> {"MERCHANT_OWNER"}

(* The first form is sent, with another number and password than before if *)
(* the user edited them; the user of an earlier attempt is kept.           *)
SubmitAccount(p, u, kind, phone, password) ==
  /\ form[p].step = "account"
  /\ form[p].phone # NoPhone => form[p].kind = kind
  /\ form' = [form EXCEPT ![p] = [step |-> "registering", kind |-> kind, phone |-> phone,
                                  password |-> password, user |-> @.user]]
  /\ Register(p, u, phone, RolesOf(kind), password)

(* The pages of couriers and restaurants log in at once.                   *)
PageLogin(p, u) ==
  /\ form[p].step = "login"
  /\ form' = [form EXCEPT ![p].step = "loggingIn"]
  /\ Login(p, u, form[p].phone, form[p].password)

(* The number or the password is refused, or the account is not active.    *)
PageLoginRefused(p) ==
  /\ form[p].step = "login" /\ pc[p] = "idle"
  /\ ~\E u \in User : account[u].phone = form[p].phone /\ MayLogin(account[u], form[p].password)
  /\ form' = [form EXCEPT ![p] = Failed(@)]
  /\ UNCHANGED <<account, token, couriers, restaurants, memory, started, agreed,
                 overlapped, lost>>

(* The second form is sent: driver-service refuses a second profile of an  *)
(* account, merchant-service does not.                                     *)
SubmitProfile(p) ==
  LET u == form[p].user
      ok == form[p].kind = "merchant" \/ couriers[u] = 0 IN
  /\ form[p].step = "profile"
  /\ started < MaxRequests
  /\ started' = started + 1
  /\ couriers' = IF form[p].kind = "driver" THEN [couriers EXCEPT ![u] = 1] ELSE couriers
  /\ restaurants' = IF form[p].kind = "merchant"
                    THEN [restaurants EXCEPT ![u] = @ + 1] ELSE restaurants
  /\ Answered(p, u, ok)
  /\ UNCHANGED <<account, token, memory, agreed, overlapped>>

(* Roles a request may ask for.                                            *)
Requested == {roles \in SUBSET UserRole : Cardinality(roles) <= 2}

Next ==
  \/ \E u \in User : Refresh(u)
  \/ \E t \in token : Expire(t)
  \/ \E s \in Slot : SaveSelect(s) \/ SaveUpdate(s) \/ Abort(s)
  \/ \E p \in Page :
       \/ PageLoginRefused(p) \/ SubmitProfile(p)
       \/ \E u \in User : PageLogin(p, u)
       \/ \E u \in User, k \in {"consumer", "driver", "merchant"}, n \in Phone,
             w \in Password : SubmitAccount(p, u, k, n, w)
  \/ \E r \in Request, u \in User :
       \/ \E n \in Phone, q \in Requested, w \in Password :
            Register(r, u, n, q, w) /\ UNCHANGED form
       \/ \E n \in Phone, w \in Password : Login(r, u, n, w) /\ UNCHANGED form
       \/ \E w, x \in Password : ChangePassword(r, u, w, x)
       \/ \E status \in UserStatus : UpdateUserStatus(r, u, status)

Spec == Init /\ [][Next]_vars

-----------------------------------------------------------------------------
(* Properties.                                                             *)

Life == INSTANCE AccountLife WITH
  status <- [u \in User |-> account[u].status],
  phone <- [u \in User |-> account[u].phone],
  roles <- [u \in User |-> account[u].roles],
  password <- [u \in User |-> account[u].password]

(* An account no two handlers worked on at once keeps the promise of       *)
(* AccountLife at every step of its row, crashes included.                 *)
UndisturbedFollowsLife ==
  [][\A u \in User : u \in overlapped' \/ Life!Same(u) \/ Life!Step(u)]_vars

(* Whatever roles were asked for, nobody who registered passes the guard   *)
(* of the admin routes or acts for a restaurant, with any token either.    *)
NobodyRises ==
  LET Low(roles) == ~Allowed({"ADMIN", "MERCHANT_OWNER", "MERCHANT_STAFF"}, roles) IN
  /\ \A u \in User : Low(account[u].roles)
  /\ \A t \in token : Low(t.roles)

(* A phone number has one account, however registrations race.             *)
OnePhone ==
  \A u, v \in User :
    account[u] # Absent /\ account[u].phone = account[v].phone => u = v

(* Unless handlers overlapped on the account, its password is the last one *)
(* its owner was told of.                                                  *)
PasswordAsAgreed ==
  \A u \in User : u \in overlapped \/ account[u].password = agreed[u]

(* No token is given out for an account that is not active, unless         *)
(* handlers overlapped on it.                                              *)
TokensForActive ==
  [][\A t \in token' \ token :
       t.user \in overlapped' \/ account[t.user].status = "ACTIVE"]_vars

(* Whatever answers it lost and whatever was edited in between, a page     *)
(* beyond its first form works for the account of the number it shows, so  *)
(* that is who gets the courier's or the restaurant's profile.             *)
PagesKnowTheirAccount ==
  \A p \in Page :
    form[p].step \in Beyond =>
      form[p].user \in User /\ account[form[p].user].phone = form[p].phone

(* A restaurant is registered twice only by a page that lost an answer.    *)
OneRestaurant ==
  \A u \in User :
    restaurants[u] <= 1 \/ \E p \in lost : form[p].user = u

(* The inductive invariant: of an undisturbed account, a handler's memory  *)
(* is the row with its own command applied.                                *)
HandlerCoherent(s) ==
  LET u == target[s]  e == ent[s] IN
  /\ \A x \in Slot \ {s} : target[x] # u
  /\ pc[s] = "update" => base[s] = account[u]
  /\ \/ op[s] = "register" /\ account[u] = Absent /\ e.status = "ACTIVE"
     \/ op[s] = "login" /\ account[u] # Absent /\ e = account[u] /\ e.status = "ACTIVE"
     \/ op[s] = "password" /\ account[u] # Absent
          /\ e = [account[u] EXCEPT !.password = e.password]
     \/ op[s] = "status" /\ e = [account[u] EXCEPT !.status = e.status]
          /\ ValidTransition(account[u].status, e.status)

Coherent ==
  \A s \in Slot :
    IF pc[s] = "idle" THEN target[s] = NoUser
    ELSE target[s] \in overlapped \/ HandlerCoherent(s)

(* A handler alone on an account knows its row, a number has one account   *)
(* with the password last agreed, nobody rises, and a second restaurant    *)
(* needs a lost answer.                                                    *)
Inv == /\ TypeOK /\ Coherent
       /\ OnePhone /\ PasswordAsAgreed /\ NobodyRises /\ OneRestaurant
=============================================================================
