------------------------------ MODULE MCPeople ------------------------------
(***************************************************************************)
(* For TLC: the two services that know a courier, driver-service with the  *)
(* profile and identity-service with the account, and the browser that     *)
(* keeps a login.  They share no state, so a behaviour is one of them.     *)
(* Ids, slots and tabs are interchangeable.                                *)
(***************************************************************************)
EXTENDS DriverStore, TLC

CONSTANTS Person, Nobody, Phone, NoPhone, Password, NoPassword, Page, Client, MaxCalls,
          Tab, MaxLogins, MaxLoads

ASSUME NobodyAssumption ==
  Nobody \notin Person /\ NoPhone \notin Phone /\ NoPassword \notin Password
ASSUME SlotAssumption == Page \cap Client = {}
ASSUME PeopleBoundsAssumption == {MaxCalls, MaxLogins, MaxLoads} \subseteq Nat

VARIABLES
  service,  \* driver, identity or browser
  account, token, couriers, restaurants, form, handler, user, op, loaded, selected,
  calls, password, crossed, lost,
  stored, session, getter, page, pending, request, data, expired, logins, loads,
  ended, kept, foreign

Identity == INSTANCE IdentityStore WITH
  User <- Person, NoUser <- Nobody, Request <- Client,
  MaxRequests <- MaxCalls, pc <- handler, target <- user,
  ent <- loaded, base <- selected, started <- calls, agreed <- password,
  overlapped <- crossed

identityVars == <<account, token, couriers, restaurants, form, handler, user, op,
                  loaded, selected, calls, password, crossed, lost>>

Browser == INSTANCE BrowserSession WITH
  User <- Person, NoUser <- Nobody, memory <- session, crossed <- foreign

browserVars == <<stored, session, getter, page, pending, request, data, expired,
                 logins, loads, ended, kept, foreign>>

InitPeople ==
  service \in {"driver", "identity", "browser"} /\ Init /\ Identity!Init /\ Browser!Init

InDriverService ==
  service = "driver" /\ Next /\ UNCHANGED <<service, identityVars, browserVars>>
InIdentityService ==
  service = "identity" /\ Identity!Next /\ UNCHANGED <<service, vars, browserVars>>
InBrowser ==
  service = "browser" /\ Browser!Next /\ UNCHANGED <<service, vars, identityVars>>

SpecPeople ==
  InitPeople /\ [][InDriverService \/ InIdentityService \/ InBrowser]_
                   <<service, vars, identityVars, browserVars>>

Interchangeable ==
  Permutations(Request) \cup Permutations(Driver) \cup Permutations(Person)
    \cup Permutations(Phone) \cup Permutations(Password) \cup Permutations(Client) \cup Permutations(Tab)

-----------------------------------------------------------------------------
(* Properties: those of the three modules, where each is explained.           *)

(* Both services and the browser keep their invariants.                    *)
PeopleInv == Inv /\ Identity!Inv /\ Browser!Inv

(* An undisturbed account follows AccountLife, and tokens are given out     *)
(* for active accounts.                                                    *)
AccountsFollowLife == Identity!UndisturbedFollowsLife /\ Identity!TokensForActive

(* A page beyond its first form works for the account of the number it     *)
(* shows.                                                                  *)
PagesKnowTheirAccount == Identity!PagesKnowTheirAccount
=============================================================================
