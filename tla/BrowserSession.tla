---------------------------- MODULE BrowserSession ----------------------------
(***************************************************************************)
(* Who a browser is logged in as.  Every tab keeps the session in memory,  *)
(* all tabs of an app keep it together in localStorage, and the token of a *)
(* request comes from one or the other: a tab that was loaded reads        *)
(* localStorage, a tab that logged in or out itself reads its memory.      *)
(***************************************************************************)
EXTENDS Naturals, FiniteSets

CONSTANTS
  Tab,        \* tabs of one app
  User,       \* users who log in
  NoUser,     \* nobody, no answer
  MaxLogins,  \* bound on the logins that succeed
  MaxLoads    \* bound on the pages loaded and visited

VARIABLES
  stored,   \* mythfood-auth in localStorage
  memory,   \* useAuthStore of each tab
  getter,   \* where tokenGetter of each tab finds the token
  page,     \* closed, login (or the landing page), or a page behind them
  pending,  \* the user a login is under way for
  request,  \* the load of the page under way: its token
  data,     \* the user whose token the page's data were read with
  expired,  \* tokens older than their hour
  logins, loads,
  ended,    \* history: sessions somebody logged out of
  kept,     \* history: tabs that had such a session when it ended elsewhere
  crossed   \* history: tabs reading localStorage when another tab changed it

vars == <<stored, memory, getter, page, pending, request, data, expired, logins, loads,
          ended, kept, crossed>>

(* A token is known by its user and the login it came from.                *)
Token == [user : User \cup {NoUser}, login : Nat]
NoToken == [user |-> NoUser, login |-> 0]
NoRequest == [user |-> NoUser, login |-> MaxLogins + 1]

TypeOK ==
  /\ stored \in Token
  /\ memory \in [Tab -> Token]
  /\ getter \in [Tab -> {"nothing", "storage", "memory"}]
  /\ page \in [Tab -> {"closed", "login", "inside"}]
  /\ pending \in [Tab -> User \cup {NoUser}]
  /\ request \in [Tab -> Token]
  /\ data \in [Tab -> User \cup {NoUser}]
  /\ expired \subseteq 1 .. MaxLogins
  /\ logins \in 0 .. MaxLogins /\ loads \in 0 .. MaxLoads
  /\ ended \subseteq 1 .. MaxLogins
  /\ {kept, crossed} \subseteq SUBSET Tab

Init ==
  /\ stored = NoToken
  /\ memory = [t \in Tab |-> NoToken]
  /\ getter = [t \in Tab |-> "nothing"]
  /\ page = [t \in Tab |-> "closed"]
  /\ pending = [t \in Tab |-> NoUser]
  /\ request = [t \in Tab |-> NoRequest]
  /\ data = [t \in Tab |-> NoUser]
  /\ expired = {} /\ logins = 0 /\ loads = 0
  /\ ended = {} /\ kept = {} /\ crossed = {}

-----------------------------------------------------------------------------
(* Tabs and pages.                                                         *)

IsAuthenticated(token) == token # NoToken

(* The header getAuthHeaders adds, if any.                                 *)
AuthHeader(t) ==
  CASE getter[t] = "nothing" -> NoToken
    [] getter[t] = "storage" -> stored
    [] getter[t] = "memory"  -> memory[t]

(* A page behind the login is opened or reloaded.  The effects of a page   *)
(* run before the one of AuthProvider that sets the getter, so its load    *)
(* goes out without a token; unless the first of them still sees the store *)
(* the server rendered with, which is empty, and leaves for the login page *)
(* (React and zustand decide), with or without another load.               *)
LoadPage(t) ==
  /\ loads < MaxLoads
  /\ loads' = loads + 1
  /\ memory' = [memory EXCEPT ![t] = stored]
  /\ getter' = [getter EXCEPT ![t] = "storage"]
  /\ pending' = [pending EXCEPT ![t] = NoUser]
  /\ data' = [data EXCEPT ![t] = NoUser]
  /\ crossed' = crossed \ {t}
  /\ kept' = kept \ {t}
  /\ IF IsAuthenticated(stored)
     THEN \/ /\ page' = [page EXCEPT ![t] = "inside"]
             /\ request' = [request EXCEPT ![t] = NoToken]
          \/ /\ page' = [page EXCEPT ![t] = "login"]
             /\ request' = [request EXCEPT ![t] = NoRequest]
     ELSE /\ page' = [page EXCEPT ![t] = "login"]
          /\ request' = [request EXCEPT ![t] = NoRequest]
  /\ UNCHANGED <<stored, expired, logins, ended>>

(* A link inside the app: the next page loads with what the getter gives.  *)
(* The landing page sends whoever has a session on to the dashboard.       *)
Visit(t) ==
  /\ page[t] # "closed"
  /\ loads < MaxLoads
  /\ loads' = loads + 1
  /\ data' = [data EXCEPT ![t] = NoUser]
  /\ pending' = [pending EXCEPT ![t] = NoUser]
  /\ IF IsAuthenticated(memory[t])
     THEN /\ page' = [page EXCEPT ![t] = "inside"]
          /\ request' = [request EXCEPT ![t] = AuthHeader(t)]
     ELSE /\ page' = [page EXCEPT ![t] = "login"]
          /\ request' = [request EXCEPT ![t] = NoRequest]
  /\ UNCHANGED <<stored, memory, getter, expired, logins, ended, kept, crossed>>

Close(t) ==
  /\ page[t] # "closed"
  /\ page' = [page EXCEPT ![t] = "closed"]
  /\ memory' = [memory EXCEPT ![t] = NoToken]
  /\ getter' = [getter EXCEPT ![t] = "nothing"]
  /\ pending' = [pending EXCEPT ![t] = NoUser]
  /\ request' = [request EXCEPT ![t] = NoRequest]
  /\ data' = [data EXCEPT ![t] = NoUser]
  /\ kept' = kept \ {t} /\ crossed' = crossed \ {t}
  /\ UNCHANGED <<stored, expired, logins, loads, ended>>

(* A service with a guard takes a token until it expires, also after a     *)
(* logout.  Only such services are meant here; they look at the token and  *)
(* not at whose data the page asks for.                                    *)
Accepted(token) == token.login \in 1 .. logins /\ token.login \notin expired

(* The page's catch ignores what is refused or lost: it stays empty.       *)
Answer(t) ==
  /\ request[t] # NoRequest
  /\ request' = [request EXCEPT ![t] = NoRequest]
  /\ \/ Accepted(request[t]) /\ data' = [data EXCEPT ![t] = request[t].user]
     \/ UNCHANGED data
  /\ UNCHANGED <<stored, memory, getter, page, pending, expired, logins, loads,
                 ended, kept, crossed>>

-----------------------------------------------------------------------------
(* Logging in and out.                                                     *)

(* The button is disabled while a login is under way.                      *)
HandleSubmit(t, u) ==
  /\ page[t] = "login"
  /\ pending[t] = NoUser
  /\ pending' = [pending EXCEPT ![t] = u]
  /\ UNCHANGED <<stored, memory, getter, page, request, data, expired, logins, loads,
                 ended, kept, crossed>>

(* What every change of a store does: persist it, and have the requests of *)
(* this tab take the token from memory.                                    *)
SetState(t, token) ==
  /\ memory' = [memory EXCEPT ![t] = token]
  /\ stored' = token
  /\ getter' = [getter EXCEPT ![t] = "memory"]
  /\ crossed' = (crossed \cup {s \in Tab \ {t} : getter[s] = "storage"}) \ {t}

(* login and setAuth; then the dashboard.                                  *)
SetAuth(t) ==
  LET token == [user |-> pending[t], login |-> logins + 1] IN
  /\ pending[t] # NoUser
  /\ logins < MaxLogins
  /\ logins' = logins + 1
  /\ SetState(t, token)
  /\ pending' = [pending EXCEPT ![t] = NoUser]
  /\ page' = [page EXCEPT ![t] = "inside"]
  /\ request' = [request EXCEPT ![t] = token]
  /\ kept' = kept \ {t}
  /\ UNCHANGED <<data, expired, loads, ended>>

LoginFails(t) ==
  /\ pending[t] # NoUser
  /\ pending' = [pending EXCEPT ![t] = NoUser]
  /\ UNCHANGED <<stored, memory, getter, page, request, data, expired, logins, loads,
                 ended, kept, crossed>>

(* Mutant: the session stays in localStorage.                              *)
OnlyInMemory(t) ==
  /\ memory' = [memory EXCEPT ![t] = NoToken]
  /\ getter' = [getter EXCEPT ![t] = "memory"]
  /\ UNCHANGED <<stored, crossed>>

ClearAuth(t) == SetState(t, NoToken)

(* The button that leaves; other tabs are not told.                        *)
Logout(t) ==
  /\ page[t] = "inside" /\ IsAuthenticated(memory[t])
  /\ ClearAuth(t)
  /\ ended' = ended \cup {memory[t].login}
  /\ kept' = kept \cup {s \in Tab \ {t} : memory[s] = memory[t]}
  /\ page' = [page EXCEPT ![t] = "login"]
  /\ request' = [request EXCEPT ![t] = NoRequest]
  /\ data' = [data EXCEPT ![t] = NoUser]
  /\ UNCHANGED <<pending, expired, logins, loads>>

(* An hour has passed.  No page uses the refresh token.                    *)
Expire(n) ==
  /\ n \notin expired
  /\ expired' = expired \cup {n}
  /\ UNCHANGED <<stored, memory, getter, page, pending, request, data, logins, loads,
                 ended, kept, crossed>>

Next ==
  \/ \E t \in Tab :
       \/ LoadPage(t) \/ Visit(t) \/ Close(t) \/ Answer(t)
       \/ \E u \in User : HandleSubmit(t, u)
       \/ SetAuth(t) \/ LoginFails(t) \/ Logout(t)
  \/ \E n \in 1 .. logins : Expire(n)

Spec == Init /\ [][Next]_vars

-----------------------------------------------------------------------------
(* Properties.                                                             *)

(* The data a tab shows were read in the name of the user it shows, unless *)
(* another tab changed the session under it: such a tab asks for the data  *)
(* of one user, and buys and decides, with the token of another.           *)
ReadAsTheUserShown ==
  \A t \in Tab \ crossed : data[t] \in {NoUser, memory[t].user}

(* A session somebody logged out of is over: only tabs that had it open at *)
(* that time still hold it, until they are closed or loaded again.         *)
LogoutIsFinal ==
  /\ stored.login \notin ended
  /\ \A t \in Tab : memory[t].login \in ended => t \in kept

(* The invariant the run checks.                                           *)
Inv == TypeOK /\ ReadAsTheUserShown /\ LogoutIsFinal
=============================================================================
