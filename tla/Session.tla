------------------------------ MODULE Session ------------------------------
(***************************************************************************)
(* Users and their sessions.  A login issues a short-lived access token,   *)
(* which names the user and the role and is not looked up again, and a     *)
(* refresh token, which is a row of a table and travels in a cookie that   *)
(* all tabs of a browser share.  A refresh exchanges the refresh token for *)
(* another, in four database calls; a logout deletes it.                   *)
(*                                                                         *)
(* A request is a sequence of database calls, which interleave with those  *)
(* of other requests; it may end after any of them without an answer that  *)
(* the browser can use: a call failed, the process stopped, the connection *)
(* broke.  Passwords, device fingerprints and the rate limit of logins are *)
(* left out.                                                               *)
(***************************************************************************)
EXTENDS Integers, FiniteSets

CONSTANTS Users,        \* e-mail addresses; one that was deleted is not used again
          Browsers,
          Requests,     \* bound: the requests that may be under way at once
          AccessLife,   \* how long an access token lasts
          RefreshLife,  \* how long a refresh token lasts
          Latency,      \* bound: time between reading a user and signing for it
          Budgets       \* bounds: the time a behaviour takes and how often each
                        \* thing happens in it

Roles == {"admin", "editor", "viewer"}

Budget == [time : Nat, setups : Nat, logins : Nat, refreshes : Nat,
           logouts : Nat, changes : Nat, drops : Nat]

ASSUME SessionAssumption ==
  /\ IsFiniteSet(Users)
  /\ {AccessLife, RefreshLife, Latency} \subseteq Nat
  /\ Budgets \subseteq Budget

VARIABLES
  users,      \* the users table: every user's role, "unborn" or "gone"
  tokens,     \* the refresh_tokens table
  nextId,     \* what makes the next refresh token differ from all others
  cookie,     \* the refresh token that a browser holds
  access,     \* the access tokens that pages hold, until they expire
  request,    \* the requests under way
  clock,
  budget,     \* what is left of the bounds
  sessions,   \* history: the logins that were given a token
  ended,      \* history: the sessions whose token was deleted by a logout
  disturbed,  \* history: the sessions of which two requests overlapped, or
              \* of which a request came to nothing
  raced,      \* history: two set-ups overlapped
  held        \* history: until when a user had a role that it has no more

vars == <<users, tokens, nextId, cookie, access, request, clock, budget,
          sessions, ended, disturbed, raced, held>>

Raw    == [id : Nat, line : Nat]       \* line: the login a token descends from
NoRaw  == [id |-> 0, line |-> 0]
Token  == [id : Nat, line : Nat, user : Users, expires : Nat]
Access == [browser : Browsers, user : Users, role : Roles, expires : Nat]

tables  == <<users, tokens, nextId>>
browser == <<cookie, access>>
history == <<sessions, ended, disturbed, raced, held>>

Stored(u) == users[u] \in Roles

Init ==
  /\ users = [u \in Users |-> "unborn"]
  /\ tokens = {} /\ nextId = 1
  /\ cookie = [b \in Browsers |-> NoRaw] /\ access = {}
  /\ request = [p \in Requests |-> [pc |-> "idle"]]
  /\ clock = 0 /\ budget \in Budgets
  /\ sessions = {} /\ ended = {} /\ disturbed = {} /\ raced = FALSE
  /\ held = [u \in Users |-> [r \in Roles |-> -1]]

At(p, pc) == request[p].pc = pc

Goto(p, r) == request' = [request EXCEPT ![p] = r]

Finish(p) == Goto(p, [pc |-> "idle"])

Begin(p, what) ==
  /\ At(p, "idle")
  /\ budget[what] > 0 /\ budget' = [budget EXCEPT ![what] = @ - 1]

(* The session that a request is about; 0 if it is about none yet.         *)
LineOf(p) == IF request[p].pc \in {"idle", "createUser", "compare"}
             THEN 0 ELSE request[p].raw.line

Quiet(line) == \A p \in Requests : LineOf(p) # line

-----------------------------------------------------------------------------
(* Set-up.                                                                 *)

Count == Cardinality({u \in Users : Stored(u)})

SetupRequired == Count = 0

ListUsers == {u \in Users : Stored(u)}

Setup(p, u) ==
  /\ Begin(p, "setups")
  /\ users[u] # "gone"
  /\ SetupRequired
  /\ Goto(p, [pc |-> "createUser", user |-> u])
  /\ raced' = (raced \/ \E q \in Requests : At(q, "createUser"))
  /\ UNCHANGED <<tables, browser, clock, sessions, ended, disturbed, held>>

(* The unique index on e-mail addresses refuses a second row.              *)
CreateUser(p) ==
  /\ At(p, "createUser")
  /\ users' = IF users[request[p].user] = "unborn"
              THEN [users EXCEPT ![request[p].user] = "admin"] ELSE users
  /\ Finish(p)
  /\ UNCHANGED <<tokens, nextId, browser, clock, budget, history>>

-----------------------------------------------------------------------------
(* Tokens.                                                                 *)

(* FindByHash, and the look at the expiry                                  *)
Exchangeable(raw) == {t \in tokens : t.id = raw.id /\ clock <= t.expires}

DeleteByHash(raw) == tokens' = {t \in tokens : t.id # raw.id}

(* generateAccessToken                                                     *)
Signed(p, r) == [r EXCEPT !.pc = "issue", !.expires = clock + AccessLife]

(* FindByEmail, of a user that exists                                      *)
Login(p, b, u) ==
  /\ Begin(p, "logins")
  /\ Stored(u)
  /\ Goto(p, [pc |-> "compare", browser |-> b, user |-> u, role |-> users[u],
              raw |-> NoRaw, read |-> clock, expires |-> 0])
  /\ UNCHANGED <<tables, browser, clock, history>>

(* The password is right, and the access token is signed.                  *)
ComparePassword(p) ==
  /\ At(p, "compare")
  /\ Goto(p, Signed(p, request[p]))
  /\ UNCHANGED <<tables, browser, clock, budget, history>>

(* Overlapping requests of one session disturb it.                         *)
Disturbs(line) == IF Quiet(line) THEN {} ELSE {line}

(* A browser asks for a refresh whenever a page is loaded or was told that *)
(* its access token is not valid.                                          *)
Refresh(p, b) ==
  /\ Begin(p, "refreshes")
  /\ cookie[b] # NoRaw
  /\ disturbed' = disturbed \cup Disturbs(cookie[b].line)
  /\ \/ /\ Exchangeable(cookie[b]) = {}
        /\ UNCHANGED request
     \/ \E t \in Exchangeable(cookie[b]) :
          Goto(p, [pc |-> "findUser", browser |-> b, user |-> t.user,
                   role |-> "viewer", raw |-> cookie[b], read |-> clock,
                   expires |-> 0])
  /\ UNCHANGED <<tables, browser, clock, sessions, ended, raced, held>>

FindUserInClaims(p) ==   \* mutant: the role is that of an older access token
  /\ At(p, "findUser")
  /\ \E a \in access :
       /\ a.user = request[p].user
       /\ Goto(p, [request[p] EXCEPT !.pc = "deleteToken", !.role = a.role,
                                     !.read = clock])
  /\ UNCHANGED <<tables, browser, clock, budget, history>>

(* The user of a token is read again, for its role.                        *)
FindUser(p) ==
  /\ At(p, "findUser")
  /\ IF Stored(request[p].user)
     THEN Goto(p, [request[p] EXCEPT !.pc = "deleteToken", !.read = clock,
                                     !.role = users[request[p].user]])
     ELSE Finish(p)
  /\ UNCHANGED <<tables, browser, clock, budget, history>>

DeleteNothing(p) ==   \* mutant: the old token is left to expire
  /\ At(p, "deleteToken")
  /\ Goto(p, Signed(p, request[p]))
  /\ UNCHANGED <<tables, browser, clock, budget, history>>

(* The token is deleted, if it is still there, and the access token signed. *)
DeleteToken(p) ==
  /\ At(p, "deleteToken")
  /\ DeleteByHash(request[p].raw)
  /\ Goto(p, Signed(p, request[p]))
  /\ UNCHANGED <<users, nextId, browser, clock, budget, history>>

(* issueRefreshToken, for a login and for a refresh: the foreign key       *)
(* refuses the token of a user who was deleted meanwhile.                  *)
IssueRefreshToken(p) ==
  /\ At(p, "issue")
  /\ LET r    == request[p]
         line == IF r.raw = NoRaw THEN nextId ELSE r.raw.line
     IN  IF Stored(r.user)
         THEN /\ tokens' = tokens \cup {[id |-> nextId, line |-> line, user |-> r.user,
                                         expires |-> clock + RefreshLife]}
              /\ sessions' = sessions \cup {[line |-> line, user |-> r.user]}
              /\ Goto(p, [r EXCEPT !.pc = "answer", !.raw = [id |-> nextId, line |-> line]])
              /\ nextId' = nextId + 1
         ELSE /\ Finish(p)
              /\ UNCHANGED <<tokens, sessions, nextId>>
  /\ UNCHANGED <<users, browser, clock, budget, ended, disturbed, raced, held>>

(* The answer sets the cookie and hands over the access token.             *)
SetRefreshCookie(p) ==
  /\ At(p, "answer")
  /\ LET r == request[p]
     IN  /\ cookie' = [cookie EXCEPT ![r.browser] = r.raw]
         /\ access' = access \cup
              {a \in {[browser |-> r.browser, user |-> r.user, role |-> r.role,
                       expires |-> r.expires]} : clock < r.expires}
  /\ Finish(p)
  /\ UNCHANGED <<tables, clock, budget, history>>

-----------------------------------------------------------------------------
(* Requests with an access token.                                          *)

(* JWTAuth: the token is not expired, as those that are kept are.          *)
Claims(b) == {a \in access : a.browser = b /\ clock < a.expires}

RoleGuard(a, allowed) == a.role \in allowed

(* The role that a page is told when it asks who it is logged in as        *)
Me(a) == users[a.user]

ForgetNothing(p) ==   \* mutant: only the cookie is removed
  /\ At(p, "forget")
  /\ ended' = ended \cup {request[p].raw.line}
  /\ Goto(p, [request[p] EXCEPT !.pc = "clear"])
  /\ UNCHANGED <<tables, browser, clock, budget, sessions, disturbed, raced, held>>

Logout(p, b) ==
  /\ Begin(p, "logouts")
  /\ Claims(b) # {} /\ cookie[b] # NoRaw
  /\ disturbed' = disturbed \cup Disturbs(cookie[b].line)
  /\ Goto(p, [pc |-> "forget", browser |-> b, raw |-> cookie[b]])
  /\ UNCHANGED <<tables, browser, clock, sessions, ended, raced, held>>

Forget(p) ==
  /\ At(p, "forget")
  /\ DeleteByHash(request[p].raw)
  /\ ended' = ended \cup {request[p].raw.line}
  /\ Goto(p, [request[p] EXCEPT !.pc = "clear"])
  /\ UNCHANGED <<users, nextId, browser, clock, budget, sessions, disturbed, raced, held>>

(* The token could not be deleted, which makes no difference to the rest.  *)
ForgetFails(p) ==
  /\ At(p, "forget")
  /\ budget.drops > 0 /\ budget' = [budget EXCEPT !.drops = @ - 1]
  /\ disturbed' = disturbed \cup {request[p].raw.line}
  /\ Goto(p, [request[p] EXCEPT !.pc = "clear"])
  /\ UNCHANGED <<tables, browser, clock, sessions, ended, raced, held>>

ClearCookie(p) ==
  /\ At(p, "clear")
  /\ cookie' = [cookie EXCEPT ![request[p].browser] = NoRaw]
  /\ Finish(p)
  /\ UNCHANGED <<tables, access, clock, budget, history>>

Change == budget.changes > 0 /\ budget' = [budget EXCEPT !.changes = @ - 1]

Hold(u) == held' = [held EXCEPT ![u][users[u]] = clock]

(* An administrator, by the word of the access token, changes a role, ...  *)
(* The guard looks at the token alone, which no other request can change,  *)
(* so that it and the statement after it are one step.                     *)
UpdateRole(b, u, r) ==
  /\ Change
  /\ \E a \in Claims(b) : RoleGuard(a, {"admin"})
  /\ Stored(u) /\ users[u] # r
  /\ users' = [users EXCEPT ![u] = r]
  /\ Hold(u)
  /\ UNCHANGED <<tokens, nextId, browser, request, clock, sessions, ended, disturbed, raced>>

DeletesAnyone(b, u) ==   \* mutant: users may delete themselves
  /\ Change
  /\ \E a \in Claims(b) : RoleGuard(a, {"admin"})
  /\ Stored(u)
  /\ users' = [users EXCEPT ![u] = "gone"]
  /\ tokens' = {t \in tokens : t.user # u}
  /\ Hold(u)
  /\ UNCHANGED <<nextId, browser, request, clock, sessions, ended, disturbed, raced>>

(* ... or deletes another user, whose refresh tokens go with it.           *)
DeleteUser(b, u) ==
  /\ Change
  /\ \E a \in Claims(b) : RoleGuard(a, {"admin"}) /\ a.user # u
  /\ Stored(u)
  /\ users' = [users EXCEPT ![u] = "gone"]
  /\ tokens' = {t \in tokens : t.user # u}
  /\ Hold(u)
  /\ UNCHANGED <<nextId, browser, request, clock, sessions, ended, disturbed, raced>>

HandleUser(b, u) == DeleteUser(b, u) \/ \E r \in Roles : UpdateRole(b, u, r)

-----------------------------------------------------------------------------
(* The world.                                                              *)

(* A request ends before its next step, and the browser hears of nothing   *)
(* it could use: the password was wrong, a database call failed, the       *)
(* process stopped or the answer was lost.                                 *)
Dropped(p) ==
  /\ ~At(p, "idle")
  /\ budget.drops > 0 /\ budget' = [budget EXCEPT !.drops = @ - 1]
  /\ disturbed' = disturbed \cup {LineOf(p)}
  /\ Finish(p)
  /\ UNCHANGED <<tables, browser, clock, sessions, ended, raced, held>>

Elapse ==
  /\ clock < budget.time
  /\ \A p \in Requests : request[p].pc \in {"compare", "deleteToken"}
                           => clock - request[p].read < Latency
  /\ clock' = clock + 1
  /\ access' = {a \in access : clock' < a.expires}
  /\ UNCHANGED <<tables, cookie, request, budget, history>>

Step(p) ==
  \/ CreateUser(p) \/ ComparePassword(p) \/ FindUser(p) \/ DeleteToken(p)
  \/ IssueRefreshToken(p) \/ SetRefreshCookie(p)
  \/ Forget(p) \/ ForgetFails(p) \/ ClearCookie(p) \/ Dropped(p)

Next ==
  \/ \E p \in Requests :
       \/ Step(p)
       \/ \E u \in Users : Setup(p, u) \/ \E b \in Browsers : Login(p, b, u)
       \/ \E b \in Browsers : Refresh(p, b) \/ Logout(p, b)
  \/ \E b \in Browsers, u \in Users : HandleUser(b, u)
  \/ Elapse

Spec == Init /\ [][Next]_vars

-----------------------------------------------------------------------------
(* Properties.                                                             *)

TokensOf(line) == {t \in tokens : t.line = line}

(* A session that was not disturbed has, between two requests, one refresh *)
(* token, and a browser whose cookie belongs to the session has that one:  *)
(* however often it was exchanged, none is left behind and the session is  *)
(* not lost, while other sessions of the user come and go.                 *)
OneTokenPerSession ==
  \A s \in sessions :
    s.line \notin disturbed \cup ended /\ Quiet(s.line) /\ Stored(s.user)
    => \E t \in TokensOf(s.line) :
         /\ TokensOf(s.line) = {t} /\ t.user = s.user
         /\ \A b \in Browsers : cookie[b].line = s.line => cookie[b].id = t.id

(* After a logout nothing is left that could be exchanged, unless a        *)
(* request of the session was under way beside the logout or had failed.   *)
LogoutEnds == \A line \in ended \ disturbed : TokensOf(line) = {}

(* An access token is not looked up; but however many refreshes a session  *)
(* goes through, a page that is taken for a user with a role is that user's *)
(* and the user had the role not longer ago than an access token lasts,    *)
(* even if the role was changed or the user deleted in the middle of the   *)
(* request that signed it.                                                 *)
StaleRoleIsBounded ==
  \A b \in Browsers : \A a \in Claims(b) :
    Me(a) = a.role \/ clock - held[a.user][a.role] < AccessLife + Latency

(* Unless set-ups overlapped, there is one, ever: the user it created      *)
(* stays, whatever administrators do, and no other can be set up.          *)
SetupIsOneTime ==
  ~raced => \A u \in Users : users[u] # "unborn" =>
              /\ ListUsers = {u} /\ ~SetupRequired
              /\ \A o \in Users \ {u} : users[o] = "unborn"

(* The variables hold what the tables and the Go types allow.              *)
TypeOK ==
  /\ users \in [Users -> Roles \cup {"unborn", "gone"}]
  /\ tokens \subseteq Token /\ nextId \in Nat
  /\ cookie \in [Browsers -> Raw] /\ access \subseteq Access
  /\ clock \in Nat /\ budget \in Budget
  /\ sessions \subseteq [line : Nat, user : Users]
  /\ ended \subseteq Nat /\ disturbed \subseteq Nat /\ raced \in BOOLEAN
  /\ held \in [Users -> [Roles -> Int]]
=============================================================================
