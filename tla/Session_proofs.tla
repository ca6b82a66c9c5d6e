---------------------------- MODULE Session_proofs ----------------------------
(***************************************************************************)
(* Sessions and the set-up, for any number of users, browsers and requests *)
(* under way, and for any lifetimes: there is one set-up; a session that   *)
(* was not disturbed keeps exactly one refresh token; a logout ends it.    *)
(***************************************************************************)
EXTENDS Session, FiniteSetTheorems, TLAPS

Flow == {"compare", "findUser", "deleteToken", "issue", "answer"}

IdleRequest   == [pc : {"idle"}]
SetupRequest  == [pc : {"createUser"}, user : Users]
FlowRequest   == [pc : Flow, browser : Browsers, user : Users, role : Roles,
                  raw : Raw, read : Nat, expires : Nat]
LogoutRequest == [pc : {"forget", "clear"}, browser : Browsers, raw : Raw]

Request == IdleRequest \cup SetupRequest \cup FlowRequest \cup LogoutRequest

Typed == TypeOK /\ request \in [Requests -> Request]

(* Whoever is named anywhere was once created.                             *)
Created(u) == u \in Users /\ users[u] # "unborn"

Known ==
  /\ \A t \in tokens : Created(t.user)
  /\ \A a \in access : Created(a.user)
  /\ \A s \in sessions : Created(s.user)
  /\ \A p \in Requests : request[p].pc \in Flow => Created(request[p].user)

(* Without a race, the first set-up is the only one.                       *)
FirstSetup ==
  ~raced =>
    /\ \A p, q \in Requests : At(p, "createUser") /\ At(q, "createUser") => p = q
    /\ \A p \in Requests : At(p, "createUser") => \A u \in Users : users[u] = "unborn"
    /\ \A u, o \in Users : users[u] # "unborn" /\ users[o] # "unborn" => u = o
    /\ \A u \in Users : users[u] # "gone"

(* A raw token, as a cookie or a request has it, was issued and belongs to *)
(* one line.                                                               *)
Issued(raw) ==
  /\ raw.id \in 1..(nextId - 1) /\ raw.line \in 1..(nextId - 1)
  /\ \A t \in tokens : t.id = raw.id => t.line = raw.line

NoneOrIssued(raw) == raw = NoRaw \/ Issued(raw)

FreshTokens ==
  /\ nextId >= 1
  /\ \A t \in tokens : t.id \in 1..(nextId - 1) /\ t.line \in 1..(nextId - 1)
  /\ \A t, o \in tokens : t.id = o.id => t = o

FreshCookies == \A b \in Browsers : NoneOrIssued(cookie[b])

FreshRequest(p) ==
  /\ At(p, "compare") => request[p].raw = NoRaw
  /\ At(p, "issue") => NoneOrIssued(request[p].raw)
  /\ request[p].pc \in {"findUser", "deleteToken", "answer", "forget", "clear"}
       => Issued(request[p].raw)

FreshRequests == \A p \in Requests : FreshRequest(p)

FreshLines ==
  /\ \A s \in sessions : s.line \in 1..(nextId - 1)
  /\ ended \subseteq 1..(nextId - 1)

Fresh == FreshTokens /\ FreshCookies /\ FreshRequests /\ FreshLines

(* What a request of a line has left of the line's tokens.                 *)
AtMost(line, id) == \A t \in TokensOf(line) : t.id = id

NeedsToken(line) == \A s \in sessions : s.line = line /\ Stored(s.user)
                                        => TokensOf(line) # {}

SameCookie(line, id) == \A b \in Browsers : cookie[b].line = line => cookie[b].id = id

Stage(p, line) ==
  /\ request[p].pc \in {"findUser", "deleteToken", "forget"}
       => SameCookie(line, request[p].raw.id)
  /\ request[p].pc \in {"findUser", "deleteToken", "forget", "answer"}
       => AtMost(line, request[p].raw.id)
  /\ request[p].pc \in {"issue", "clear"} => TokensOf(line) = {}
  /\ At(p, "answer") => NeedsToken(line)
  /\ line \in ended <=> At(p, "clear")

(* ... and what is left when no request of the line is under way.          *)
Resting(line) ==
  /\ \A b \in Browsers : cookie[b].line = line => AtMost(line, cookie[b].id)
  /\ line \in ended => /\ TokensOf(line) = {}
                       /\ \A b \in Browsers : cookie[b].line # line
  /\ line \notin ended => NeedsToken(line)

OneRequest(line) ==
  \A p, q \in Requests : LineOf(p) = line /\ LineOf(q) = line => p = q

OneBrowser(line) ==
  /\ \A b, c \in Browsers : cookie[b].line = line /\ cookie[c].line = line => b = c
  /\ \A b \in Browsers, p \in Requests :
       cookie[b].line = line /\ LineOf(p) = line => request[p].browser = b

OneToken(line) == \A t, o \in TokensOf(line) : t = o

OneUser(line) ==
  \A s \in sessions : s.line = line =>
    /\ \A t \in TokensOf(line) : t.user = s.user
    /\ \A p \in Requests : LineOf(p) = line /\ request[p].pc \in Flow
                           => request[p].user = s.user

Orderly(line) ==
  /\ OneRequest(line) /\ OneBrowser(line) /\ OneToken(line) /\ OneUser(line)
  /\ Quiet(line) => Resting(line)
  /\ \A p \in Requests : LineOf(p) = line => Stage(p, line)

Lines == \A line \in Nat \ {0} : line \notin disturbed => Orderly(line)

-----------------------------------------------------------------------------
(* Types.                                                                  *)

(* What kind of request it is shows in where it is.                        *)
LEMMA RequestKinds ==
  ASSUME Typed, NEW p \in Requests
  PROVE  /\ request[p] \in Request
         /\ request[p].pc \in Flow => request[p] \in FlowRequest
         /\ request[p].pc \in {"forget", "clear"} => request[p] \in LogoutRequest
         /\ At(p, "createUser") => request[p] \in SetupRequest
  BY DEF Typed, Request, IdleRequest, SetupRequest, FlowRequest, LogoutRequest, Flow, At

LEMMA NoRawIsRaw == NoRaw \in Raw /\ NoRaw.id = 0 /\ NoRaw.line = 0
  BY DEF NoRaw, Raw

(* A request goes on, or ends.                                             *)
LEMMA GotoTyped ==
  ASSUME Typed, NEW p \in Requests, NEW r \in Request, Goto(p, r)
  PROVE  /\ request' \in [Requests -> Request]
         /\ request'[p] = r
         /\ \A q \in Requests : q # p => request'[q] = request[q]
  BY DEF Typed, Goto

LEMMA FinishTyped ==
  ASSUME Typed, NEW p \in Requests, Finish(p)
  PROVE  /\ request' \in [Requests -> Request]
         /\ request'[p] = [pc |-> "idle"]
         /\ \A q \in Requests : q # p => request'[q] = request[q]
  <1>1. [pc |-> "idle"] \in Request
    BY DEF Request, IdleRequest
  <1> QED
    BY <1>1, GotoTyped DEF Finish

(* Spending a budget leaves a budget.                                      *)
LEMMA SpendTyped ==
  ASSUME budget \in Budget, NEW what \in {"time", "setups", "logins", "refreshes",
                                          "logouts", "changes", "drops"},
         budget[what] > 0, budget' = [budget EXCEPT ![what] = @ - 1]
  PROVE  budget' \in Budget
  BY DEF Budget

LEMMA LineOfType ==
  ASSUME Typed, NEW p \in Requests
  PROVE  LineOf(p) \in Nat
  BY RequestKinds
  DEF LineOf, Request, IdleRequest, SetupRequest, FlowRequest, LogoutRequest, Flow, Raw

LEMMA SignedTyped ==
  ASSUME Typed, NEW r \in FlowRequest
  PROVE  /\ [r EXCEPT !.pc = "issue", !.expires = clock + AccessLife] \in FlowRequest
         /\ [r EXCEPT !.pc = "issue", !.expires = clock + AccessLife].pc = "issue"
         /\ [r EXCEPT !.pc = "issue", !.expires = clock + AccessLife].user = r.user
         /\ [r EXCEPT !.pc = "issue", !.expires = clock + AccessLife].raw = r.raw
         /\ [r EXCEPT !.pc = "issue", !.expires = clock + AccessLife].browser = r.browser
  <1>1. clock + AccessLife \in Nat
    BY SessionAssumption DEF Typed, TypeOK
  <1> QED
    BY <1>1 DEF FlowRequest, Flow

LEMMA SetupTyped ==
  ASSUME Typed, NEW p \in Requests, NEW u \in Users, Setup(p, u)
  PROVE  Typed'
  <1>1. [pc |-> "createUser", user |-> u] \in Request
    BY DEF Request, SetupRequest
  <1>2. request' \in [Requests -> Request]
    BY <1>1, GotoTyped DEF Setup
  <1>3. budget' \in Budget
    BY SpendTyped DEF Setup, Begin, Typed, TypeOK
  <1>4. raced' \in BOOLEAN
    <2>1. raced' = (raced \/ \E q \in Requests : At(q, "createUser"))
      BY DEF Setup
    <2>2. raced' = TRUE \/ raced' = FALSE
      BY <2>1, Zenon
    <2> QED
      BY <2>2, Zenon
  <1> QED
    BY <1>2, <1>3, <1>4 DEF Setup, Typed, TypeOK, tables, browser

LEMMA CreateUserTyped ==
  ASSUME Typed, NEW p \in Requests, CreateUser(p)
  PROVE  Typed'
  <1>1. request' \in [Requests -> Request]
    BY FinishTyped DEF CreateUser
  <1>2. users' \in [Users -> Roles \cup {"unborn", "gone"}]
    BY DEF CreateUser, Typed, TypeOK, Roles
  <1> QED
    BY <1>1, <1>2 DEF CreateUser, Typed, TypeOK, browser, history

LEMMA LoginTyped ==
  ASSUME Typed, NEW p \in Requests, NEW b \in Browsers, NEW u \in Users, Login(p, b, u)
  PROVE  Typed'
  <1> DEFINE r == [pc |-> "compare", browser |-> b, user |-> u, role |-> users[u],
                   raw |-> NoRaw, read |-> clock, expires |-> 0]
  <1>1. r \in Request
    BY NoRawIsRaw DEF Login, Stored, Typed, TypeOK, Request, FlowRequest, Flow
  <1>2. request' \in [Requests -> Request]
    BY <1>1, GotoTyped DEF Login
  <1>3. budget' \in Budget
    BY SpendTyped DEF Login, Begin, Typed, TypeOK
  <1> QED
    BY <1>2, <1>3 DEF Login, Typed, TypeOK, tables, browser, history

LEMMA ComparePasswordTyped ==
  ASSUME Typed, NEW p \in Requests, ComparePassword(p)
  PROVE  Typed'
  <1>1. request[p] \in FlowRequest
    BY RequestKinds DEF ComparePassword, At, Flow
  <1>2. Signed(p, request[p]) \in Request
    BY <1>1, SignedTyped DEF Signed, Request
  <1>3. request' \in [Requests -> Request]
    BY <1>2, GotoTyped DEF ComparePassword
  <1> QED
    BY <1>3 DEF ComparePassword, Typed, TypeOK, tables, browser, history

LEMMA RefreshTyped ==
  ASSUME Typed, NEW p \in Requests, NEW b \in Browsers, Refresh(p, b)
  PROVE  Typed'
  <1>1. cookie[b] \in Raw
    BY DEF Typed, TypeOK
  <1>2. request' \in [Requests -> Request]
    <2>1. ASSUME NEW t \in Exchangeable(cookie[b]),
                 Goto(p, [pc |-> "findUser", browser |-> b, user |-> t.user,
                          role |-> "viewer", raw |-> cookie[b], read |-> clock,
                          expires |-> 0])
          PROVE  request' \in [Requests -> Request]
      <3>1. t.user \in Users
        BY DEF Exchangeable, Typed, TypeOK, Token
      <3>2. [pc |-> "findUser", browser |-> b, user |-> t.user,
             role |-> "viewer", raw |-> cookie[b], read |-> clock,
             expires |-> 0] \in Request
        BY <1>1, <3>1 DEF Request, FlowRequest, Flow, Roles, Typed, TypeOK
      <3> QED
        BY <2>1, <3>2, GotoTyped
    <2>2. CASE UNCHANGED request
      BY <2>2 DEF Typed
    <2> QED
      BY <2>1, <2>2 DEF Refresh
  <1>3. budget' \in Budget
    BY SpendTyped DEF Refresh, Begin, Typed, TypeOK
  <1>4. disturbed' \subseteq Nat
    BY <1>1 DEF Refresh, Disturbs, Raw, Typed, TypeOK
  <1> QED
    BY <1>2, <1>3, <1>4 DEF Refresh, Typed, TypeOK, tables, browser

LEMMA FindUserTyped ==
  ASSUME Typed, NEW p \in Requests, FindUser(p)
  PROVE  Typed'
  <1>1. request[p] \in FlowRequest
    BY RequestKinds DEF FindUser, At, Flow
  <1>2. request' \in [Requests -> Request]
    <2>1. CASE Stored(request[p].user)
      <3> DEFINE r == [request[p] EXCEPT !.pc = "deleteToken", !.read = clock,
                                         !.role = users[request[p].user]]
      <3>1. users[request[p].user] \in Roles /\ clock \in Nat
        BY <2>1 DEF Stored, Typed, TypeOK
      <3>2. r \in Request
        BY <1>1, <3>1 DEF Request, FlowRequest, Flow
      <3>3. Goto(p, r)
        BY <2>1 DEF FindUser
      <3> QED
        BY <3>2, <3>3, GotoTyped
    <2>2. CASE ~Stored(request[p].user)
      BY <2>2, FinishTyped DEF FindUser
    <2> QED
      BY <2>1, <2>2
  <1> QED
    BY <1>2 DEF FindUser, Typed, TypeOK, tables, browser, history

LEMMA DeleteTokenTyped ==
  ASSUME Typed, NEW p \in Requests, DeleteToken(p)
  PROVE  Typed'
  <1>1. request[p] \in FlowRequest
    BY RequestKinds DEF DeleteToken, At, Flow
  <1>2. Signed(p, request[p]) \in Request
    BY <1>1, SignedTyped DEF Signed, Request
  <1>3. request' \in [Requests -> Request]
    BY <1>2, GotoTyped DEF DeleteToken
  <1> QED
    BY <1>3 DEF DeleteToken, DeleteByHash, Typed, TypeOK, browser, history

LEMMA IssueTyped ==
  ASSUME Typed, NEW p \in Requests, IssueRefreshToken(p)
  PROVE  Typed'
  <1>1. request[p] \in FlowRequest
    BY RequestKinds DEF IssueRefreshToken, At, Flow
  <1>2. PICK r : r = request[p]
    OBVIOUS
  <1>3. PICK line : line = IF r.raw = NoRaw THEN nextId ELSE r.raw.line
    OBVIOUS
  <1>4. /\ line \in Nat /\ nextId \in Nat /\ r.user \in Users
        /\ clock + RefreshLife \in Nat
    BY <1>1, <1>2, <1>3, SessionAssumption DEF FlowRequest, Raw, Typed, TypeOK
  <1>5. CASE Stored(r.user)
    <2>1. /\ tokens' = tokens \cup {[id |-> nextId, line |-> line, user |-> r.user,
                                     expires |-> clock + RefreshLife]}
          /\ sessions' = sessions \cup {[line |-> line, user |-> r.user]}
          /\ Goto(p, [r EXCEPT !.pc = "answer", !.raw = [id |-> nextId, line |-> line]])
          /\ nextId' = nextId + 1
      BY <1>2, <1>3, <1>5 DEF IssueRefreshToken
    <2>2. [id |-> nextId, line |-> line] \in Raw
      BY <1>4 DEF Raw
    <2>3. [r EXCEPT !.pc = "answer", !.raw = [id |-> nextId, line |-> line]] \in Request
      BY <1>1, <1>2, <2>2 DEF Request, FlowRequest, Flow
    <2>4. request' \in [Requests -> Request]
      BY <2>1, <2>3, GotoTyped
    <2>5. tokens' \subseteq Token /\ nextId' \in Nat /\ sessions' \subseteq [line : Nat, user : Users]
      BY <1>4, <2>1 DEF Token, Typed, TypeOK
    <2> QED
      BY <2>4, <2>5 DEF IssueRefreshToken, Typed, TypeOK, browser
  <1>6. CASE ~Stored(r.user)
    <2>1. Finish(p) /\ UNCHANGED <<tokens, sessions, nextId>>
      BY <1>2, <1>6 DEF IssueRefreshToken
    <2>2. request' \in [Requests -> Request]
      BY <2>1, FinishTyped
    <2> QED
      BY <2>1, <2>2 DEF IssueRefreshToken, Typed, TypeOK, browser
  <1> QED
    BY <1>5, <1>6

LEMMA AnswerTyped ==
  ASSUME Typed, NEW p \in Requests, SetRefreshCookie(p)
  PROVE  Typed'
  <1>1. request[p] \in FlowRequest
    BY RequestKinds DEF SetRefreshCookie, At, Flow
  <1>2. request' \in [Requests -> Request]
    BY FinishTyped DEF SetRefreshCookie
  <1>3. cookie' \in [Browsers -> Raw]
    BY <1>1 DEF SetRefreshCookie, FlowRequest, Typed, TypeOK
  <1>4. access' \subseteq Access
    BY <1>1 DEF SetRefreshCookie, FlowRequest, Access, Typed, TypeOK
  <1> QED
    BY <1>2, <1>3, <1>4 DEF SetRefreshCookie, Typed, TypeOK, tables, history

LEMMA LogoutTyped ==
  ASSUME Typed, NEW p \in Requests, NEW b \in Browsers, Logout(p, b)
  PROVE  Typed'
  <1>1. cookie[b] \in Raw
    BY DEF Typed, TypeOK
  <1>2. [pc |-> "forget", browser |-> b, raw |-> cookie[b]] \in Request
    BY <1>1 DEF Request, LogoutRequest
  <1>3. request' \in [Requests -> Request]
    BY <1>2, GotoTyped DEF Logout
  <1>4. budget' \in Budget
    BY SpendTyped DEF Logout, Begin, Typed, TypeOK
  <1>5. disturbed' \subseteq Nat
    BY <1>1 DEF Logout, Disturbs, Raw, Typed, TypeOK
  <1> QED
    BY <1>3, <1>4, <1>5 DEF Logout, Typed, TypeOK, tables, browser

LEMMA ForgetTyped ==
  ASSUME Typed, NEW p \in Requests, Forget(p) \/ ForgetFails(p)
  PROVE  Typed'
  <1>1. request[p] \in LogoutRequest
    BY RequestKinds DEF Forget, ForgetFails, At
  <1>2. [request[p] EXCEPT !.pc = "clear"] \in Request
    BY <1>1 DEF Request, LogoutRequest
  <1>3. request' \in [Requests -> Request]
    BY <1>2, GotoTyped DEF Forget, ForgetFails
  <1>4. request[p].raw.line \in Nat
    BY <1>1 DEF LogoutRequest, Raw
  <1>5. CASE Forget(p)
    BY <1>3, <1>4, <1>5 DEF Forget, DeleteByHash, Typed, TypeOK, browser
  <1>6. CASE ForgetFails(p)
    <2>1. budget' \in Budget
      BY <1>6, SpendTyped DEF ForgetFails, Typed, TypeOK
    <2> QED
      BY <1>3, <1>4, <1>6, <2>1 DEF ForgetFails, Typed, TypeOK, tables, browser
  <1> QED
    BY <1>5, <1>6

LEMMA ClearTyped ==
  ASSUME Typed, NEW p \in Requests, ClearCookie(p)
  PROVE  Typed'
  <1>1. request' \in [Requests -> Request]
    BY FinishTyped DEF ClearCookie
  <1>2. cookie' \in [Browsers -> Raw]
    BY NoRawIsRaw DEF ClearCookie, Typed, TypeOK
  <1> QED
    BY <1>1, <1>2 DEF ClearCookie, Typed, TypeOK, tables, history

LEMMA HoldTyped ==
  ASSUME Typed, NEW u \in Users, Hold(u)
  PROVE  held' \in [Users -> [Roles -> Int]]
  <1>1. held \in [Users -> [Roles -> Int]] /\ held[u] \in [Roles -> Int] /\ clock \in Int
    BY DEF Typed, TypeOK
  <1>2. [held[u] EXCEPT ![users[u]] = clock] \in [Roles -> Int]
    BY <1>1
  <1>3. held' = [held EXCEPT ![u] = [held[u] EXCEPT ![users[u]] = clock]]
    BY DEF Hold
  <1> QED
    BY <1>1, <1>2, <1>3

LEMMA HandleUserTyped ==
  ASSUME Typed, NEW b \in Browsers, NEW u \in Users, HandleUser(b, u)
  PROVE  Typed'
  <1>1. CASE DeleteUser(b, u)
    <2>1. budget' \in Budget
      BY <1>1, SpendTyped DEF DeleteUser, Change, Typed, TypeOK
    <2>2. held' \in [Users -> [Roles -> Int]]
      BY <1>1, HoldTyped DEF DeleteUser
    <2> QED
      BY <1>1, <2>1, <2>2 DEF DeleteUser, Typed, TypeOK, browser
  <1>2. ASSUME NEW r \in Roles, UpdateRole(b, u, r)
        PROVE  Typed'
    <2>1. budget' \in Budget
      BY <1>2, SpendTyped DEF UpdateRole, Change, Typed, TypeOK
    <2>2. held' \in [Users -> [Roles -> Int]]
      BY <1>2, HoldTyped DEF UpdateRole
    <2> QED
      BY <1>2, <2>1, <2>2 DEF UpdateRole, Typed, TypeOK, browser
  <1> QED
    BY <1>1, <1>2 DEF HandleUser

LEMMA DroppedTyped ==
  ASSUME Typed, NEW p \in Requests, Dropped(p)
  PROVE  Typed'
  <1>1. request' \in [Requests -> Request]
    BY FinishTyped DEF Dropped
  <1>2. budget' \in Budget
    BY SpendTyped DEF Dropped, Typed, TypeOK
  <1>3. disturbed' \subseteq Nat
    BY LineOfType DEF Dropped, Typed, TypeOK
  <1> QED
    BY <1>1, <1>2, <1>3 DEF Dropped, Typed, TypeOK, tables, browser

LEMMA TypedStep == Typed /\ [Next]_vars => Typed'
  <1> SUFFICES ASSUME Typed, [Next]_vars PROVE Typed'
    OBVIOUS
  <1>1. ASSUME NEW p \in Requests, Step(p)
        PROVE  Typed'
    BY <1>1, CreateUserTyped, ComparePasswordTyped, FindUserTyped, DeleteTokenTyped,
       IssueTyped, AnswerTyped, ForgetTyped, ClearTyped, DroppedTyped DEF Step
  <1>2. ASSUME NEW p \in Requests, NEW u \in Users,
               Setup(p, u) \/ \E b \in Browsers : Login(p, b, u)
        PROVE  Typed'
    BY <1>2, SetupTyped, LoginTyped
  <1>3. ASSUME NEW p \in Requests, NEW b \in Browsers, Refresh(p, b) \/ Logout(p, b)
        PROVE  Typed'
    BY <1>3, RefreshTyped, LogoutTyped
  <1>4. ASSUME NEW b \in Browsers, NEW u \in Users, HandleUser(b, u)
        PROVE  Typed'
    BY <1>4, HandleUserTyped
  <1>5. CASE Elapse
    <2>1. clock' \in Nat /\ access' \subseteq Access
      BY <1>5 DEF Elapse, Typed, TypeOK
    <2> QED
      BY <1>5, <2>1 DEF Elapse, Typed, TypeOK, tables, history
  <1>6. CASE UNCHANGED vars
    BY <1>6 DEF vars, Typed, TypeOK
  <1> QED
    BY <1>1, <1>2, <1>3, <1>4, <1>5, <1>6 DEF Next

LEMMA InitTyped == Init => Typed
  <1> SUFFICES ASSUME Init PROVE Typed
    OBVIOUS
  <1>1. request \in [Requests -> Request]
    BY DEF Init, Request, IdleRequest
  <1>2. raced \in BOOLEAN
    BY Zenon DEF Init
  <1>3. held \in [Users -> [Roles -> Int]]
    BY DEF Init
  <1> QED
    BY <1>1, <1>2, <1>3, NoRawIsRaw, SessionAssumption DEF Init, Typed, TypeOK

(* The tables, the tokens and the requests hold what the Go types and the  *)
(* database allow; a request under way has all that its next call needs.   *)
THEOREM TypeCorrect == Spec => []TypeOK
  <1>1. Typed => TypeOK
    BY DEF Typed
  <1> QED
    BY <1>1, InitTyped, TypedStep, PTL DEF Spec

-----------------------------------------------------------------------------
(* What each step does to its request.                                     *)

Others(p) == \A q \in Requests : q # p => request'[q] = request[q]

SameSession(p) == /\ request'[p].raw = request[p].raw
                  /\ request'[p].browser = request[p].browser

SameFlow(p) == SameSession(p) /\ request'[p].user = request[p].user

LEMMA FinishMoves ==
  ASSUME Typed, NEW p \in Requests, Finish(p)
  PROVE  Others(p) /\ request'[p].pc = "idle"
  BY FinishTyped DEF Others

LEMMA LoginMoves ==
  ASSUME Typed, NEW p \in Requests, NEW b \in Browsers, NEW u \in Users, Login(p, b, u)
  PROVE  /\ Others(p) /\ request'[p].pc = "compare"
         /\ request'[p].user = u /\ Stored(u) /\ request'[p].raw = NoRaw
  BY DEF Login, Goto, Typed, Others

LEMMA SetupMoves ==
  ASSUME Typed, NEW p \in Requests, NEW u \in Users, Setup(p, u)
  PROVE  Others(p) /\ request'[p].pc = "createUser"
  BY DEF Setup, Goto, Typed, Others

(* ComparePassword and DeleteToken, which end in signing the access token  *)
LEMMA SignedMoves ==
  ASSUME Typed, NEW p \in Requests, request[p].pc \in Flow,
         Goto(p, Signed(p, request[p]))
  PROVE  Others(p) /\ request'[p].pc = "issue" /\ SameFlow(p)
  <1>1. request[p] \in FlowRequest
    BY RequestKinds
  <1>2. request'[p] = Signed(p, request[p]) /\ Others(p)
    BY DEF Goto, Typed, Others
  <1> QED
    BY <1>1, <1>2, SignedTyped DEF Signed, SameFlow, SameSession

LEMMA FindUserMoves ==
  ASSUME Typed, NEW p \in Requests, FindUser(p)
  PROVE  /\ Others(p) /\ At(p, "findUser")
         /\ Stored(request[p].user) => request'[p].pc = "deleteToken" /\ SameFlow(p)
         /\ ~Stored(request[p].user) => request'[p].pc = "idle"
  <1>1. request[p] \in FlowRequest
    BY RequestKinds DEF FindUser, At, Flow
  <1>2. CASE Stored(request[p].user)
    <2>1. /\ request'[p] = [request[p] EXCEPT !.pc = "deleteToken", !.read = clock,
                                              !.role = users[request[p].user]]
          /\ Others(p)
      BY <1>2 DEF FindUser, Goto, Typed, Others
    <2> QED
      BY <1>1, <1>2, <2>1 DEF FlowRequest, SameFlow, SameSession, FindUser
  <1>3. CASE ~Stored(request[p].user)
    BY <1>3, FinishMoves DEF FindUser
  <1> QED
    BY <1>2, <1>3

(* The line that a login opens, or that a refresh goes on with             *)
IssuedLine(p) == IF request[p].raw = NoRaw THEN nextId ELSE request[p].raw.line

NewToken(p) == [id |-> nextId, line |-> IssuedLine(p), user |-> request[p].user,
                expires |-> clock + RefreshLife]

LEMMA IssueMoves ==
  ASSUME Typed, NEW p \in Requests, IssueRefreshToken(p)
  PROVE  /\ Others(p) /\ At(p, "issue")
         /\ Stored(request[p].user) =>
              /\ request'[p].pc = "answer"
              /\ request'[p].raw = [id |-> nextId, line |-> IssuedLine(p)]
              /\ request'[p].browser = request[p].browser
              /\ request'[p].user = request[p].user
              /\ tokens' = tokens \cup {NewToken(p)}
              /\ sessions' = sessions \cup
                   {[line |-> IssuedLine(p), user |-> request[p].user]}
              /\ nextId' = nextId + 1
         /\ ~Stored(request[p].user) =>
              request'[p].pc = "idle" /\ UNCHANGED <<tokens, sessions, nextId>>
  <1>1. request[p] \in FlowRequest
    BY RequestKinds DEF IssueRefreshToken, At, Flow
  <1>2. CASE Stored(request[p].user)
    <2>1. /\ Goto(p, [request[p] EXCEPT !.pc = "answer",
                                        !.raw = [id |-> nextId, line |-> IssuedLine(p)]])
          /\ tokens' = tokens \cup {NewToken(p)}
          /\ sessions' = sessions \cup
               {[line |-> IssuedLine(p), user |-> request[p].user]}
          /\ nextId' = nextId + 1
      BY <1>2 DEF IssueRefreshToken, IssuedLine, NewToken
    <2>2. /\ request'[p] = [request[p] EXCEPT !.pc = "answer",
                              !.raw = [id |-> nextId, line |-> IssuedLine(p)]]
          /\ Others(p)
      BY <2>1 DEF Goto, Typed, Others
    <2> QED
      BY <1>1, <1>2, <2>1, <2>2 DEF FlowRequest, IssueRefreshToken
  <1>3. CASE ~Stored(request[p].user)
    BY <1>3, FinishMoves DEF IssueRefreshToken
  <1> QED
    BY <1>2, <1>3

LEMMA RefreshMoves ==
  ASSUME Typed, NEW p \in Requests, NEW b \in Browsers, Refresh(p, b)
  PROVE  /\ At(p, "idle") /\ cookie[b] # NoRaw
         /\ \/ UNCHANGED request
            \/ /\ Others(p) /\ request'[p].pc = "findUser"
               /\ request'[p].browser = b /\ request'[p].raw = cookie[b]
               /\ \E t \in tokens : t.id = cookie[b].id /\ request'[p].user = t.user
  <1>1. ASSUME NEW t \in Exchangeable(cookie[b]),
               Goto(p, [pc |-> "findUser", browser |-> b, user |-> t.user,
                        role |-> "viewer", raw |-> cookie[b], read |-> clock,
                        expires |-> 0])
        PROVE  /\ Others(p) /\ request'[p].pc = "findUser"
               /\ request'[p].browser = b /\ request'[p].raw = cookie[b]
               /\ \E o \in tokens : o.id = cookie[b].id /\ request'[p].user = o.user
    BY <1>1 DEF Goto, Typed, Others, Exchangeable
  <1> QED
    BY <1>1 DEF Refresh, Begin

LEMMA LogoutMoves ==
  ASSUME Typed, NEW p \in Requests, NEW b \in Browsers, Logout(p, b)
  PROVE  /\ At(p, "idle") /\ cookie[b] # NoRaw
         /\ Others(p) /\ request'[p].pc = "forget"
         /\ request'[p].browser = b /\ request'[p].raw = cookie[b]
  BY DEF Logout, Begin, Goto, Typed, Others

LEMMA ForgetMoves ==
  ASSUME Typed, NEW p \in Requests, Forget(p) \/ ForgetFails(p)
  PROVE  At(p, "forget") /\ Others(p) /\ request'[p].pc = "clear" /\ SameSession(p)
  <1>1. request[p] \in LogoutRequest
    BY RequestKinds DEF Forget, ForgetFails, At
  <1>2. request'[p] = [request[p] EXCEPT !.pc = "clear"] /\ Others(p)
    BY DEF Forget, ForgetFails, Goto, Typed, Others
  <1> QED
    BY <1>1, <1>2 DEF LogoutRequest, SameSession, Forget, ForgetFails

-----------------------------------------------------------------------------
(* The set-up.                                                             *)

(* Every flow, after the step, is of a user who was created, ...           *)
FlowsKnown ==
  \A p \in Requests : request'[p].pc \in Flow => Created(request'[p].user)

(* ... and so is every row and access token that is new.                   *)
RowsKnown ==
  /\ \A t \in tokens' : t \in tokens \/ Created(t.user)
  /\ \A a \in access' : a \in access \/ Created(a.user)
  /\ \A s \in sessions' : s \in sessions \/ Created(s.user)

(* Nobody who was created is ever unborn again.                            *)
CreatedStay == \A u \in Users : Created(u) => Created(u)'

LEMMA KnownStep == Known /\ FlowsKnown /\ RowsKnown /\ CreatedStay => Known'
  <1> SUFFICES ASSUME Known, FlowsKnown, RowsKnown, CreatedStay PROVE Known'
    OBVIOUS
  <1>1. \A u : Created(u) => Created(u)'
    BY DEF CreatedStay, Created
  <1>2. \A t \in tokens' : Created(t.user)'
    BY <1>1 DEF Known, RowsKnown
  <1>3. \A a \in access' : Created(a.user)'
    BY <1>1 DEF Known, RowsKnown
  <1>4. \A s \in sessions' : Created(s.user)'
    BY <1>1 DEF Known, RowsKnown
  <1>5. \A p \in Requests : request'[p].pc \in Flow => Created(request[p].user)'
    BY <1>1 DEF FlowsKnown
  <1> QED
    BY <1>2, <1>3, <1>4, <1>5 DEF Known

LEMMA UsersUnchanged == UNCHANGED users => CreatedStay
  BY DEF CreatedStay, Created

LEMMA RowsUnchanged ==
  ASSUME tokens' \subseteq tokens, access' \subseteq access, UNCHANGED sessions
  PROVE  RowsKnown
  BY DEF RowsKnown

LEMMA FlowsStay ==
  ASSUME Known, UNCHANGED request
  PROVE  FlowsKnown
  BY DEF Known, FlowsKnown

LEMMA FlowAdded ==
  ASSUME Known, NEW p \in Requests, Others(p), Created(request'[p].user)
  PROVE  FlowsKnown
  BY DEF Known, FlowsKnown, Others

LEMMA FlowKept ==
  ASSUME Known, NEW p \in Requests, Others(p), SameFlow(p), request[p].pc \in Flow
  PROVE  FlowsKnown
  BY DEF Known, FlowsKnown, Others, SameFlow

LEMMA FlowOver ==
  ASSUME Known, NEW p \in Requests, Others(p),
         request'[p].pc \in {"idle", "createUser", "forget", "clear"}
  PROVE  FlowsKnown
  <1>1. request'[p].pc \notin Flow
    BY DEF Flow
  <1> QED
    BY <1>1 DEF Known, FlowsKnown, Others

LEMMA StoredIsCreated == \A u \in Users : Stored(u) => Created(u)
  BY DEF Stored, Created, Roles

LEMMA KnownNext == Typed /\ Known /\ [Next]_vars => Known'
  <1> SUFFICES ASSUME Typed, Known, [Next]_vars PROVE Known'
    OBVIOUS
  <1>1. ASSUME NEW p \in Requests, NEW u \in Users, Setup(p, u)
        PROVE  Known'
    <2>1. FlowsKnown
      BY <1>1, FlowOver, SetupMoves
    <2> QED
      BY <1>1, <2>1, KnownStep, UsersUnchanged, RowsUnchanged DEF Setup, tables, browser
  <1>2. ASSUME NEW p \in Requests, CreateUser(p)
        PROVE  Known'
    <2>1. FlowsKnown
      BY <1>2, FlowOver, FinishMoves DEF CreateUser
    <2>2. CreatedStay
      BY <1>2 DEF CreatedStay, Created, CreateUser, Typed, TypeOK
    <2> QED
      BY <1>2, <2>1, <2>2, KnownStep, RowsUnchanged DEF CreateUser, browser, history
  <1>3. ASSUME NEW p \in Requests, NEW b \in Browsers, NEW u \in Users, Login(p, b, u)
        PROVE  Known'
    <2>1. FlowsKnown
      BY <1>3, LoginMoves, StoredIsCreated, FlowAdded
    <2> QED
      BY <1>3, <2>1, KnownStep, UsersUnchanged, RowsUnchanged
      DEF Login, tables, browser, history
  <1>4. ASSUME NEW p \in Requests, ComparePassword(p) \/ DeleteToken(p)
        PROVE  Known'
    <2>1. request[p].pc \in Flow /\ Goto(p, Signed(p, request[p]))
      BY <1>4 DEF ComparePassword, DeleteToken, At, Flow
    <2>2. FlowsKnown
      BY <2>1, FlowKept, SignedMoves
    <2>3. tokens' \subseteq tokens /\ UNCHANGED <<users, access, sessions>>
      BY <1>4 DEF ComparePassword, DeleteToken, DeleteByHash, tables, browser, history
    <2> QED
      BY <2>2, <2>3, KnownStep, UsersUnchanged, RowsUnchanged
  <1>5. ASSUME NEW p \in Requests, NEW b \in Browsers, Refresh(p, b)
        PROVE  Known'
    <2>1. CASE UNCHANGED request
      BY <2>1, FlowsStay, <1>5, KnownStep, UsersUnchanged, RowsUnchanged
      DEF Refresh, tables, browser
    <2>2. CASE Others(p) /\ \E t \in tokens : request'[p].user = t.user
      <3>1. FlowsKnown
        BY <2>2, FlowAdded DEF Known
      <3> QED
        BY <3>1, <1>5, KnownStep, UsersUnchanged, RowsUnchanged
        DEF Refresh, tables, browser
    <2> QED
      BY <1>5, <2>1, <2>2, RefreshMoves
  <1>6. ASSUME NEW p \in Requests, FindUser(p)
        PROVE  Known'
    <2>1. FlowsKnown
      <3>1. CASE Stored(request[p].user)
        BY <1>6, <3>1, FlowKept, FindUserMoves DEF Flow, At
      <3>2. CASE ~Stored(request[p].user)
        BY <1>6, <3>2, FlowOver, FindUserMoves
      <3> QED
        BY <3>1, <3>2
    <2> QED
      BY <1>6, <2>1, KnownStep, UsersUnchanged, RowsUnchanged
      DEF FindUser, tables, browser, history
  <1>7. ASSUME NEW p \in Requests, IssueRefreshToken(p)
        PROVE  Known'
    <2>1. Created(request[p].user)
      BY <1>7, IssueMoves DEF Known, Flow, At
    <2>2. FlowsKnown
      <3>1. CASE Stored(request[p].user)
        BY <1>7, <2>1, <3>1, IssueMoves, FlowAdded
      <3>2. CASE ~Stored(request[p].user)
        BY <1>7, <3>2, IssueMoves, FlowOver
      <3> QED
        BY <3>1, <3>2
    <2>3. UNCHANGED <<users, access>>
      BY <1>7 DEF IssueRefreshToken, browser
    <2>4. NewToken(p).user = request[p].user
      BY DEF NewToken
    <2>5. RowsKnown
      <3>1. CASE Stored(request[p].user)
        <4>1. \A t \in tokens' : t \in tokens \/ Created(t.user)
          <5>1. tokens' = tokens \cup {NewToken(p)}
            BY <1>7, <3>1, IssueMoves
          <5>2. \A t \in tokens' : t \in tokens \/ t = NewToken(p)
            BY <5>1
          <5> QED
            BY <2>1, <2>4, <5>2
        <4>2. \A s \in sessions' : s \in sessions \/ s.user = request[p].user
          <5> DEFINE n == [line |-> IssuedLine(p), user |-> request[p].user]
          <5>1. n.user = request[p].user
            OBVIOUS
          <5>2. sessions' = sessions \cup {n}
            BY <1>7, <3>1, IssueMoves
          <5> HIDE DEF n
          <5>3. \A s \in sessions' : s \in sessions \/ s = n
            BY <5>2
          <5> QED
            BY <5>1, <5>3
        <4> QED
          BY <2>1, <2>3, <4>1, <4>2 DEF RowsKnown
      <3>2. CASE ~Stored(request[p].user)
        BY <1>7, <2>3, <3>2, IssueMoves, RowsUnchanged
      <3> QED
        BY <3>1, <3>2
    <2> QED
      BY <2>2, <2>3, <2>5, KnownStep, UsersUnchanged
  <1>8. ASSUME NEW p \in Requests, SetRefreshCookie(p)
        PROVE  Known'
    <2>1. FlowsKnown
      BY <1>8, FlowOver, FinishMoves DEF SetRefreshCookie
    <2>2. Created(request[p].user)
      BY <1>8 DEF Known, SetRefreshCookie, Flow, At
    <2>3. \A a \in access' : a \in access \/ a.user = request[p].user
      BY <1>8 DEF SetRefreshCookie
    <2>4. RowsKnown /\ UNCHANGED users
      BY <1>8, <2>2, <2>3 DEF RowsKnown, SetRefreshCookie, tables, history
    <2> QED
      BY <2>1, <2>4, KnownStep, UsersUnchanged
  <1>9. ASSUME NEW p \in Requests, NEW b \in Browsers, Logout(p, b)
        PROVE  Known'
    <2>1. FlowsKnown
      BY <1>9, FlowOver, LogoutMoves
    <2> QED
      BY <1>9, <2>1, KnownStep, UsersUnchanged, RowsUnchanged DEF Logout, tables, browser
  <1>10. ASSUME NEW p \in Requests, Forget(p) \/ ForgetFails(p)
         PROVE  Known'
    <2>1. FlowsKnown
      BY <1>10, FlowOver, ForgetMoves
    <2>2. tokens' \subseteq tokens /\ UNCHANGED <<users, access, sessions>>
      BY <1>10 DEF Forget, ForgetFails, DeleteByHash, tables, browser
    <2> QED
      BY <2>1, <2>2, KnownStep, UsersUnchanged, RowsUnchanged
  <1>11. ASSUME NEW p \in Requests, ClearCookie(p) \/ Dropped(p)
         PROVE  Known'
    <2>1. Finish(p) /\ UNCHANGED <<users, tokens, access, sessions>>
      BY <1>11 DEF ClearCookie, Dropped, tables, browser, history
    <2>2. FlowsKnown
      BY <2>1, FlowOver, FinishMoves
    <2> QED
      BY <2>1, <2>2, KnownStep, UsersUnchanged, RowsUnchanged
  <1>12. ASSUME NEW b \in Browsers, NEW u \in Users, HandleUser(b, u)
         PROVE  Known'
    <2>1. tokens' \subseteq tokens /\ UNCHANGED <<request, access, sessions>>
      BY <1>12 DEF HandleUser, UpdateRole, DeleteUser, browser
    <2>2. CreatedStay
      BY <1>12 DEF CreatedStay, Created, HandleUser, UpdateRole, DeleteUser,
                   Typed, TypeOK, Roles
    <2> QED
      BY <2>1, <2>2, KnownStep, FlowsStay, RowsUnchanged
  <1>13. CASE Elapse \/ UNCHANGED vars
    <2>1. access' \subseteq access /\ UNCHANGED <<users, tokens, sessions, request>>
      BY <1>13 DEF Elapse, vars, tables, history
    <2> QED
      BY <2>1, KnownStep, FlowsStay, UsersUnchanged, RowsUnchanged
  <1> QED
    BY <1>1, <1>2, <1>3, <1>4, <1>5, <1>6, <1>7, <1>8, <1>9, <1>10, <1>11, <1>12,
       <1>13 DEF Next, Step

(* A step that neither creates nor deletes a user ...                      *)
UsersStay ==
  \A u \in Users : /\ users'[u] = "unborn" <=> users[u] = "unborn"
                   /\ users'[u] = "gone" <=> users[u] = "gone"

(* ... nor begins a set-up: the first set-up stays the only one.           *)
NoSetup == \A p \in Requests : request'[p].pc = "createUser" => At(p, "createUser")

LEMMA NoSetupBegins ==
  /\ UNCHANGED request => NoSetup
  /\ \A p \in Requests : Others(p) /\ request'[p].pc # "createUser" => NoSetup
  BY DEF NoSetup, Others, At

LEMMA UsersAreSame == UNCHANGED users => UsersStay
  BY DEF UsersStay

LEMMA FirstSetupStep ==
  ASSUME FirstSetup, UNCHANGED raced, UsersStay, NoSetup
  PROVE  FirstSetup'
  <1>1. CASE raced
    BY <1>1 DEF FirstSetup
  <1>2. CASE ~raced
    <2>1. \A p, q \in Requests : At(p, "createUser")' /\ At(q, "createUser")' => p = q
      BY <1>2 DEF FirstSetup, At, NoSetup
    <2>2. \A p \in Requests : At(p, "createUser")' => \A u \in Users : users'[u] = "unborn"
      BY <1>2 DEF FirstSetup, At, NoSetup, UsersStay
    <2>3. /\ \A u \in Users : users'[u] # "gone"
          /\ \A u, o \in Users : users'[u] # "unborn" /\ users'[o] # "unborn" => u = o
      BY <1>2 DEF FirstSetup, UsersStay
    <2> QED
      BY <1>2, <2>1, <2>2, <2>3 DEF FirstSetup
  <1> QED
    BY <1>1, <1>2

LEMMA NobodyIsStored ==
  ASSUME SetupRequired
  PROVE  \A u \in Users : ~Stored(u)
  <1> DEFINE S == {u \in Users : Stored(u)}
  <1>1. IsFiniteSet(S)
    BY SessionAssumption, FS_Subset
  <1>2. Cardinality(S) = 0
    BY DEF SetupRequired, Count
  <1>3. S = {}
    BY <1>1, <1>2, FS_EmptySet
  <1> QED
    BY <1>3

LEMMA FirstSetupNext == Typed /\ Known /\ FirstSetup /\ [Next]_vars => FirstSetup'
  <1> SUFFICES ASSUME Typed, Known, FirstSetup, [Next]_vars PROVE FirstSetup'
    OBVIOUS
  <1>1. ASSUME NEW p \in Requests, NEW u \in Users, Setup(p, u)
        PROVE  FirstSetup'
    <2>1. CASE raced'
      BY <2>1 DEF FirstSetup
    <2>2. CASE ~raced'
      <3>1. ~raced /\ \A q \in Requests : ~At(q, "createUser")
        BY <1>1, <2>2 DEF Setup
      <3>2. \A q \in Requests : q # p => request'[q].pc # "createUser"
        BY <1>1, <3>1, SetupMoves DEF Others, At
      <3>3. \A v \in Users : users[v] \notin Roles /\ users[v] # "gone"
        BY <1>1, <3>1, NobodyIsStored DEF Setup, Stored, FirstSetup
      <3>4. \A v \in Users : users[v] = "unborn"
        BY <3>3 DEF Typed, TypeOK
      <3>5. users' = users
        BY <1>1 DEF Setup, tables
      <3> QED
        BY <3>1, <3>2, <3>3, <3>4, <3>5 DEF FirstSetup, At
    <2> QED
      BY <2>1, <2>2
  <1>2. ASSUME NEW p \in Requests, CreateUser(p)
        PROVE  FirstSetup'
    <2>1. raced' = raced /\ At(p, "createUser") /\ Finish(p)
      BY <1>2 DEF CreateUser, history
    <2>2. CASE raced
      BY <2>1, <2>2 DEF FirstSetup
    <2>3. CASE ~raced
      <3>1. request[p].user \in Users
        BY <2>1, RequestKinds DEF SetupRequest
      <3>2. PICK u \in Users : u = request[p].user
        BY <3>1
      <3>3. \A v \in Users : users[v] = "unborn"
        BY <2>1, <2>3 DEF FirstSetup
      <3>4. users' = [users EXCEPT ![u] = "admin"]
        BY <1>2, <3>2, <3>3 DEF CreateUser
      <3>5. \A v \in Users : users'[v] = IF v = u THEN "admin" ELSE "unborn"
        BY <3>3, <3>4 DEF Typed, TypeOK
      <3>6. \A q \in Requests : request'[q].pc # "createUser"
        BY <2>1, <2>3, FinishMoves DEF FirstSetup, Others, At
      <3> QED
        BY <3>5, <3>6 DEF FirstSetup, At
    <2> QED
      BY <2>2, <2>3
  <1>3. ASSUME NEW b \in Browsers, NEW u \in Users, DeleteUser(b, u)
        PROVE  FirstSetup'
    <2>1. PICK a \in access : a.user # u
      BY <1>3 DEF DeleteUser, Claims
    <2>2. users[a.user] # "unborn" /\ a.user \in Users /\ users[u] # "unborn"
      BY <1>3, <2>1 DEF Known, Created, DeleteUser, Stored, Roles
    <2>3. raced
      BY <2>1, <2>2 DEF FirstSetup
    <2> QED
      BY <1>3, <2>3 DEF FirstSetup, DeleteUser
  <1>4. ASSUME NEW b \in Browsers, NEW u \in Users, NEW r \in Roles, UpdateRole(b, u, r)
        PROVE  FirstSetup'
    <2>1. UsersStay
      BY <1>4 DEF UsersStay, UpdateRole, Stored, Roles, Typed, TypeOK
    <2> QED
      BY <1>4, <2>1, FirstSetupStep, NoSetupBegins DEF UpdateRole
  <1>5. ASSUME NEW p \in Requests, Others(p), request'[p].pc # "createUser",
               UNCHANGED <<users, raced>>
        PROVE  FirstSetup'
    BY <1>5, FirstSetupStep, NoSetupBegins, UsersAreSame
  <1>6. ASSUME NEW p \in Requests,
               \/ ComparePassword(p) \/ FindUser(p) \/ DeleteToken(p)
               \/ IssueRefreshToken(p)
        PROVE  FirstSetup'
    <2>1. UNCHANGED <<users, raced>>
      BY <1>6 DEF ComparePassword, FindUser, DeleteToken, IssueRefreshToken, tables, history
    <2>2. CASE ComparePassword(p) \/ DeleteToken(p)
      <3>1. request[p].pc \in Flow /\ Goto(p, Signed(p, request[p]))
        BY <2>2 DEF ComparePassword, DeleteToken, At, Flow
      <3> QED
        BY <1>5, <2>1, <3>1, SignedMoves
    <2>3. CASE FindUser(p)
      BY <1>5, <2>1, <2>3, FindUserMoves
    <2>4. CASE IssueRefreshToken(p)
      BY <1>5, <2>1, <2>4, IssueMoves
    <2> QED
      BY <1>6, <2>2, <2>3, <2>4
  <1>7. ASSUME NEW p \in Requests,
               \/ SetRefreshCookie(p) \/ Forget(p) \/ ForgetFails(p) \/ ClearCookie(p)
               \/ Dropped(p)
        PROVE  FirstSetup'
    <2>1. UNCHANGED <<users, raced>>
      BY <1>7 DEF SetRefreshCookie, Forget, ForgetFails, ClearCookie, Dropped, tables, history
    <2>2. CASE Forget(p) \/ ForgetFails(p)
      BY <1>5, <2>1, <2>2, ForgetMoves
    <2>3. CASE Finish(p)
      BY <1>5, <2>1, <2>3, FinishMoves
    <2> QED
      BY <1>7, <2>2, <2>3 DEF SetRefreshCookie, ClearCookie, Dropped
  <1>8. ASSUME NEW p \in Requests, NEW b \in Browsers, NEW u \in Users, Login(p, b, u)
        PROVE  FirstSetup'
    BY <1>5, <1>8, LoginMoves DEF Login, tables, history
  <1>9. ASSUME NEW p \in Requests, NEW b \in Browsers, Refresh(p, b) \/ Logout(p, b)
        PROVE  FirstSetup'
    <2>1. UNCHANGED <<users, raced>>
      BY <1>9 DEF Refresh, Logout, tables
    <2>2. CASE UNCHANGED request
      BY <2>1, <2>2, FirstSetupStep, NoSetupBegins, UsersAreSame
    <2>3. CASE Others(p) /\ request'[p].pc \in {"findUser", "forget"}
      BY <1>5, <2>1, <2>3
    <2> QED
      BY <1>9, <2>2, <2>3, RefreshMoves, LogoutMoves
  <1>10. CASE Elapse \/ UNCHANGED vars
    BY <1>10, FirstSetupStep, NoSetupBegins, UsersAreSame
    DEF Elapse, vars, tables, history
  <1> QED
    BY <1>1, <1>2, <1>3, <1>4, <1>6, <1>7, <1>8, <1>9, <1>10 DEF Next, Step, HandleUser

(* However requests of the set-up, of administrators and of everybody else *)
(* interleave: unless two set-ups overlapped there is one for good, whose  *)
(* user stays, so that the set-up is never open again.                     *)
THEOREM SetupHappensOnce == Spec => []SetupIsOneTime
  <1>1. Init => Known /\ FirstSetup
    BY DEF Init, Known, FirstSetup, At, Flow
  <1>2. Typed /\ FirstSetup => SetupIsOneTime
    <2> SUFFICES ASSUME Typed, FirstSetup, ~raced, NEW u \in Users, users[u] # "unborn"
                 PROVE  /\ ListUsers = {u} /\ ~SetupRequired
                        /\ \A o \in Users \ {u} : users[o] = "unborn"
      BY DEF SetupIsOneTime
    <2>1. \A o \in Users \ {u} : users[o] = "unborn"
      BY DEF FirstSetup
    <2>2. Stored(u)
      BY DEF FirstSetup, Stored, Typed, TypeOK
    <2>3. ListUsers = {u}
      BY <2>1, <2>2 DEF ListUsers, Stored, Roles
    <2>4. ~SetupRequired
      BY <2>2, NobodyIsStored
    <2> QED
      BY <2>1, <2>3, <2>4
  <1> QED
    BY <1>1, <1>2, InitTyped, TypedStep, KnownNext, FirstSetupNext, PTL DEF Spec

-----------------------------------------------------------------------------
(* Tokens are fresh.                                                       *)

(* What was issued stays issued.                                           *)
IssuedStays == \A raw : NoneOrIssued(raw) => NoneOrIssued(raw)'

IssuedStay == \A raw : Issued(raw) => Issued(raw)'

LEMMA NoneOrIssuedStays == IssuedStay => IssuedStays
  BY DEF IssuedStay, IssuedStays, NoneOrIssued

LEMMA TokensLess ==
  ASSUME Fresh, tokens' \subseteq tokens, UNCHANGED nextId
  PROVE  FreshTokens' /\ IssuedStay
  <1>1. FreshTokens'
    BY DEF Fresh, FreshTokens
  <1>2. IssuedStay
    BY DEF IssuedStay, Issued
  <1> QED
    BY <1>1, <1>2

LEMMA CookiesStay ==
  ASSUME Fresh, IssuedStay, UNCHANGED cookie
  PROVE  FreshCookies'
  <1>1. \A b \in Browsers : NoneOrIssued(cookie[b])
    BY DEF Fresh, FreshCookies
  <1>2. \A b \in Browsers : NoneOrIssued(cookie[b])'
    BY <1>1, NoneOrIssuedStays DEF IssuedStays
  <1> QED
    BY <1>2 DEF FreshCookies

(* One cookie is replaced, or removed.                                     *)
LEMMA CookieSet ==
  ASSUME Typed, Fresh, IssuedStay, NEW b \in Browsers, NEW raw, NoneOrIssued(raw),
         cookie' = [cookie EXCEPT ![b] = raw]
  PROVE  FreshCookies'
  <1> SUFFICES ASSUME NEW c \in Browsers PROVE NoneOrIssued(cookie[c])'
    BY DEF FreshCookies
  <1>1. NoneOrIssued(cookie[c]) /\ cookie'[c] = IF c = b THEN raw ELSE cookie[c]
    BY DEF Fresh, FreshCookies, Typed, TypeOK
  <1>2. PICK old : old = cookie[c] /\ NoneOrIssued(old)
    BY <1>1
  <1>3. PICK new : new = cookie'[c] /\ (new = raw \/ new = old)
    BY <1>1, <1>2
  <1>4. NoneOrIssued(new)
    BY <1>2, <1>3
  <1>5. NoneOrIssued(new)'
    BY <1>4, NoneOrIssuedStays DEF IssuedStays
  <1> QED
    BY <1>3, <1>5

(* Those requests that a step leaves alone are still fresh.                *)
LEMMA RequestsKept ==
  ASSUME Fresh, IssuedStay, NEW q \in Requests, request'[q] = request[q]
  PROVE  FreshRequest(q)'
  <1>1. PICK r : r = request[q] /\ r = request'[q]
    OBVIOUS
  <1>2. FreshRequest(q)
    BY DEF Fresh, FreshRequests
  <1>3. /\ r.pc = "compare" => r.raw = NoRaw
        /\ r.pc = "issue" => NoneOrIssued(r.raw)
        /\ r.pc \in {"findUser", "deleteToken", "answer", "forget", "clear"}
             => Issued(r.raw)
    BY <1>1, <1>2 DEF FreshRequest, At
  <1>4. PICK raw : raw = r.raw
    OBVIOUS
  <1>5. (Issued(raw) => Issued(raw)') /\ (NoneOrIssued(raw) => NoneOrIssued(raw)')
    BY NoneOrIssuedStays DEF IssuedStays, IssuedStay
  <1> QED
    BY <1>1, <1>3, <1>4, <1>5 DEF FreshRequest, At

LEMMA RequestsStay ==
  ASSUME Fresh, IssuedStay, UNCHANGED request
  PROVE  FreshRequests'
  BY RequestsKept DEF FreshRequests

LEMMA RequestSet ==
  ASSUME Fresh, IssuedStay, NEW p \in Requests, Others(p), FreshRequest(p)'
  PROVE  FreshRequests'
  BY RequestsKept DEF FreshRequests, Others

(* A request that has no session (any more)                                *)
LEMMA RequestOver ==
  ASSUME NEW p \in Requests, request'[p].pc \in {"idle", "createUser"}
  PROVE  FreshRequest(p)'
  BY DEF FreshRequest, At

LEMMA RequestIssued ==
  ASSUME NEW p \in Requests, Issued(request[p].raw)',
         request'[p].pc \in {"findUser", "deleteToken", "answer", "forget", "clear"}
  PROVE  FreshRequest(p)'
  BY DEF FreshRequest, At

LEMMA LinesStay ==
  ASSUME Fresh, UNCHANGED <<sessions, ended, nextId>>
  PROVE  FreshLines'
  BY DEF Fresh, FreshLines

(* The exchange of a token that was issued goes on with that token.        *)
LEMMA SameStaysIssued ==
  ASSUME IssuedStay, NEW p \in Requests, Issued(request[p].raw),
         request'[p].raw = request[p].raw
  PROVE  Issued(request[p].raw)'
  <1>1. PICK raw : raw = request[p].raw /\ raw = request'[p].raw
    OBVIOUS
  <1>2. Issued(raw)'
    BY <1>1 DEF IssuedStay
  <1> QED
    BY <1>1, <1>2

(* The id of a new token was never given out; the line is new, or was.     *)
LEMMA IssueFresh ==
  ASSUME Typed, Fresh, NEW p \in Requests, IssueRefreshToken(p), Stored(request[p].user)
  PROVE  /\ FreshTokens' /\ IssuedStay /\ FreshLines'
         /\ IssuedLine(p) \in 1..nextId
         /\ Issued(request[p].raw)'
  <1>1. NoneOrIssued(request[p].raw) /\ nextId \in Nat /\ nextId >= 1
    BY IssueMoves DEF Fresh, FreshRequests, FreshRequest, FreshTokens, Typed, TypeOK
  <1>2. IssuedLine(p) \in 1..nextId
    BY <1>1 DEF IssuedLine, NoneOrIssued, Issued
  <1>3. PICK line, new, s :
          /\ line = IssuedLine(p) /\ new = NewToken(p)
          /\ s = [line |-> IssuedLine(p), user |-> request[p].user]
    OBVIOUS
  <1>4. new.id = nextId /\ new.line = line /\ s.line = line /\ line \in 1..nextId
    BY <1>2, <1>3 DEF NewToken
  <1>5. /\ tokens' = tokens \cup {new} /\ sessions' = sessions \cup {s}
        /\ nextId' = nextId + 1 /\ ended' = ended
        /\ request'[p].raw = [id |-> nextId, line |-> line]
    BY <1>3, IssueMoves DEF IssueRefreshToken
  <1>6. \A t \in tokens : t.id \in 1..(nextId - 1) /\ t.line \in 1..(nextId - 1)
    BY DEF Fresh, FreshTokens
  <1>7. FreshTokens'
    <2>1. \A t \in tokens' : t.id \in 1..nextId /\ t.line \in 1..nextId
      BY <1>1, <1>4, <1>5, <1>6
    <2>2. \A t \in tokens : t.id # new.id
      BY <1>1, <1>4, <1>6
    <2>3. \A t, o \in tokens' : t.id = o.id => t = o
      BY <1>5, <2>2 DEF Fresh, FreshTokens
    <2>4. nextId' >= 1 /\ nextId' - 1 = nextId
      BY <1>1, <1>5
    <2> QED
      BY <2>1, <2>3, <2>4 DEF FreshTokens
  <1>8. IssuedStay
    <2> SUFFICES ASSUME NEW raw, Issued(raw) PROVE Issued(raw)'
      BY DEF IssuedStay
    <2>1. raw.id \in 1..(nextId - 1) /\ raw.line \in 1..(nextId - 1)
      BY DEF Issued
    <2>2. new.id # raw.id
      BY <1>1, <1>4, <2>1
    <2>3. \A t \in tokens' : t.id = raw.id => t.line = raw.line
      BY <1>5, <2>2 DEF Issued
    <2>4. raw.id \in 1..(nextId' - 1) /\ raw.line \in 1..(nextId' - 1)
      BY <1>1, <1>5, <2>1
    <2> QED
      BY <2>3, <2>4 DEF Issued
  <1>9. FreshLines'
    <2>1. \A l \in 1..(nextId - 1) : l \in 1..(nextId' - 1)
      BY <1>1, <1>5
    <2>2. s.line \in 1..(nextId' - 1)
      BY <1>1, <1>4, <1>5
    <2>3. \A x \in sessions : x.line \in 1..(nextId - 1)
      BY DEF Fresh, FreshLines
    <2>4. \A x \in sessions' : x.line \in 1..(nextId' - 1)
      BY <1>5, <2>1, <2>2, <2>3
    <2>5. ended' \subseteq 1..(nextId' - 1)
      BY <1>5, <2>1 DEF Fresh, FreshLines
    <2> QED
      BY <2>4, <2>5 DEF FreshLines
  <1>10. Issued(request[p].raw)'
    <2>1. request'[p].raw.id = nextId /\ request'[p].raw.line = line
      BY <1>5
    <2>2. nextId \in 1..(nextId' - 1) /\ line \in 1..(nextId' - 1)
      BY <1>1, <1>4, <1>5
    <2>3. \A t \in tokens : t.id # nextId
      BY <1>1, <1>6
    <2>4. \A t \in tokens' : t.id = nextId => t.line = line
      BY <1>4, <1>5, <2>3
    <2> QED
      BY <2>1, <2>2, <2>4 DEF Issued
  <1> QED
    BY <1>2, <1>7, <1>8, <1>9, <1>10

LEMMA FreshNext == Typed /\ Fresh /\ [Next]_vars => Fresh'
  <1> SUFFICES ASSUME Typed, Fresh, [Next]_vars PROVE Fresh'
    OBVIOUS
  <1>1. ASSUME tokens' \subseteq tokens, UNCHANGED <<nextId, cookie, sessions, ended>>,
               UNCHANGED request
        PROVE  Fresh'
    BY <1>1, TokensLess, CookiesStay, RequestsStay, LinesStay DEF Fresh
  <1>2. ASSUME tokens' \subseteq tokens, UNCHANGED <<nextId, cookie, sessions, ended>>,
               NEW p \in Requests, Others(p), FreshRequest(p)'
        PROVE  Fresh'
    BY <1>2, TokensLess, CookiesStay, RequestSet, LinesStay DEF Fresh
  <1>3. ASSUME NEW p \in Requests, NEW u \in Users, Setup(p, u)
        PROVE  Fresh'
    BY <1>2, <1>3, SetupMoves, RequestOver DEF Setup, tables, browser
  <1>4. ASSUME NEW p \in Requests, CreateUser(p) \/ Dropped(p)
        PROVE  Fresh'
    <2>1. Finish(p) /\ UNCHANGED <<tokens, nextId, cookie, sessions, ended>>
      BY <1>4 DEF CreateUser, Dropped, tables, browser, history
    <2> QED
      BY <1>2, <2>1, FinishMoves, RequestOver
  <1>5. ASSUME NEW p \in Requests, NEW b \in Browsers, NEW u \in Users, Login(p, b, u)
        PROVE  Fresh'
    <2>1. FreshRequest(p)'
      BY <1>5, LoginMoves DEF FreshRequest, At
    <2> QED
      BY <1>2, <1>5, <2>1, LoginMoves DEF Login, tables, browser, history
  <1>6. ASSUME NEW p \in Requests, ComparePassword(p) \/ DeleteToken(p)
        PROVE  Fresh'
    <2>1. request[p].pc \in {"compare", "deleteToken"} /\ Goto(p, Signed(p, request[p]))
      BY <1>6 DEF ComparePassword, DeleteToken, At
    <2>2. /\ tokens' \subseteq tokens /\ UNCHANGED <<nextId, cookie, sessions, ended>>
      BY <1>6 DEF ComparePassword, DeleteToken, DeleteByHash, tables, browser, history
    <2>3. Others(p) /\ request'[p].pc = "issue" /\ request'[p].raw = request[p].raw
      BY <2>1, SignedMoves DEF Flow, SameFlow, SameSession
    <2>4. NoneOrIssued(request[p].raw)
      BY <2>1 DEF Fresh, FreshRequests, FreshRequest, NoneOrIssued, At
    <2>5. PICK raw : raw = request[p].raw /\ raw = request'[p].raw
      BY <2>3
    <2>6. NoneOrIssued(raw)'
      BY <2>2, <2>4, <2>5, TokensLess, NoneOrIssuedStays DEF IssuedStays
    <2>7. FreshRequest(p)'
      BY <2>3, <2>5, <2>6 DEF FreshRequest, At
    <2> QED
      BY <1>2, <2>2, <2>3, <2>7
  <1>7. ASSUME NEW p \in Requests, NEW b \in Browsers, Refresh(p, b) \/ Logout(p, b)
        PROVE  Fresh'
    <2>1. UNCHANGED <<tokens, nextId, cookie, sessions, ended>> /\ cookie[b] # NoRaw
      BY <1>7 DEF Refresh, Logout, tables, browser
    <2>2. CASE UNCHANGED request
      BY <1>1, <2>1, <2>2
    <2>3. CASE /\ Others(p) /\ request'[p].pc \in {"findUser", "forget"}
               /\ request'[p].raw = cookie[b]
      <3>1. Issued(cookie[b])
        BY <2>1 DEF Fresh, FreshCookies, NoneOrIssued
      <3>2. PICK raw : raw = cookie[b] /\ raw = request'[p].raw
        BY <2>3
      <3>3. Issued(raw)'
        BY <2>1, <3>1, <3>2, TokensLess DEF IssuedStay
      <3>4. FreshRequest(p)'
        BY <2>3, <3>2, <3>3, RequestIssued
      <3> QED
        BY <1>2, <2>1, <2>3, <3>4
    <2> QED
      BY <1>7, <2>2, <2>3, RefreshMoves, LogoutMoves
  <1>8. ASSUME NEW p \in Requests, FindUser(p)
        PROVE  Fresh'
    <2>1. UNCHANGED <<tokens, nextId, cookie, sessions, ended>>
      BY <1>8 DEF FindUser, tables, browser, history
    <2>2. Issued(request[p].raw)
      BY <1>8, FindUserMoves DEF Fresh, FreshRequests, FreshRequest, At
    <2>3. CASE Stored(request[p].user)
      <3>1. Issued(request[p].raw)'
        BY <1>8, <2>1, <2>2, <2>3, FindUserMoves, TokensLess, SameStaysIssued
        DEF SameFlow, SameSession
      <3> QED
        BY <1>2, <1>8, <2>1, <2>3, <3>1, FindUserMoves, RequestIssued
    <2>4. CASE ~Stored(request[p].user)
      BY <1>2, <1>8, <2>1, <2>4, FindUserMoves, RequestOver
    <2> QED
      BY <2>3, <2>4
  <1>9. ASSUME NEW p \in Requests, IssueRefreshToken(p)
        PROVE  Fresh'
    <2>1. UNCHANGED <<cookie, ended>>
      BY <1>9 DEF IssueRefreshToken, browser
    <2>2. CASE Stored(request[p].user)
      <3>1. FreshTokens' /\ IssuedStay /\ FreshLines' /\ Issued(request[p].raw)'
        BY <1>9, <2>2, IssueFresh
      <3>2. FreshRequest(p)' /\ Others(p)
        BY <1>9, <2>2, <3>1, IssueMoves, RequestIssued
      <3> QED
        BY <2>1, <3>1, <3>2, CookiesStay, RequestSet DEF Fresh
    <2>3. CASE ~Stored(request[p].user)
      BY <1>2, <1>9, <2>1, <2>3, IssueMoves, RequestOver
    <2> QED
      BY <2>2, <2>3
  <1>10. ASSUME NEW p \in Requests, SetRefreshCookie(p) \/ ClearCookie(p)
         PROVE  Fresh'
    <2>1. UNCHANGED <<tokens, nextId, sessions, ended>> /\ Finish(p)
      BY <1>10 DEF SetRefreshCookie, ClearCookie, tables, history
    <2>2. request[p].browser \in Browsers
      BY <1>10, RequestKinds DEF SetRefreshCookie, ClearCookie, FlowRequest,
         LogoutRequest, At, Flow
    <2>3. PICK b \in Browsers : b = request[p].browser
      BY <2>2
    <2>4. CASE SetRefreshCookie(p)
      <3>1. PICK raw : raw = request[p].raw
        OBVIOUS
      <3>2. NoneOrIssued(raw)
        BY <2>4, <3>1 DEF SetRefreshCookie, Fresh, FreshRequests, FreshRequest,
                          NoneOrIssued, At
      <3>3. cookie' = [cookie EXCEPT ![b] = raw]
        BY <2>3, <2>4, <3>1 DEF SetRefreshCookie
      <3> QED
        BY <2>1, <3>2, <3>3, TokensLess, CookieSet, FinishMoves, RequestOver,
           RequestSet, LinesStay DEF Fresh
    <2>5. CASE ClearCookie(p)
      <3>1. cookie' = [cookie EXCEPT ![b] = NoRaw]
        BY <2>3, <2>5 DEF ClearCookie
      <3>2. NoneOrIssued(NoRaw)
        BY DEF NoneOrIssued
      <3> QED
        BY <2>1, <3>1, <3>2, TokensLess, CookieSet, FinishMoves, RequestOver,
           RequestSet, LinesStay DEF Fresh
    <2> QED
      BY <1>10, <2>4, <2>5
  <1>11. ASSUME NEW p \in Requests, Forget(p) \/ ForgetFails(p)
         PROVE  Fresh'
    <2>1. /\ tokens' \subseteq tokens /\ UNCHANGED <<nextId, cookie, sessions>>
          /\ ended' \subseteq ended \cup {request[p].raw.line}
      BY <1>11 DEF Forget, ForgetFails, DeleteByHash, tables, browser
    <2>2. Issued(request[p].raw)
      BY <1>11, ForgetMoves DEF Fresh, FreshRequests, FreshRequest, At
    <2>3. FreshRequest(p)' /\ Others(p)
      BY <1>11, <2>1, <2>2, ForgetMoves, TokensLess, SameStaysIssued, RequestIssued
      DEF SameSession
    <2>4. FreshLines'
      BY <2>1, <2>2 DEF Fresh, FreshLines, Issued
    <2> QED
      BY <2>1, <2>3, <2>4, TokensLess, CookiesStay, RequestSet DEF Fresh
  <1>12. ASSUME NEW b \in Browsers, NEW u \in Users, HandleUser(b, u)
         PROVE  Fresh'
    BY <1>1, <1>12 DEF HandleUser, UpdateRole, DeleteUser, browser
  <1>13. CASE Elapse \/ UNCHANGED vars
    BY <1>1, <1>13 DEF Elapse, vars, tables, history
  <1> QED
    BY <1>3, <1>4, <1>5, <1>6, <1>7, <1>8, <1>9, <1>10, <1>11, <1>12, <1>13
    DEF Next, Step

-----------------------------------------------------------------------------
(* Lines of tokens.                                                        *)

(* A step that does not touch a line: its tokens and requests stay, no     *)
(* cookie and no session becomes of the line, no user of it is created.    *)
TokensKept(line) == TokensOf(line)' = TokensOf(line)

CookiesKept(line) ==
  \A b \in Browsers : cookie'[b].line = line => cookie'[b] = cookie[b]

RequestKept(p, line) ==
  \/ request'[p] = request[p]
  \/ LineOf(p) # line /\ LineOf(p)' # line

RequestsUntouched(line) == \A p \in Requests : RequestKept(p, line)

SessionsKept(line) ==
  \A s \in sessions' : s.line = line =>
    s \in sessions /\ (users'[s.user] \in Roles => Stored(s.user))

EndedKept(line) == line \in ended' <=> line \in ended

Untouched(line) == /\ TokensKept(line) /\ CookiesKept(line) /\ RequestsUntouched(line)
                   /\ SessionsKept(line) /\ EndedKept(line)

LEMMA LineOfSame ==
  ASSUME NEW p \in Requests, request'[p] = request[p]
  PROVE  LineOf(p)' = LineOf(p)
  BY DEF LineOf

LEMMA UntouchedRequests ==
  ASSUME NEW line, RequestsUntouched(line)
  PROVE  /\ \A p \in Requests : LineOf(p)' = line <=> LineOf(p) = line
         /\ \A p \in Requests : LineOf(p) = line => request'[p] = request[p]
         /\ Quiet(line)' <=> Quiet(line)
  <1>1. ASSUME NEW p \in Requests
        PROVE  /\ LineOf(p)' = line <=> LineOf(p) = line
               /\ LineOf(p) = line => request'[p] = request[p]
    <2>1. RequestKept(p, line)
      BY DEF RequestsUntouched
    <2> QED
      BY <2>1, LineOfSame DEF RequestKept
  <1> QED
    BY <1>1 DEF Quiet

LEMMA UntouchedStep ==
  ASSUME NEW line, Orderly(line), Untouched(line)
  PROVE  Orderly(line)'
  <1>1. /\ \A p \in Requests : LineOf(p)' = line <=> LineOf(p) = line
        /\ \A p \in Requests : LineOf(p) = line => request'[p] = request[p]
        /\ Quiet(line)' <=> Quiet(line)
        /\ TokensOf(line)' = TokensOf(line)
        /\ \A b \in Browsers : cookie'[b].line = line => cookie'[b] = cookie[b]
        /\ line \in ended' <=> line \in ended
    BY UntouchedRequests DEF Untouched, TokensKept, CookiesKept, EndedKept
  <1>2. OneRequest(line)'
    BY <1>1 DEF Orderly, OneRequest
  <1>3. OneBrowser(line)'
    BY <1>1 DEF Orderly, OneBrowser
  <1>4. OneToken(line)'
    BY <1>1 DEF Orderly, OneToken
  <1>5. OneUser(line)'
    BY <1>1 DEF Orderly, OneUser, Untouched, SessionsKept
  <1>6. NeedsToken(line) => NeedsToken(line)'
    BY <1>1 DEF NeedsToken, Untouched, SessionsKept, Stored
  <1>7. ASSUME Quiet(line)'
        PROVE  Resting(line)'
    <2>1. Resting(line)
      BY <1>1, <1>7 DEF Orderly
    <2>2. NeedsToken(line)' \/ line \in ended
      BY <1>6, <2>1 DEF Resting
    <2>3. \A b \in Browsers : cookie'[b].line = line => AtMost(line, cookie[b].id)'
      BY <1>1, <2>1 DEF Resting, AtMost
    <2>4. line \in ended => /\ TokensOf(line)' = {}
                            /\ \A b \in Browsers : cookie'[b].line # line
      BY <1>1, <2>1 DEF Resting
    <2> QED
      BY <1>1, <2>2, <2>3, <2>4 DEF Resting
  <1>8. ASSUME NEW p \in Requests, LineOf(p)' = line
        PROVE  Stage(p, line)'
    <2>1. Stage(p, line) /\ request'[p] = request[p]
      BY <1>1, <1>8 DEF Orderly
    <2> QED
      BY <1>1, <1>6, <2>1 DEF Stage, AtMost, SameCookie, At
  <1> QED
    BY <1>2, <1>3, <1>4, <1>5, <1>7, <1>8 DEF Orderly

(* A step of the only request of a line                                    *)
LEMMA OwnStep ==
  ASSUME NEW line, NEW p \in Requests, Others(p),
         \A q \in Requests : q # p => LineOf(q) # line,
         \A b, c \in Browsers : cookie'[b].line = line /\ cookie'[c].line = line => b = c,
         LineOf(p)' = line =>
           \A b \in Browsers : cookie'[b].line = line => request'[p].browser = b,
         OneToken(line)', OneUser(line)',
         LineOf(p)' = line => Stage(p, line)',
         LineOf(p)' # line => Resting(line)'
  PROVE  Orderly(line)'
  <1>1. \A q \in Requests : LineOf(q)' = line => q = p
    BY LineOfSame DEF Others
  <1>2. OneRequest(line)'
    BY <1>1 DEF OneRequest
  <1>3. OneBrowser(line)'
    BY <1>1 DEF OneBrowser
  <1>4. Quiet(line)' => Resting(line)'
    BY DEF Quiet
  <1>5. \A q \in Requests : LineOf(q)' = line => Stage(q, line)'
    BY <1>1
  <1> QED
    BY <1>2, <1>3, <1>4, <1>5 DEF Orderly

LEMMA LineMoves ==
  ASSUME NEW p \in Requests
  PROVE  /\ request[p].pc \in {"idle", "createUser", "compare"} => LineOf(p) = 0
         /\ request[p].pc \notin {"idle", "createUser", "compare"}
              => LineOf(p) = request[p].raw.line
         /\ request'[p].pc \in {"idle", "createUser", "compare"} => LineOf(p)' = 0
         /\ request'[p].pc \notin {"idle", "createUser", "compare"}
              => LineOf(p)' = request'[p].raw.line
  BY DEF LineOf

LEMMA TouchesNot ==
  ASSUME NEW line, NEW p \in Requests, Others(p), LineOf(p) # line, LineOf(p)' # line
  PROVE  RequestsUntouched(line)
  BY DEF RequestsUntouched, RequestKept, Others

LEMMA KeptSame ==
  ASSUME NEW line
  PROVE  /\ UNCHANGED tokens => TokensKept(line)
         /\ UNCHANGED cookie => CookiesKept(line)
         /\ UNCHANGED request => RequestsUntouched(line)
         /\ UNCHANGED <<users, sessions>> => SessionsKept(line)
         /\ UNCHANGED ended => EndedKept(line)
  BY DEF TokensKept, TokensOf, CookiesKept, RequestsUntouched, RequestKept, SessionsKept,
         Stored, EndedKept

LEMMA DeletedElsewhere ==
  ASSUME NEW line, NEW raw, Issued(raw), raw.line # line, DeleteByHash(raw)
  PROVE  TokensKept(line)
  BY DEF Issued, DeleteByHash, TokensKept, TokensOf

LEMMA OnlyOne ==
  ASSUME NEW line, Orderly(line), NEW p \in Requests, LineOf(p) = line
  PROVE  /\ \A q \in Requests : q # p => LineOf(q) # line
         /\ Stage(p, line)
         /\ \A b \in Browsers : cookie[b].line = line => request[p].browser = b
         /\ \A b, c \in Browsers : cookie[b].line = line /\ cookie[c].line = line => b = c
         /\ OneToken(line) /\ OneUser(line)
  BY DEF Orderly, OneRequest, OneBrowser

(* Steps of no line: the set-up, the beginning of a login, the clock, ...  *)
LEMMA LinelessStep ==
  ASSUME NEW line \in Nat \ {0}, Orderly(line), NEW p \in Requests, Others(p),
         LineOf(p) = 0, LineOf(p)' = 0,
         UNCHANGED <<tokens, cookie, sessions, ended>>, SessionsKept(line)
  PROVE  Orderly(line)'
  BY TouchesNot, KeptSame, UntouchedStep DEF Untouched

LEMMA LinelessNext ==
  ASSUME Typed, Known, Fresh, NEW line \in Nat \ {0}, Orderly(line), NEW p \in Requests,
         \/ \E u \in Users : Setup(p, u) \/ \E b \in Browsers : Login(p, b, u)
         \/ CreateUser(p) \/ ComparePassword(p)
  PROVE  Orderly(line)'
  <1>1. ASSUME NEW u \in Users, Setup(p, u)
        PROVE  Orderly(line)'
    <2>1. LineOf(p) = 0 /\ LineOf(p)' = 0
      BY <1>1, SetupMoves, LineMoves DEF Setup, Begin, At
    <2> QED
      BY <1>1, <2>1, SetupMoves, KeptSame, LinelessStep DEF Setup, tables, browser
  <1>2. ASSUME NEW b \in Browsers, NEW u \in Users, Login(p, b, u)
        PROVE  Orderly(line)'
    <2>1. LineOf(p) = 0 /\ LineOf(p)' = 0
      BY <1>2, LoginMoves, LineMoves DEF Login, Begin, At
    <2> QED
      BY <1>2, <2>1, LoginMoves, KeptSame, LinelessStep
      DEF Login, tables, browser, history
  <1>3. CASE CreateUser(p)
    <2>1. LineOf(p) = 0 /\ LineOf(p)' = 0 /\ Others(p)
      BY <1>3, FinishMoves, LineMoves DEF CreateUser, At
    <2>2. \A u \in Users : Created(u) => users'[u] = users[u]
      BY <1>3 DEF CreateUser, Created, Typed, TypeOK
    <2>3. sessions' = sessions /\ \A s \in sessions : s.user \in Users /\ Created(s.user)
      BY <1>3 DEF CreateUser, history, Known, Created
    <2>4. SessionsKept(line)
      BY <2>2, <2>3 DEF SessionsKept, Stored
    <2> QED
      BY <1>3, <2>1, <2>4, LinelessStep DEF CreateUser, browser, history
  <1>4. CASE ComparePassword(p)
    <2>1. /\ Others(p) /\ request'[p].pc = "issue"
          /\ request'[p].raw = request[p].raw
      BY <1>4, SignedMoves DEF ComparePassword, At, Flow, SameFlow, SameSession
    <2>2. request[p].raw = NoRaw
      BY <1>4 DEF ComparePassword, Fresh, FreshRequests, FreshRequest
    <2>3. LineOf(p) = 0 /\ LineOf(p)' = 0
      BY <1>4, <2>1, <2>2, LineMoves, NoRawIsRaw DEF ComparePassword, At
    <2> QED
      BY <1>4, <2>1, <2>3, KeptSame, LinelessStep
      DEF ComparePassword, tables, browser, history
  <1> QED
    BY <1>1, <1>2, <1>3, <1>4

LEMMA WorldNext ==
  ASSUME Typed, Known, NEW line \in Nat \ {0}, Orderly(line),
         \/ Elapse \/ UNCHANGED vars
         \/ \E b \in Browsers, u \in Users, r \in Roles : UpdateRole(b, u, r)
  PROVE  Orderly(line)'
  <1>1. UNCHANGED <<tokens, cookie, request, sessions, ended>>
    BY DEF Elapse, vars, UpdateRole, tables, browser, history
  <1>2. SessionsKept(line)
    <2>1. CASE UNCHANGED users
      BY <1>1, <2>1, KeptSame
    <2>2. ASSUME NEW b \in Browsers, NEW u \in Users, NEW r \in Roles, UpdateRole(b, u, r)
          PROVE  SessionsKept(line)
      <3>1. \A v \in Users : users'[v] \in Roles => Stored(v)
        BY <2>2 DEF UpdateRole, Stored, Typed, TypeOK
      <3>2. \A s \in sessions : s.user \in Users
        BY DEF Known, Created
      <3> QED
        BY <1>1, <3>1, <3>2 DEF SessionsKept
    <2> QED
      BY <2>1, <2>2 DEF Elapse, vars, tables
  <1> QED
    BY <1>1, <1>2, KeptSame, UntouchedStep DEF Untouched

(* The tokens of a user go with the user.                                  *)
LEMMA DeleteUserNext ==
  ASSUME Typed, NEW line \in Nat \ {0}, Orderly(line), NEW b \in Browsers,
         NEW u \in Users, DeleteUser(b, u)
  PROVE  Orderly(line)'
  <1>1. /\ UNCHANGED <<cookie, request, sessions, ended>>
        /\ tokens' = {t \in tokens : t.user # u}
    BY DEF DeleteUser, browser
  <1>2. \A v \in Users : users'[v] \in Roles => v # u /\ Stored(v)
    BY DEF DeleteUser, Stored, Roles, Typed, TypeOK
  <1>3. \A t \in TokensOf(line)' : t \in TokensOf(line)
    BY <1>1 DEF TokensOf
  <1>4. \A t \in TokensOf(line) : t.user # u => t \in TokensOf(line)'
    BY <1>1 DEF TokensOf
  <1>5. NeedsToken(line) => NeedsToken(line)'
    <2> SUFFICES ASSUME NeedsToken(line), NEW s \in sessions, s.line = line,
                        users'[s.user] \in Roles
                 PROVE  TokensOf(line)' # {}
      BY <1>1 DEF NeedsToken, Stored
    <2>1. s.user # u /\ Stored(s.user)
      BY <1>2 DEF Typed, TypeOK
    <2>2. PICK t \in TokensOf(line) : t.user = s.user
      BY <2>1 DEF NeedsToken, Orderly, OneUser
    <2> QED
      BY <1>4, <2>1, <2>2
  <1>6. \A p \in Requests : LineOf(p)' = LineOf(p)
    BY <1>1 DEF LineOf
  <1>7. OneRequest(line)' /\ OneBrowser(line)' /\ OneToken(line)'
    BY <1>1, <1>3, <1>6 DEF Orderly, OneRequest, OneBrowser, OneToken
  <1>8. OneUser(line)'
    BY <1>1, <1>3, <1>6 DEF Orderly, OneUser
  <1>9. Quiet(line)' => Resting(line)'
    BY <1>1, <1>3, <1>5, <1>6 DEF Orderly, Quiet, Resting, AtMost
  <1>10. ASSUME NEW p \in Requests, LineOf(p)' = line
         PROVE  Stage(p, line)'
    <2>1. Stage(p, line)
      BY <1>6, <1>10 DEF Orderly
    <2> QED
      BY <1>1, <1>3, <1>5, <2>1 DEF Stage, AtMost, SameCookie, At
  <1> QED
    BY <1>7, <1>8, <1>9, <1>10 DEF Orderly

(* A request of the session that a cookie belongs to begins.               *)
LEMMA BeginNext ==
  ASSUME Typed, Fresh, NEW line \in Nat \ {0}, Orderly(line), line \notin disturbed',
         NEW p \in Requests, NEW b \in Browsers, Refresh(p, b) \/ Logout(p, b)
  PROVE  Orderly(line)'
  <1>1. /\ UNCHANGED <<users, tokens, cookie, sessions, ended>>
        /\ disturbed' = disturbed \cup Disturbs(cookie[b].line)
    BY DEF Refresh, Logout, tables, browser
  <1>2. LineOf(p) = 0 /\ cookie[b] # NoRaw
    BY RefreshMoves, LogoutMoves, LineMoves DEF At
  <1>3. CASE UNCHANGED request
    BY <1>1, <1>3, KeptSame, UntouchedStep DEF Untouched
  <1>4. CASE ~UNCHANGED request
    <2>1. /\ Others(p) /\ request'[p].pc \in {"findUser", "forget"}
          /\ request'[p].browser = b /\ request'[p].raw = cookie[b]
          /\ request'[p].pc = "findUser" =>
               \E t \in tokens : t.id = cookie[b].id /\ request'[p].user = t.user
      BY <1>4, RefreshMoves, LogoutMoves
    <2>2. LineOf(p)' = cookie[b].line
      BY <2>1, LineMoves
    <2>3. CASE cookie[b].line # line
      BY <1>1, <1>2, <2>1, <2>2, <2>3, TouchesNot, KeptSame, UntouchedStep DEF Untouched
    <2>4. CASE cookie[b].line = line
      <3>1. Quiet(line)
        BY <1>1, <2>4 DEF Disturbs
      <3>2. Resting(line) /\ OneBrowser(line) /\ OneToken(line) /\ OneUser(line)
        BY <3>1 DEF Orderly
      <3>3. line \notin ended
        BY <2>4, <3>2 DEF Resting
      <3>4. AtMost(line, cookie[b].id)
        BY <2>4, <3>2 DEF Resting
      <3>5. \A c \in Browsers : cookie[c].line = line => c = b
        BY <2>4, <3>2 DEF OneBrowser
      <3>6. Stage(p, line)'
        <4>1. AtMost(line, request[p].raw.id)' /\ SameCookie(line, request[p].raw.id)'
          BY <1>1, <2>1, <3>4, <3>5 DEF AtMost, TokensOf, SameCookie
        <4> QED
          BY <1>1, <2>1, <3>3, <4>1 DEF Stage, At
      <3>7. OneToken(line)'
        BY <1>1, <3>2 DEF OneToken, TokensOf
      <3>8. OneUser(line)'
        <4>1. Issued(cookie[b])
          BY <1>2 DEF Fresh, FreshCookies, NoneOrIssued
        <4>2. \A t \in tokens : t.id = cookie[b].id => t \in TokensOf(line)
          BY <2>4, <4>1 DEF Issued, TokensOf
        <4>3. \A s \in sessions : s.line = line => \A t \in TokensOf(line) : t.user = s.user
          BY <3>2 DEF OneUser
        <4>4. \A s \in sessions : s.line = line /\ request'[p].pc \in Flow
                                  => request'[p].user = s.user
          BY <2>1, <4>2, <4>3 DEF Flow
        <4>5. \A q \in Requests : LineOf(q)' = line => q = p
          BY <2>1, <3>1, LineOfSame DEF Others, Quiet
        <4> QED
          BY <1>1, <4>3, <4>4, <4>5 DEF OneUser, TokensOf
      <3> QED
        BY <1>1, <2>1, <2>2, <2>4, <3>1, <3>5, <3>6, <3>7, <3>8, OwnStep DEF Quiet
    <2> QED
      BY <2>3, <2>4
  <1> QED
    BY <1>3, <1>4

LEMMA FindUserNext ==
  ASSUME Typed, Fresh, NEW line \in Nat \ {0}, Orderly(line), NEW p \in Requests, FindUser(p)
  PROVE  Orderly(line)'
  <1>1. UNCHANGED <<users, tokens, cookie, sessions, ended>>
    BY DEF FindUser, tables, browser, history
  <1>2. Others(p) /\ request[p].pc = "findUser" /\ LineOf(p) = request[p].raw.line
    BY FindUserMoves, LineMoves DEF At
  <1>3. LineOf(p)' = line => LineOf(p) = line
    <2>1. CASE Stored(request[p].user)
      BY <1>2, <2>1, FindUserMoves, LineMoves DEF SameFlow, SameSession
    <2>2. CASE ~Stored(request[p].user)
      BY <2>2, FindUserMoves, LineMoves
    <2> QED
      BY <2>1, <2>2
  <1>4. CASE LineOf(p) # line
    BY <1>1, <1>2, <1>3, <1>4, TouchesNot, KeptSame, UntouchedStep DEF Untouched
  <1>5. CASE LineOf(p) = line
    <2>1. /\ Stage(p, line) /\ OneToken(line) /\ OneUser(line)
          /\ \A q \in Requests : q # p => LineOf(q) # line
          /\ \A c \in Browsers : cookie[c].line = line => request[p].browser = c
          /\ \A b, c \in Browsers : cookie[b].line = line /\ cookie[c].line = line => b = c
      BY <1>5, OnlyOne
    <2>2. /\ AtMost(line, request[p].raw.id) /\ SameCookie(line, request[p].raw.id)
          /\ line \notin ended
      BY <1>2, <2>1 DEF Stage, At
    <2>3. OneToken(line)'
      BY <1>1, <2>1 DEF OneToken, TokensOf
    <2>4. \A s \in sessions : s.line = line => request[p].user = s.user
      BY <1>2, <1>5, <2>1 DEF OneUser, Flow
    <2>5. \A q \in Requests : LineOf(q)' = line => q = p
      BY <1>2, <2>1, LineOfSame DEF Others
    <2>6. CASE Stored(request[p].user)
      <3>1. request'[p].pc = "deleteToken" /\ SameFlow(p)
        BY <2>6, FindUserMoves
      <3>2. LineOf(p)' = line
        BY <1>2, <1>5, <3>1, LineMoves DEF SameFlow, SameSession
      <3>3. Stage(p, line)'
        BY <1>1, <2>2, <3>1
        DEF Stage, AtMost, TokensOf, SameCookie, At, SameFlow, SameSession
      <3>4. OneUser(line)'
        BY <1>1, <2>1, <2>4, <2>5, <3>1 DEF OneUser, TokensOf, SameFlow
      <3> QED
        BY <1>1, <1>2, <2>1, <2>3, <3>1, <3>2, <3>3, <3>4, OwnStep
        DEF SameFlow, SameSession
    <2>7. CASE ~Stored(request[p].user)
      <3>1. request'[p].pc = "idle" /\ LineOf(p)' # line
        BY <2>7, FindUserMoves, LineMoves
      <3>2. NeedsToken(line)'
        BY <1>1, <2>4, <2>7 DEF NeedsToken, Stored
      <3>3. Resting(line)'
        BY <1>1, <2>2, <3>2 DEF Resting, AtMost, TokensOf, SameCookie
      <3>4. OneUser(line)'
        BY <1>1, <2>1, <2>5, <3>1 DEF OneUser, TokensOf
      <3> QED
        BY <1>1, <1>2, <2>1, <2>3, <3>1, <3>3, <3>4, OwnStep
    <2> QED
      BY <2>6, <2>7
  <1> QED
    BY <1>4, <1>5

LEMMA DeleteTokenNext ==
  ASSUME Typed, Fresh, NEW line \in Nat \ {0}, Orderly(line), NEW p \in Requests,
         DeleteToken(p)
  PROVE  Orderly(line)'
  <1>1. /\ UNCHANGED <<users, cookie, sessions, ended>>
        /\ request[p].pc = "deleteToken" /\ DeleteByHash(request[p].raw)
    BY DEF DeleteToken, browser, history, At
  <1>2. /\ Others(p) /\ request'[p].pc = "issue" /\ SameFlow(p)
        /\ LineOf(p) = request[p].raw.line /\ LineOf(p)' = request[p].raw.line
    <2>1. Others(p) /\ request'[p].pc = "issue" /\ SameFlow(p)
      BY SignedMoves DEF DeleteToken, At, Flow
    <2> QED
      BY <1>1, <2>1, LineMoves DEF SameFlow, SameSession
  <1>3. Issued(request[p].raw)
    BY <1>1 DEF Fresh, FreshRequests, FreshRequest
  <1>4. CASE LineOf(p) # line
    BY <1>1, <1>2, <1>3, <1>4, TouchesNot, DeletedElsewhere, KeptSame, UntouchedStep
    DEF Untouched
  <1>5. CASE LineOf(p) = line
    <2>1. /\ Stage(p, line) /\ OneUser(line)
          /\ \A q \in Requests : q # p => LineOf(q) # line
          /\ \A c \in Browsers : cookie[c].line = line => request[p].browser = c
          /\ \A b, c \in Browsers : cookie[b].line = line /\ cookie[c].line = line => b = c
      BY <1>5, OnlyOne
    <2>2. AtMost(line, request[p].raw.id) /\ line \notin ended
      BY <1>1, <2>1 DEF Stage, At
    <2>3. TokensOf(line)' = {}
      BY <1>1, <2>2 DEF AtMost, TokensOf, DeleteByHash
    <2>4. OneToken(line)'
      BY <2>3 DEF OneToken
    <2>5. \A q \in Requests : LineOf(q)' = line => q = p
      BY <1>2, <2>1, LineOfSame DEF Others
    <2>6. OneUser(line)'
      BY <1>1, <1>2, <1>5, <2>1, <2>3, <2>5 DEF OneUser, SameFlow, Flow
    <2>7. Stage(p, line)'
      BY <1>1, <1>2, <2>2, <2>3 DEF Stage, At
    <2> QED
      BY <1>1, <1>2, <1>5, <2>1, <2>4, <2>6, <2>7, OwnStep DEF SameFlow, SameSession
  <1> QED
    BY <1>4, <1>5

(* Nothing is of a line that has not been opened yet.                      *)
LEMMA NextLineIsClear ==
  ASSUME Typed, Fresh
  PROVE  /\ Quiet(nextId) /\ TokensOf(nextId) = {} /\ nextId \notin ended
         /\ \A b \in Browsers : cookie[b].line # nextId
         /\ \A s \in sessions : s.line # nextId
  <1>1. nextId \in Nat /\ nextId >= 1 /\ nextId \notin 1..(nextId - 1) /\ nextId # 0
    BY DEF Typed, TypeOK, Fresh, FreshTokens
  <1>2. \A raw : NoneOrIssued(raw) => raw.line # nextId
    BY <1>1, NoRawIsRaw DEF NoneOrIssued, Issued
  <1>3. ASSUME NEW p \in Requests
        PROVE  LineOf(p) # nextId
    <2>1. request[p].pc \notin {"idle", "createUser", "compare"}
            => NoneOrIssued(request[p].raw)
      <3>1. FreshRequest(p)
        BY DEF Fresh, FreshRequests
      <3>2. request[p].pc \in Flow \cup {"forget", "clear", "idle", "createUser"}
        BY RequestKinds
        DEF Request, IdleRequest, SetupRequest, FlowRequest, LogoutRequest
      <3> QED
        BY <3>1, <3>2 DEF FreshRequest, NoneOrIssued, At, Flow
    <2> QED
      BY <1>1, <1>2, <2>1, LineMoves
  <1>4. Quiet(nextId)
    BY <1>3 DEF Quiet
  <1>5. TokensOf(nextId) = {}
    BY <1>1 DEF TokensOf, Fresh, FreshTokens
  <1>6. \A b \in Browsers : cookie[b].line # nextId
    BY <1>2 DEF Fresh, FreshCookies
  <1>7. nextId \notin ended /\ \A s \in sessions : s.line # nextId
    BY <1>1 DEF Fresh, FreshLines
  <1> QED
    BY <1>4, <1>5, <1>6, <1>7

LEMMA IssueNext ==
  ASSUME Typed, Fresh, NEW line \in Nat \ {0}, Orderly(line), NEW p \in Requests,
         IssueRefreshToken(p)
  PROVE  Orderly(line)'
  <1>1. /\ UNCHANGED <<users, cookie, ended>> /\ Others(p) /\ request[p].pc = "issue"
        /\ LineOf(p) = request[p].raw.line
    <2>1. UNCHANGED <<users, cookie, ended>> /\ Others(p) /\ request[p].pc = "issue"
      <3>1. UNCHANGED <<users, browser, ended>>
        BY DEF IssueRefreshToken
      <3>2. Others(p) /\ At(p, "issue")
        BY IssueMoves
      <3> QED
        BY <3>1, <3>2 DEF browser, At
    <2> QED
      BY <2>1, LineMoves
  <1>2. LineOf(p) = line =>
          /\ Stage(p, line) /\ OneToken(line) /\ OneUser(line)
          /\ \A q \in Requests : q # p => LineOf(q) # line
          /\ \A c \in Browsers : cookie[c].line = line => request[p].browser = c
          /\ \A b, c \in Browsers : cookie[b].line = line /\ cookie[c].line = line => b = c
    BY OnlyOne
  <1>3. LineOf(p) = line =>
          /\ TokensOf(line) = {} /\ line \notin ended
          /\ \A s \in sessions : s.line = line => request[p].user = s.user
    BY <1>1, <1>2 DEF Stage, At, OneUser, Flow
  <1>4. CASE ~Stored(request[p].user)
    <2>1. /\ UNCHANGED <<tokens, sessions>> /\ request'[p].pc = "idle" /\ LineOf(p)' # line
      BY <1>4, IssueMoves, LineMoves
    <2>2. CASE LineOf(p) # line
      BY <1>1, <2>1, <2>2, TouchesNot, KeptSame, UntouchedStep DEF Untouched
    <2>3. CASE LineOf(p) = line
      <3>1. TokensOf(line)' = {} /\ NeedsToken(line)'
        BY <1>1, <1>3, <1>4, <2>1, <2>3 DEF TokensOf, NeedsToken, Stored
      <3>2. Resting(line)' /\ OneToken(line)'
        BY <1>1, <1>3, <2>3, <3>1 DEF Resting, AtMost, OneToken
      <3>3. \A q \in Requests : LineOf(q)' # line
        BY <1>1, <1>2, <2>1, <2>3, LineOfSame DEF Others
      <3>4. OneUser(line)'
        BY <3>1, <3>3 DEF OneUser
      <3> QED
        BY <1>1, <1>2, <2>1, <2>3, <3>2, <3>4, OwnStep
    <2> QED
      BY <2>2, <2>3
  <1>5. CASE Stored(request[p].user)
    <2>1. PICK new, s : /\ new = NewToken(p)
                        /\ s = [line |-> IssuedLine(p), user |-> request[p].user]
      OBVIOUS
    <2>2. /\ new.id = nextId /\ new.line = IssuedLine(p) /\ new.user = request[p].user
          /\ s.line = IssuedLine(p) /\ s.user = request[p].user
      BY <2>1 DEF NewToken
    <2>3. /\ request'[p].pc = "answer" /\ request'[p].browser = request[p].browser
          /\ request'[p].user = request[p].user
          /\ request'[p].raw.id = nextId /\ LineOf(p)' = IssuedLine(p)
          /\ tokens' = tokens \cup {new} /\ sessions' = sessions \cup {s}
      <3>1. /\ request'[p].pc = "answer" /\ request'[p].browser = request[p].browser
            /\ request'[p].user = request[p].user
            /\ request'[p].raw = [id |-> nextId, line |-> IssuedLine(p)]
            /\ tokens' = tokens \cup {new} /\ sessions' = sessions \cup {s}
        BY <1>5, <2>1, IssueMoves
      <3>2. request'[p].raw.id = nextId /\ request'[p].raw.line = IssuedLine(p)
        BY <3>1
      <3> QED
        BY <3>1, <3>2, LineMoves
    <2>4. LineOf(p) = line => IssuedLine(p) = line
      BY <1>1, NoRawIsRaw DEF IssuedLine
    <2>5. CASE IssuedLine(p) # line
      <3>1. TokensKept(line) /\ SessionsKept(line)
        BY <1>1, <2>2, <2>3, <2>5 DEF TokensKept, TokensOf, SessionsKept, Stored
      <3> QED
        BY <1>1, <2>3, <2>4, <2>5, <3>1, TouchesNot, KeptSame, UntouchedStep
        DEF Untouched
    <2>6. CASE IssuedLine(p) = line
      <3>1. /\ TokensOf(line) = {} /\ line \notin ended
            /\ \A x \in sessions : x.line = line => x.user = request[p].user
            /\ \A q \in Requests : q # p => LineOf(q) # line
            /\ \A c \in Browsers : cookie[c].line = line => request[p].browser = c
            /\ \A b, c \in Browsers :
                 cookie[b].line = line /\ cookie[c].line = line => b = c
        <4>1. CASE LineOf(p) = line
          BY <1>2, <1>3, <4>1
        <4>2. CASE LineOf(p) # line
          <5>1. line = nextId
            BY <1>1, <2>6, <4>2 DEF IssuedLine
          <5> QED
            BY <5>1, NextLineIsClear DEF Quiet
        <4> QED
          BY <4>1, <4>2
      <3>2. TokensOf(line)' = {new}
        BY <2>2, <2>3, <2>6, <3>1 DEF TokensOf
      <3>3. OneToken(line)' /\ AtMost(line, request[p].raw.id)' /\ NeedsToken(line)'
        BY <2>2, <2>3, <3>2 DEF OneToken, AtMost, NeedsToken
      <3>4. \A q \in Requests : LineOf(q)' = line => q = p
        BY <1>1, <3>1, LineOfSame DEF Others
      <3>5. OneUser(line)'
        <4>1. \A x \in sessions' : x.line = line => x.user = request[p].user
          BY <2>2, <2>3, <3>1
        <4> QED
          BY <2>2, <2>3, <3>2, <3>4, <4>1 DEF OneUser
      <3>6. Stage(p, line)'
        BY <1>1, <2>3, <3>1, <3>3 DEF Stage, At
      <3> QED
        BY <1>1, <2>3, <2>6, <3>1, <3>3, <3>5, <3>6, OwnStep
    <2> QED
      BY <2>5, <2>6
  <1> QED
    BY <1>4, <1>5

(* The cookie that an answer sets, and a logout removes                    *)
LEMMA CookieMoves ==
  ASSUME Typed, NEW b \in Browsers, NEW raw, cookie' = [cookie EXCEPT ![b] = raw]
  PROVE  cookie'[b] = raw /\ \A c \in Browsers \ {b} : cookie'[c] = cookie[c]
  BY DEF Typed, TypeOK

LEMMA AnswerNext ==
  ASSUME Typed, Fresh, NEW line \in Nat \ {0}, Orderly(line), NEW p \in Requests,
         SetRefreshCookie(p)
  PROVE  Orderly(line)'
  <1>1. /\ UNCHANGED <<users, tokens, sessions, ended>> /\ request[p].pc = "answer"
        /\ cookie' = [cookie EXCEPT ![request[p].browser] = request[p].raw]
        /\ Others(p) /\ LineOf(p) = request[p].raw.line /\ LineOf(p)' # line
    <2>1. Others(p) /\ request'[p].pc = "idle"
      BY FinishMoves DEF SetRefreshCookie
    <2> QED
      BY <2>1, LineMoves DEF SetRefreshCookie, tables, history, At
  <1>2. request[p].browser \in Browsers
    BY <1>1, RequestKinds DEF Flow, FlowRequest
  <1>3. PICK b, raw : b = request[p].browser /\ raw = request[p].raw
    OBVIOUS
  <1>4. /\ b \in Browsers /\ cookie'[b] = raw
        /\ \A c \in Browsers \ {b} : cookie'[c] = cookie[c]
    <2>1. b \in Browsers /\ cookie' = [cookie EXCEPT ![b] = raw]
      BY <1>1, <1>2, <1>3
    <2> QED
      BY <2>1, CookieMoves
  <1>5. CASE LineOf(p) # line
    <2>1. CookiesKept(line)
      BY <1>1, <1>3, <1>4, <1>5 DEF CookiesKept
    <2> QED
      BY <1>1, <1>5, <2>1, TouchesNot, KeptSame, UntouchedStep DEF Untouched
  <1>6. CASE LineOf(p) = line
    <2>1. /\ Stage(p, line) /\ OneToken(line) /\ OneUser(line)
          /\ \A q \in Requests : q # p => LineOf(q) # line
          /\ \A c \in Browsers : cookie[c].line = line => b = c
      BY <1>3, <1>6, OnlyOne
    <2>2. AtMost(line, raw.id) /\ NeedsToken(line) /\ line \notin ended
      BY <1>1, <1>3, <2>1 DEF Stage, At
    <2>3. \A c \in Browsers : cookie'[c].line = line => c = b
      BY <1>4, <2>1
    <2>4. \A q \in Requests : LineOf(q)' # line
      BY <1>1, <2>1, LineOfSame DEF Others
    <2>5. OneToken(line)' /\ OneUser(line)'
      BY <1>1, <2>1, <2>4 DEF OneToken, OneUser, TokensOf
    <2>6. NeedsToken(line)'
      BY <1>1, <2>2 DEF NeedsToken, TokensOf, Stored
    <2>7. \A c \in Browsers : cookie'[c].line = line => AtMost(line, cookie[c].id)'
      BY <1>1, <1>4, <2>2, <2>3 DEF AtMost, TokensOf
    <2>8. Resting(line)'
      BY <1>1, <2>2, <2>6, <2>7 DEF Resting
    <2> QED
      BY <1>1, <2>1, <2>3, <2>5, <2>8, OwnStep
  <1> QED
    BY <1>5, <1>6

(* The token goes, and the cookie after it.                                *)
LEMMA ForgetNext ==
  ASSUME Typed, Fresh, NEW line \in Nat \ {0}, Orderly(line), NEW p \in Requests, Forget(p)
  PROVE  Orderly(line)'
  <1>1. /\ UNCHANGED <<users, cookie, sessions>> /\ request[p].pc = "forget"
        /\ DeleteByHash(request[p].raw) /\ ended' = ended \cup {request[p].raw.line}
    BY DEF Forget, browser, At
  <1>2. /\ Others(p) /\ request'[p].pc = "clear" /\ SameSession(p)
        /\ LineOf(p) = request[p].raw.line /\ LineOf(p)' = request[p].raw.line
    <2>1. Others(p) /\ request'[p].pc = "clear" /\ SameSession(p)
      BY ForgetMoves
    <2> QED
      BY <1>1, <2>1, LineMoves DEF SameSession
  <1>3. Issued(request[p].raw)
    BY <1>1 DEF Fresh, FreshRequests, FreshRequest
  <1>4. CASE LineOf(p) # line
    <2>1. EndedKept(line)
      BY <1>1, <1>2, <1>4 DEF EndedKept
    <2> QED
      BY <1>1, <1>2, <1>3, <1>4, <2>1, TouchesNot, DeletedElsewhere, KeptSame,
         UntouchedStep DEF Untouched
  <1>5. CASE LineOf(p) = line
    <2>1. /\ Stage(p, line) /\ \A q \in Requests : q # p => LineOf(q) # line
          /\ \A c \in Browsers : cookie[c].line = line => request[p].browser = c
          /\ \A b, c \in Browsers : cookie[b].line = line /\ cookie[c].line = line => b = c
      BY <1>5, OnlyOne
    <2>2. AtMost(line, request[p].raw.id)
      BY <1>1, <2>1 DEF Stage, At
    <2>3. TokensOf(line)' = {}
      BY <1>1, <2>2 DEF AtMost, TokensOf, DeleteByHash
    <2>4. \A q \in Requests : LineOf(q)' = line => q = p
      BY <1>2, <2>1, LineOfSame DEF Others
    <2>5. OneToken(line)' /\ OneUser(line)'
      BY <1>2, <2>3, <2>4 DEF OneToken, OneUser, Flow
    <2>6. Stage(p, line)'
      BY <1>1, <1>2, <1>5, <2>3 DEF Stage, At
    <2> QED
      BY <1>1, <1>2, <1>5, <2>1, <2>5, <2>6, OwnStep DEF SameSession
  <1> QED
    BY <1>4, <1>5

(* A request that comes to nothing disturbs its session, and no other.     *)
LEMMA FailureNext ==
  ASSUME Typed, NEW line \in Nat \ {0}, Orderly(line), line \notin disturbed',
         NEW p \in Requests, ForgetFails(p) \/ Dropped(p)
  PROVE  Orderly(line)'
  <1>1. UNCHANGED <<users, tokens, cookie, sessions, ended>>
    BY DEF ForgetFails, Dropped, tables, browser
  <1>2. Others(p) /\ LineOf(p) # line /\ LineOf(p)' # line
    <2>1. CASE ForgetFails(p)
      <3>1. /\ Others(p) /\ request[p].pc = "forget" /\ request'[p].pc = "clear"
            /\ request'[p].raw = request[p].raw /\ request[p].raw.line # line
        BY <2>1, ForgetMoves DEF SameSession, ForgetFails, At
      <3> QED
        BY <3>1, LineMoves
    <2>2. CASE Dropped(p)
      <3>1. Others(p) /\ request'[p].pc = "idle" /\ LineOf(p) # line
        BY <2>2, FinishMoves DEF Dropped
      <3> QED
        BY <3>1, LineMoves
    <2> QED
      BY <2>1, <2>2
  <1> QED
    BY <1>1, <1>2, TouchesNot, KeptSame, UntouchedStep DEF Untouched

LEMMA ClearNext ==
  ASSUME Typed, NEW line \in Nat \ {0}, Orderly(line), NEW p \in Requests, ClearCookie(p)
  PROVE  Orderly(line)'
  <1>1. /\ UNCHANGED <<users, tokens, sessions, ended>> /\ request[p].pc = "clear"
        /\ cookie' = [cookie EXCEPT ![request[p].browser] = NoRaw]
    BY DEF ClearCookie, tables, history, At
  <1>2. Others(p) /\ LineOf(p)' # line
    <2>1. Others(p) /\ request'[p].pc = "idle"
      BY FinishMoves DEF ClearCookie
    <2> QED
      BY <2>1, LineMoves
  <1>3. request[p].browser \in Browsers
    BY <1>1, RequestKinds DEF LogoutRequest
  <1>4. PICK b : b = request[p].browser
    OBVIOUS
  <1>5. /\ b \in Browsers /\ cookie'[b].line # line
        /\ \A c \in Browsers \ {b} : cookie'[c] = cookie[c]
    <2>1. b \in Browsers /\ cookie' = [cookie EXCEPT ![b] = NoRaw]
      BY <1>1, <1>3, <1>4
    <2> QED
      BY <2>1, CookieMoves, NoRawIsRaw
  <1>6. CASE LineOf(p) # line
    <2>1. CookiesKept(line)
      BY <1>5 DEF CookiesKept
    <2> QED
      BY <1>1, <1>2, <1>6, <2>1, TouchesNot, KeptSame, UntouchedStep DEF Untouched
  <1>7. CASE LineOf(p) = line
    <2>1. /\ Stage(p, line) /\ OneToken(line) /\ OneUser(line)
          /\ \A q \in Requests : q # p => LineOf(q) # line
          /\ \A c \in Browsers : cookie[c].line = line => b = c
      BY <1>4, <1>7, OnlyOne
    <2>2. TokensOf(line) = {} /\ line \in ended
      BY <1>1, <2>1 DEF Stage, At
    <2>3. \A c \in Browsers : cookie'[c].line # line
      BY <1>5, <2>1
    <2>4. \A q \in Requests : LineOf(q)' # line
      BY <1>2, <2>1, LineOfSame DEF Others
    <2>5. TokensOf(line)' = {}
      BY <1>1, <2>2 DEF TokensOf
    <2>6. OneToken(line)' /\ OneUser(line)' /\ Resting(line)'
      BY <1>1, <2>2, <2>3, <2>4, <2>5 DEF OneToken, OneUser, Resting
    <2> QED
      BY <1>2, <2>1, <2>3, <2>6, OwnStep
  <1> QED
    BY <1>6, <1>7

LEMMA StepOrderly ==
  ASSUME Typed, Known, Fresh, NEW line \in Nat \ {0}, Orderly(line),
         line \notin disturbed', NEW p \in Requests, Step(p)
  PROVE  Orderly(line)'
  BY LinelessNext, FindUserNext, DeleteTokenNext, IssueNext, AnswerNext, ForgetNext,
     FailureNext, ClearNext DEF Step

(* What was disturbed stays so.                                            *)
LEMMA DisturbedStay == Next \/ UNCHANGED vars => disturbed \subseteq disturbed'
  <1>1. ASSUME NEW p \in Requests, Step(p)
        PROVE  disturbed \subseteq disturbed'
    BY <1>1
    DEF Step, CreateUser, ComparePassword, FindUser, DeleteToken, IssueRefreshToken,
        SetRefreshCookie, Forget, ForgetFails, ClearCookie, Dropped, history
  <1>2. ASSUME NEW p \in Requests,
               \/ \E u \in Users : Setup(p, u) \/ \E b \in Browsers : Login(p, b, u)
               \/ \E b \in Browsers : Refresh(p, b) \/ Logout(p, b)
        PROVE  disturbed \subseteq disturbed'
    BY <1>2 DEF Setup, Login, Refresh, Logout, history
  <1>3. ASSUME NEW b \in Browsers, NEW u \in Users, HandleUser(b, u)
        PROVE  disturbed \subseteq disturbed'
    BY <1>3 DEF HandleUser, DeleteUser, UpdateRole
  <1>4. Elapse \/ UNCHANGED vars => disturbed \subseteq disturbed'
    BY DEF Elapse, vars, history
  <1> QED
    BY <1>1, <1>2, <1>3, <1>4 DEF Next

LEMMA LinesNext == Typed /\ Known /\ Fresh /\ Lines /\ [Next]_vars => Lines'
  <1> SUFFICES ASSUME Typed, Known, Fresh, Lines, Next \/ UNCHANGED vars,
                      NEW line \in Nat \ {0}, line \notin disturbed'
               PROVE  Orderly(line)'
    BY DEF Lines
  <1>1. Orderly(line)
    BY DisturbedStay DEF Lines
  <1>2. ASSUME NEW p \in Requests, Step(p)
        PROVE  Orderly(line)'
    BY <1>1, <1>2, StepOrderly
  <1>3. ASSUME NEW p \in Requests, NEW u \in Users,
               Setup(p, u) \/ \E b \in Browsers : Login(p, b, u)
        PROVE  Orderly(line)'
    BY <1>1, <1>3, LinelessNext
  <1>4. ASSUME NEW p \in Requests, NEW b \in Browsers, Refresh(p, b) \/ Logout(p, b)
        PROVE  Orderly(line)'
    BY <1>1, <1>4, BeginNext
  <1>5. ASSUME NEW b \in Browsers, NEW u \in Users, HandleUser(b, u)
        PROVE  Orderly(line)'
    BY <1>1, <1>5, DeleteUserNext, WorldNext DEF HandleUser
  <1>6. Elapse \/ UNCHANGED vars => Orderly(line)'
    BY <1>1, WorldNext
  <1> QED
    BY <1>2, <1>3, <1>4, <1>5, <1>6 DEF Next

LEMMA InitOrderly == Init => Known /\ Fresh /\ Lines
  <1> SUFFICES ASSUME Init PROVE Known /\ Fresh /\ Lines
    OBVIOUS
  <1>1. /\ tokens = {} /\ access = {} /\ sessions = {} /\ ended = {} /\ nextId = 1
        /\ \A b \in Browsers : cookie[b] = NoRaw
        /\ \A p \in Requests : request[p].pc = "idle"
    BY DEF Init
  <1>2. Known
    BY <1>1 DEF Known, Flow
  <1>3. Fresh
    BY <1>1
    DEF Fresh, FreshTokens, FreshCookies, FreshRequests, FreshRequest, FreshLines,
        NoneOrIssued, At
  <1>4. ASSUME NEW line \in Nat \ {0}
        PROVE  Orderly(line)
    <2>1. \A p \in Requests : LineOf(p) # line
      BY <1>1 DEF LineOf
    <2>2. \A b \in Browsers : cookie[b].line # line
      BY <1>1, NoRawIsRaw
    <2>3. TokensOf(line) = {}
      BY <1>1 DEF TokensOf
    <2> QED
      BY <1>1, <2>1, <2>2, <2>3
      DEF Orderly, OneRequest, OneBrowser, OneToken, OneUser, Resting, NeedsToken
  <1> QED
    BY <1>2, <1>3, <1>4 DEF Lines

Sound == Typed /\ Known /\ Fresh /\ Lines

(* In every reachable state the lines that were not disturbed are in order. *)
THEOREM LinesAreOrderly == Spec => []Sound
  <1>1. Init => Sound
    BY InitTyped, InitOrderly DEF Sound
  <1>2. Sound /\ [Next]_vars => Sound'
    BY TypedStep, KnownNext, FreshNext, LinesNext DEF Sound
  <1> QED
    BY <1>1, <1>2, PTL DEF Spec

LEMMA OrderlyEnds == Sound => LogoutEnds
  <1> SUFFICES ASSUME Sound, NEW line \in ended \ disturbed PROVE TokensOf(line) = {}
    BY DEF LogoutEnds
  <1>1. line \in Nat \ {0}
    BY DEF Sound, Fresh, FreshLines, Typed, TypeOK
  <1>2. Orderly(line)
    BY <1>1 DEF Sound, Lines
  <1>3. CASE Quiet(line)
    BY <1>2, <1>3 DEF Orderly, Resting
  <1>4. CASE ~Quiet(line)
    <2>1. PICK p \in Requests : LineOf(p) = line
      BY <1>4 DEF Quiet
    <2> QED
      BY <1>2, <2>1 DEF Orderly, Stage, At
  <1> QED
    BY <1>3, <1>4

(* After a logout nothing is left to be exchanged: FindByHash, of any later *)
(* refresh, finds no token of the session.                                 *)
THEOREM LogoutEndsTheSession == Spec => []LogoutEnds
  BY LinesAreOrderly, OrderlyEnds, PTL

LEMMA OrderlyHasOne == Sound => OneTokenPerSession
  <1> SUFFICES ASSUME Sound, NEW s \in sessions, s.line \notin disturbed \cup ended,
                      Quiet(s.line), Stored(s.user)
               PROVE  \E t \in TokensOf(s.line) :
                        /\ TokensOf(s.line) = {t} /\ t.user = s.user
                        /\ \A b \in Browsers : cookie[b].line = s.line
                                                 => cookie[b].id = t.id
    BY DEF OneTokenPerSession
  <1>1. PICK line \in Nat \ {0} : line = s.line
    BY DEF Sound, Fresh, FreshLines, FreshTokens, Typed, TypeOK
  <1>2. Orderly(line)
    BY <1>1 DEF Sound, Lines
  <1>3. Resting(line) /\ OneToken(line) /\ OneUser(line)
    BY <1>1, <1>2 DEF Orderly
  <1>4. PICK t \in TokensOf(line) : TRUE
    BY <1>1, <1>3 DEF Resting, NeedsToken
  <1>5. TokensOf(line) = {t} /\ t.user = s.user
    BY <1>1, <1>3, <1>4 DEF OneToken, OneUser
  <1>6. \A b \in Browsers : cookie[b].line = line => cookie[b].id = t.id
    BY <1>3, <1>4 DEF Resting, AtMost
  <1> QED
    BY <1>1, <1>4, <1>5, <1>6

(* However often its token is exchanged, a session that nothing disturbed  *)
(* keeps one, which is the one that its browser holds.                     *)
THEOREM SessionsKeepOneToken == Spec => []OneTokenPerSession
  BY LinesAreOrderly, OrderlyHasOne, PTL

-----------------------------------------------------------------------------
(* Stale roles.                                                            *)

(* A user has a role, or had it at t or later.                             *)
HadRole(u, role, t) == users[u] = role \/ t <= held[u][role]

(* When a role must have been read for a token that ends at t              *)
ReadBy(t) == t - (AccessLife + Latency)

(* What the request r and the token a say of a role was true when it was   *)
(* read, which was not long before it was signed.                          *)
Signing == {"compare", "deleteToken"}
Carries == {"issue", "answer"}

RequestRole(r) ==
  /\ r.pc \in Signing => /\ r.read <= clock /\ clock - r.read <= Latency
                         /\ HadRole(r.user, r.role, r.read)
  /\ r.pc \in Carries => /\ ReadBy(r.expires) <= clock
                         /\ HadRole(r.user, r.role, ReadBy(r.expires))

TokenRole(a) == ReadBy(a.expires) <= clock /\ HadRole(a.user, a.role, ReadBy(a.expires))

NotInFuture == \A u \in Users, r \in Roles : held[u][r] <= clock

RoleInv ==
  /\ NotInFuture
  /\ \A p \in Requests : RequestRole(request[p])
  /\ \A a \in access : TokenRole(a)

(* The steps that take a role away remember when: a role that was had is   *)
(* had for ever, in this sense.                                            *)
RolesStay ==
  \A u \in Users, r \in Roles, t \in Int :
    t <= clock /\ HadRole(u, r, t) => users'[u] = r \/ t <= held'[u][r]

LEMMA RolesKept ==
  ASSUME Typed, NotInFuture, UNCHANGED held, UNCHANGED clock,
         \A u \in Users : Stored(u) => users'[u] = users[u]
  PROVE  NotInFuture' /\ RolesStay
  BY DEF NotInFuture, RolesStay, HadRole, Stored

LEMMA RolesTaken ==
  ASSUME Typed, NotInFuture, NEW u \in Users, Stored(u), Hold(u), UNCHANGED clock,
         \A o \in Users : o # u => users'[o] = users[o]
  PROVE  NotInFuture' /\ RolesStay
  <1>1. /\ held \in [Users -> [Roles -> Int]] /\ clock \in Int /\ users[u] \in Roles
    BY DEF Typed, TypeOK, Stored
  <1>2. /\ \A r \in Roles : held'[u][r] = IF r = users[u] THEN clock ELSE held[u][r]
        /\ \A o \in Users : o # u => held'[o] = held[o]
    BY <1>1 DEF Hold
  <1>3. \A o \in Users, r \in Roles : held[o][r] \in Int
    BY <1>1
  <1>4. NotInFuture'
    BY <1>1, <1>2, <1>3 DEF NotInFuture
  <1>5. ASSUME NEW o \in Users, NEW r \in Roles, NEW t \in Int, t <= clock,
               HadRole(o, r, t)
        PROVE  users'[o] = r \/ t <= held'[o][r]
    BY <1>1, <1>2, <1>3, <1>5 DEF HadRole, NotInFuture
  <1> QED
    BY <1>4, <1>5 DEF RolesStay

(* A request that goes on as it was, and a token that is kept, stay sound. *)
LEMMA RoleTypes ==
  ASSUME Typed
  PROVE  /\ clock \in Int /\ AccessLife + Latency \in Int /\ Latency \in Int
         /\ AccessLife \in Int
         /\ \A t \in Int : ReadBy(t) \in Int
         /\ \A p \in Requests : request[p].pc \in Flow =>
              /\ request[p].user \in Users /\ request[p].role \in Roles
              /\ request[p].read \in Int /\ request[p].expires \in Int
         /\ \A a \in access :
              a.user \in Users /\ a.role \in Roles /\ a.expires \in Int
  <1>1. /\ clock \in Int /\ AccessLife + Latency \in Int /\ Latency \in Int
        /\ AccessLife \in Int
        /\ \A t \in Int : ReadBy(t) \in Int
    BY SessionAssumption DEF Typed, TypeOK, ReadBy
  <1>2. ASSUME NEW p \in Requests, request[p].pc \in Flow
        PROVE  /\ request[p].user \in Users /\ request[p].role \in Roles
               /\ request[p].read \in Int /\ request[p].expires \in Int
    BY <1>2, RequestKinds DEF FlowRequest
  <1>3. \A a \in access : a.user \in Users /\ a.role \in Roles /\ a.expires \in Int
    BY DEF Typed, TypeOK, Access
  <1> QED
    BY <1>1, <1>2, <1>3

LEMMA RequestStaysSound ==
  ASSUME Typed, RolesStay, UNCHANGED clock, NEW p \in Requests,
         request'[p] = request[p], RequestRole(request[p])
  PROVE  RequestRole(request[p])'
  <1> DEFINE r == request[p]
  <1>1. r.pc \in Signing \cup Carries => r.pc \in Flow
    BY DEF Signing, Carries, Flow
  <1>2. CASE r.pc \in Signing
    <2>1. users'[r.user] = r.role \/ r.read <= held'[r.user][r.role]
      BY <1>1, <1>2, RoleTypes DEF RolesStay, RequestRole
    <2> QED
      BY <1>2, <2>1 DEF RequestRole, HadRole, Signing, Carries
  <1>3. CASE r.pc \in Carries
    <2>1. users'[r.user] = r.role \/ ReadBy(r.expires) <= held'[r.user][r.role]
      BY <1>1, <1>3, RoleTypes DEF RolesStay, RequestRole
    <2> QED
      BY <1>3, <2>1 DEF RequestRole, HadRole, Signing, Carries, ReadBy
  <1>4. CASE r.pc \notin Signing \cup Carries
    BY <1>4 DEF RequestRole
  <1> QED
    BY <1>2, <1>3, <1>4

LEMMA TokenStaysSound ==
  ASSUME Typed, RolesStay, UNCHANGED clock, NEW a \in access, TokenRole(a)
  PROVE  TokenRole(a)'
  <1>1. users'[a.user] = a.role \/ ReadBy(a.expires) <= held'[a.user][a.role]
    BY RoleTypes DEF RolesStay, TokenRole
  <1> QED
    BY <1>1 DEF TokenRole, HadRole, ReadBy

(* A step of p that adds no token keeps the invariant if it leaves p sound. *)
LEMMA RoleStep ==
  ASSUME Typed, RoleInv, NotInFuture', RolesStay, UNCHANGED <<clock, access>>,
         NEW p \in Requests, Others(p), RequestRole(request[p])'
  PROVE  RoleInv'
  <1>1. \A q \in Requests : RequestRole(request[q])'
    BY RequestStaysSound DEF RoleInv, Others
  <1>2. \A a \in access : TokenRole(a)'
    BY TokenStaysSound DEF RoleInv
  <1> QED
    BY <1>1, <1>2 DEF RoleInv

(* An access token is signed with the role of its request.                 *)
LEMMA SignedSound ==
  ASSUME Typed, RoleInv, UNCHANGED <<users, held, clock>>, NEW p \in Requests,
         request[p].pc \in Signing, Goto(p, Signed(p, request[p]))
  PROVE  RequestRole(request[p])'
  <1>1. request[p] \in FlowRequest
    BY RequestKinds DEF Signing, Flow
  <1>2. /\ request'[p].pc = "issue" /\ request'[p].user = request[p].user
        /\ request'[p].role = request[p].role
        /\ request'[p].expires = clock + AccessLife
    <2>1. request'[p] = Signed(p, request[p])
      BY DEF Goto, Typed
    <2> QED
      BY <1>1, <2>1 DEF Signed, FlowRequest
  <1>3. /\ request[p].read <= clock /\ clock - request[p].read <= Latency
        /\ HadRole(request[p].user, request[p].role, request[p].read)
    BY DEF RoleInv, RequestRole
  <1>4. /\ request[p].read \in Int /\ request[p].user \in Users
        /\ request[p].role \in Roles
    BY <1>1 DEF FlowRequest
  <1>5. /\ ReadBy(clock + AccessLife) <= request[p].read
        /\ ReadBy(clock + AccessLife) <= clock
    BY <1>3, <1>4, RoleTypes, SessionAssumption DEF ReadBy
  <1>6. held[request[p].user][request[p].role] \in Int
    BY <1>4 DEF Typed, TypeOK
  <1>7. HadRole(request[p].user, request[p].role, ReadBy(clock + AccessLife))
    BY <1>3, <1>4, <1>5, <1>6, RoleTypes DEF HadRole
  <1> QED
    BY <1>2, <1>5, <1>7 DEF RequestRole, Signing, Carries, HadRole, ReadBy

LEMMA RoleNext ==
  ASSUME Typed, RoleInv, [Next]_vars
  PROVE  RoleInv'
  <1>1. ASSUME UNCHANGED <<users, held, clock>>
        PROVE  NotInFuture' /\ RolesStay
    BY <1>1, RolesKept DEF RoleInv
  <1>2. ASSUME NEW p \in Requests, Others(p), request'[p].pc \notin Signing \cup Carries,
               UNCHANGED <<users, held, clock, access>>
        PROVE  RoleInv'
    <2>1. RequestRole(request[p])'
      BY <1>2 DEF RequestRole
    <2> QED
      BY <1>1, <1>2, <2>1, RoleStep
  <1>3. ASSUME NEW p \in Requests, ComparePassword(p) \/ DeleteToken(p)
        PROVE  RoleInv'
    <2>1. /\ request[p].pc \in Signing \cap Flow
          /\ Goto(p, Signed(p, request[p]))
          /\ UNCHANGED <<users, held, clock, access>>
      BY <1>3 DEF ComparePassword, DeleteToken, At, Signing, Flow, tables, browser, history
    <2>2. RequestRole(request[p])' /\ Others(p)
      BY <2>1, SignedSound, SignedMoves
    <2> QED
      BY <1>1, <2>1, <2>2, RoleStep
  <1>4. ASSUME NEW p \in Requests, NEW b \in Browsers, NEW u \in Users, Login(p, b, u)
        PROVE  RoleInv'
    <2>1. /\ request'[p].pc = "compare" /\ request'[p].user = u
          /\ request'[p].role = users[u] /\ request'[p].read = clock /\ Others(p)
          /\ UNCHANGED <<users, held, clock, access>>
      BY <1>4 DEF Login, Goto, Typed, Others, tables, browser, history
    <2>2. clock <= clock /\ clock - clock <= Latency
      BY RoleTypes, SessionAssumption
    <2>3. RequestRole(request[p])'
      BY <2>1, <2>2 DEF RequestRole, HadRole, Signing, Carries
    <2> QED
      BY <1>1, <2>1, <2>3, RoleStep
  <1>5. ASSUME NEW p \in Requests, FindUser(p)
        PROVE  RoleInv'
    <2>0. UNCHANGED <<users, held, clock, access>>
      BY <1>5 DEF FindUser, tables, browser, history
    <2>1. UNCHANGED <<users, held, clock, access>> /\ Others(p)
      BY <1>5, <2>0, FindUserMoves
    <2>2. CASE Stored(request[p].user)
      <3>1. request[p] \in FlowRequest
        BY <1>5, RequestKinds DEF FindUser, At, Flow
      <3>2. request'[p] = [request[p] EXCEPT !.pc = "deleteToken", !.read = clock,
                                             !.role = users[request[p].user]]
        BY <1>5, <2>2 DEF FindUser, Goto, Typed
      <3>3. /\ request'[p].pc = "deleteToken" /\ request'[p].user = request[p].user
            /\ request'[p].role = users[request[p].user] /\ request'[p].read = clock
        BY <3>1, <3>2 DEF FlowRequest
      <3>4. clock <= clock /\ clock - clock <= Latency
        BY RoleTypes, SessionAssumption
      <3>5. RequestRole(request[p])'
        BY <2>1, <3>3, <3>4 DEF RequestRole, HadRole, Signing, Carries
      <3> QED
        BY <1>1, <2>1, <3>5, RoleStep
    <2>3. CASE ~Stored(request[p].user)
      BY <1>2, <1>5, <2>1, <2>3, FindUserMoves DEF Signing, Carries
    <2> QED
      BY <2>2, <2>3
  <1>6. ASSUME NEW p \in Requests, IssueRefreshToken(p)
        PROVE  RoleInv'
    <2>0. UNCHANGED <<users, held, clock, access>>
      BY <1>6 DEF IssueRefreshToken, browser
    <2>1. UNCHANGED <<users, held, clock, access>> /\ Others(p) /\ At(p, "issue")
      BY <1>6, <2>0, IssueMoves
    <2>2. CASE Stored(request[p].user)
      <3>1. request[p] \in FlowRequest
        BY <2>1, RequestKinds DEF At, Flow
      <3>2. request'[p] = [request[p] EXCEPT !.pc = "answer",
                                 !.raw = [id |-> nextId, line |-> IssuedLine(p)]]
        BY <1>6, <2>2 DEF IssueRefreshToken, Goto, Typed, IssuedLine
      <3>3. /\ request'[p].pc = "answer" /\ request'[p].user = request[p].user
            /\ request'[p].role = request[p].role
            /\ request'[p].expires = request[p].expires
        BY <3>1, <3>2 DEF FlowRequest
      <3>4. RequestRole(request[p])
        BY DEF RoleInv
      <3>5. RequestRole(request[p])'
        BY <2>1, <3>3, <3>4 DEF RequestRole, HadRole, ReadBy, Signing, Carries, At
      <3> QED
        BY <1>1, <2>1, <3>5, RoleStep
    <2>3. CASE ~Stored(request[p].user)
      BY <1>2, <1>6, <2>1, <2>3, IssueMoves DEF Signing, Carries
    <2> QED
      BY <2>2, <2>3
  <1>7. ASSUME NEW p \in Requests, SetRefreshCookie(p)
        PROVE  RoleInv'
    <2>1. UNCHANGED <<users, held, clock>> /\ Others(p) /\ request'[p].pc = "idle"
          /\ At(p, "answer")
      BY <1>7, FinishMoves DEF SetRefreshCookie, tables, history
    <2>2. NotInFuture' /\ RolesStay
      BY <1>1, <2>1
    <2>3. \A q \in Requests : RequestRole(request[q])'
      <3>1. RequestRole(request[p])'
        BY <2>1 DEF RequestRole, Signing, Carries
      <3> QED
        BY <2>1, <2>2, <3>1, RequestStaysSound DEF RoleInv, Others
    <2>4. ASSUME NEW a \in access'
          PROVE  TokenRole(a)'
      <3>1. CASE a \in access
        BY <2>1, <2>2, <3>1, TokenStaysSound DEF RoleInv
      <3>2. CASE a \notin access
        <4>1. a = [browser |-> request[p].browser, user |-> request[p].user,
                   role |-> request[p].role, expires |-> request[p].expires]
          BY <1>7, <3>2 DEF SetRefreshCookie
        <4>2. RequestRole(request[p])
          BY DEF RoleInv
        <4> QED
          BY <2>1, <4>1, <4>2 DEF TokenRole, RequestRole, HadRole, ReadBy, Carries, At
      <3> QED
        BY <3>1, <3>2
    <2> QED
      BY <2>2, <2>3, <2>4 DEF RoleInv
  <1>8. ASSUME NEW p \in Requests, CreateUser(p)
        PROVE  RoleInv'
    <2>1. /\ UNCHANGED <<held, clock, access>> /\ Others(p)
          /\ request'[p].pc = "idle" /\ request[p] \in SetupRequest
      BY <1>8, FinishMoves, RequestKinds DEF CreateUser, browser, history
    <2>2. \A u \in Users : Stored(u) => users'[u] = users[u]
      BY <1>8, <2>1 DEF CreateUser, Stored, Roles, SetupRequest, Typed, TypeOK
    <2>3. NotInFuture' /\ RolesStay
      BY <2>1, <2>2, RolesKept DEF RoleInv
    <2>4. RequestRole(request[p])'
      BY <2>1 DEF RequestRole, Signing, Carries
    <2> QED
      BY <2>1, <2>3, <2>4, RoleStep
  <1>9. ASSUME NEW p \in Requests,
               Forget(p) \/ ForgetFails(p) \/ ClearCookie(p) \/ Dropped(p)
        PROVE  RoleInv'
    <2>1. /\ UNCHANGED <<users, held, clock, access>> /\ Others(p)
          /\ request'[p].pc \in {"clear", "idle"}
      BY <1>9, ForgetMoves, FinishMoves
      DEF Forget, ForgetFails, ClearCookie, Dropped, tables, browser, history
    <2> QED
      BY <1>2, <2>1 DEF Signing, Carries
  <1>10. ASSUME NEW p \in Requests, NEW u \in Users, Setup(p, u)
         PROVE  RoleInv'
    <2>1. /\ UNCHANGED <<users, held, clock, access>> /\ Others(p)
          /\ request'[p].pc = "createUser"
      BY <1>10, SetupMoves DEF Setup, tables, browser
    <2> QED
      BY <1>2, <2>1 DEF Signing, Carries
  <1>11. ASSUME NEW p \in Requests, NEW b \in Browsers, Refresh(p, b) \/ Logout(p, b)
         PROVE  RoleInv'
    <2>1. UNCHANGED <<users, held, clock, access>>
      BY <1>11 DEF Refresh, Logout, tables, browser
    <2>2. CASE Others(p) /\ request'[p].pc \in {"findUser", "forget"}
      BY <1>2, <2>1, <2>2 DEF Signing, Carries
    <2>3. CASE UNCHANGED request
      <3>1. RequestRole(request[p])'
        BY <1>1, <2>1, <2>3, RequestStaysSound DEF RoleInv
      <3> QED
        BY <1>1, <2>1, <2>3, <3>1, RoleStep DEF Others
    <2> QED
      BY <1>11, <2>2, <2>3, RefreshMoves, LogoutMoves
  <1>12. ASSUME NEW b \in Browsers, NEW u \in Users, HandleUser(b, u)
         PROVE  RoleInv'
    <2>1. /\ UNCHANGED <<clock, access, request>> /\ Stored(u) /\ Hold(u)
          /\ \A o \in Users : o # u => users'[o] = users[o]
      BY <1>12 DEF HandleUser, DeleteUser, UpdateRole, browser, Typed, TypeOK
    <2>2. NotInFuture' /\ RolesStay
      BY <2>1, RolesTaken DEF RoleInv
    <2>3. \A q \in Requests : RequestRole(request[q])'
      BY <2>1, <2>2, RequestStaysSound DEF RoleInv
    <2>4. \A a \in access : TokenRole(a)'
      BY <2>1, <2>2, TokenStaysSound DEF RoleInv
    <2> QED
      BY <2>1, <2>2, <2>3, <2>4 DEF RoleInv
  <1>13. CASE Elapse
    <2>1. /\ UNCHANGED <<users, held, request>> /\ clock' = clock + 1
          /\ access' \subseteq access
          /\ \A p \in Requests : request[p].pc \in Signing
                                   => clock - request[p].read < Latency
      BY <1>13 DEF Elapse, tables, history, Signing
    <2>2. NotInFuture'
      <3>1. \A u \in Users, r \in Roles : held[u][r] \in Int
        BY DEF Typed, TypeOK
      <3> QED
        BY <2>1, <3>1, RoleTypes DEF NotInFuture, RoleInv
    <2>3. ASSUME NEW p \in Requests
          PROVE  RequestRole(request[p])'
      <3>1. CASE request[p].pc \in Signing
        <4>1. request[p].read \in Int /\ request[p].pc \in Flow
          BY <3>1, RoleTypes DEF Signing, Flow
        <4>2. request[p].read <= clock' /\ clock' - request[p].read <= Latency
          BY <2>1, <3>1, <4>1, RoleTypes DEF RoleInv, RequestRole
        <4> QED
          BY <2>1, <3>1, <4>2 DEF RoleInv, RequestRole, HadRole, Signing, Carries
      <3>2. CASE request[p].pc \in Carries
        <4>1. ReadBy(request[p].expires) \in Int
          BY <3>2, RoleTypes DEF Carries, Flow
        <4>2. ReadBy(request[p].expires) <= clock'
          BY <2>1, <3>2, <4>1, RoleTypes DEF RoleInv, RequestRole
        <4> QED
          BY <2>1, <3>2, <4>2 DEF RoleInv, RequestRole, HadRole, ReadBy, Signing, Carries
      <3>3. CASE request[p].pc \notin Signing \cup Carries
        BY <2>1, <3>3 DEF RequestRole
      <3> QED
        BY <3>1, <3>2, <3>3
    <2>4. ASSUME NEW a \in access'
          PROVE  TokenRole(a)'
      <3>1. a \in access /\ ReadBy(a.expires) \in Int
        BY <2>1, RoleTypes
      <3>2. ReadBy(a.expires) <= clock'
        BY <2>1, <3>1, RoleTypes DEF RoleInv, TokenRole
      <3> QED
        BY <2>1, <3>1, <3>2 DEF RoleInv, TokenRole, HadRole, ReadBy
    <2> QED
      BY <2>2, <2>3, <2>4 DEF RoleInv
  <1>14. CASE UNCHANGED vars
    BY <1>14
    DEF vars, RoleInv, NotInFuture, RequestRole, TokenRole, HadRole, ReadBy
  <1> QED
    BY <1>3, <1>4, <1>5, <1>6, <1>7, <1>8, <1>9, <1>10, <1>11, <1>12, <1>13, <1>14
    DEF Next, Step

(* A page works with a role that its user has, or had less than a lifetime *)
(* of an access token ago, and the time it takes to sign one.              *)
THEOREM RolesAreNotOld == Spec => []StaleRoleIsBounded
  <1>1. Init => RoleInv
    <2> SUFFICES ASSUME Init PROVE RoleInv
      OBVIOUS
    <2>1. /\ access = {} /\ \A p \in Requests : request[p].pc = "idle"
          /\ clock = 0 /\ \A u \in Users, r \in Roles : held[u][r] = -1
      BY DEF Init
    <2> QED
      BY <2>1 DEF RoleInv, NotInFuture, RequestRole, Signing, Carries
  <1>2. Init => Typed
    BY InitTyped
  <1>3. Typed /\ RoleInv /\ [Next]_vars => Typed' /\ RoleInv'
    BY TypedStep, RoleNext
  <1>4. Typed /\ RoleInv => StaleRoleIsBounded
    <2> SUFFICES ASSUME Typed, RoleInv, NEW b \in Browsers, NEW a \in Claims(b)
                 PROVE  \/ Me(a) = a.role
                        \/ clock - held[a.user][a.role] < AccessLife + Latency
      BY DEF StaleRoleIsBounded
    <2>1. a \in access /\ clock < a.expires
      BY DEF Claims
    <2>2. held[a.user][a.role] \in Int /\ a.expires \in Int
      BY <2>1, RoleTypes DEF Typed, TypeOK
    <2>3. Me(a) = a.role \/ ReadBy(a.expires) <= held[a.user][a.role]
      BY <2>1 DEF RoleInv, TokenRole, HadRole, Me
    <2> QED
      BY <2>1, <2>2, <2>3, RoleTypes DEF ReadBy
  <1> QED
    BY <1>1, <1>2, <1>3, <1>4, PTL DEF Spec
=============================================================================
