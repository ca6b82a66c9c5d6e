------------------------------ MODULE Dashboard ------------------------------
(***************************************************************************)
(* A page of the dashboard and its access token.  The page asks for a      *)
(* token when it is loaded, and sends it with every request.  A request    *)
(* that is refused has the token refreshed and is sent again; others that  *)
(* are refused meanwhile wait in a queue.  If the refresh fails the        *)
(* browser is sent to the login page, which discards all this, but not     *)
(* before answers that are there already were looked at.                   *)
(*                                                                         *)
(* JavaScript runs one callback at a time: an action is a callback.  The   *)
(* server is left to chance, except that it lets no expired access token   *)
(* pass, and refreshes only while the session lives.                       *)
(***************************************************************************)
EXTENDS Naturals, FiniteSets

CONSTANTS Requests,     \* bound: the requests a page sends
          MaxExpiries   \* bound: the access tokens that expire

ASSUME DashboardAssumption == MaxExpiries \in Nat

VARIABLES
  accessToken,   \* the store: the token, a number that grows; 0 if there is none
  hydrated,      \* the store: the first refresh is over
  screen,        \* where the router is
  isRefreshing,
  queue,         \* requests that wait for the refresh that another asked for
  request,
  first,         \* the refresh that the page begins with; alive: see below
  window,        \* "open", "leaving" for the login page, or "gone"
  session,       \* the refresh token in the cookie would be exchanged
  issued,        \* tokens issued so far
  expired,       \* those that expired
  loggedOut      \* history: logged out with no refresh under way, and not in since

vars == <<accessToken, hydrated, screen, isRefreshing, queue, request, first,
          window, session, issued, expired, loggedOut>>

store  == <<accessToken, hydrated>>
server == <<session, issued, expired>>

(* What a request of the page is and how far it got.  alive: the session   *)
(* lived when the refresh was sent; token: what it was sent with; fine:    *)
(* that was not expired then; times: how often it was sent; before: the    *)
(* token it was refused with.                                              *)
New == [pc |-> "new", kind |-> "none", token |-> 0, fine |-> FALSE, retry |-> FALSE,
        alive |-> FALSE, times |-> 0, before |-> 0]

Request == [pc : {"new", "sent", "waiting", "asking", "answered", "rejected"},
            kind : {"none", "query", "login", "logout"}, token : Nat, fine : BOOLEAN,
            retry : BOOLEAN, alive : BOOLEAN, times : Nat, before : Nat]

Init ==
  /\ accessToken = 0 /\ hydrated = FALSE /\ screen \in {"login", "private"}
  /\ isRefreshing = FALSE /\ queue = {}
  /\ request = [r \in Requests |-> New]
  /\ session \in BOOLEAN /\ first = [pc |-> "asking", alive |-> session]
  /\ window = "open"
  /\ issued = 0 /\ expired = {} /\ loggedOut = FALSE

Here == window # "gone"

At(r, pc) == request[r].pc = pc

End(r, how) ==
  request' = [request EXCEPT ![r] = [New EXCEPT !.pc = how, !.times = request[r].times]]

setAccessToken ==
  /\ issued' = issued + 1 /\ accessToken' = issued'
  /\ session' = TRUE
  /\ UNCHANGED expired

clearAccessToken == accessToken' = 0

(* A private page without a token is left for the login page.              *)
PrivateRoute(ready, token) == IF ready /\ token = 0 THEN "login" ELSE screen

-----------------------------------------------------------------------------
(* useInitAuth                                                             *)

(* It is answered, after whatever it waited for, and the page is shown.    *)
InitAuth ==
  /\ Here /\ first.pc = "asking"
  /\ \/ first.alive /\ setAccessToken
     \/ UNCHANGED <<accessToken, server>>
  /\ hydrated' = TRUE /\ first' = [first EXCEPT !.pc = "done"]
  /\ screen' = PrivateRoute(TRUE, accessToken')
  /\ UNCHANGED <<isRefreshing, queue, request, window, loggedOut>>

-----------------------------------------------------------------------------
(* Requests.                                                               *)

(* The interceptor of requests adds the token of the store at this moment. *)
Sent(r, token) ==
  [r EXCEPT !.pc = "sent", !.token = token, !.times = @ + 1,
            !.fine = token \notin expired \cup {0}]

Send(r, kind) ==
  /\ Here /\ At(r, "new")
  /\ request' = [request EXCEPT ![r] = Sent([@ EXCEPT !.kind = kind], accessToken)]
  /\ UNCHANGED <<store, screen, isRefreshing, queue, first, window, server, loggedOut>>

AsksUnhydrated(r) ==   \* mutant: private pages do not wait for the first refresh
  /\ screen = "private" /\ accessToken # 0
  /\ \E kind \in {"query", "logout"} : Send(r, kind)

(* What a private page asks for, and useLogout                             *)
Ask(r) ==
  /\ screen = "private" /\ hydrated /\ accessToken # 0
  /\ \E kind \in {"query", "logout"} : Send(r, kind)

Login(r) == screen = "login" /\ Send(r, "login")

Pending == {r \in Requests : At(r, "asking")}

NoRefresh == first.pc = "done" /\ Pending = {}

LoggedOutHere == UNCHANGED server   \* mutant: the page alone forgets

(* The server deletes the refresh token and has its cookie removed.        *)
LoggedOut == session' = FALSE /\ UNCHANGED <<issued, expired>>

Success(r, kind) ==
  /\ Here /\ At(r, "sent") /\ request[r].kind = kind
  /\ End(r, "answered")
  /\ UNCHANGED <<hydrated, isRefreshing, queue, first, window>>

QuerySucceeds(r) ==
  /\ Success(r, "query") /\ request[r].fine
  /\ UNCHANGED <<accessToken, screen, server, loggedOut>>

(* useLogin stores the token, and the private pages are opened.            *)
LoginSucceeds(r) ==
  /\ Success(r, "login")
  /\ setAccessToken
  /\ screen' = "private" /\ loggedOut' = FALSE

(* useLogout removes whatever token there is now.                          *)
LogoutSucceeds(r) ==
  /\ Success(r, "logout") /\ request[r].fine
  /\ LoggedOut /\ clearAccessToken
  /\ screen' = "login" /\ loggedOut' = NoRefresh

(* Any answer but 200 and 401, or none                                     *)
Reject(r) ==
  /\ Here /\ At(r, "sent")
  /\ End(r, "rejected")
  /\ UNCHANGED <<store, screen, isRefreshing, queue, first, window, server, loggedOut>>

(* What may be answered with 401: a wrong password; a token that is not    *)
(* good; and with a good one the question who the user is, when the user   *)
(* was deleted or could not be read.                                       *)
Refusable(r) ==
  request[r].kind \in {"login", "query"} \/ request[r].token \in expired \cup {0}

Refused(r, pc) ==
  request' = [request EXCEPT ![r] = [@ EXCEPT !.pc = pc, !.retry = TRUE,
                                       !.alive = session,
                                       !.before = request[r].token]]

(* 401.  The second refusal of a request is final; the first is followed   *)
(* by a refresh, or waits for the one under way.                           *)
Refuse(r) ==
  /\ Here /\ At(r, "sent") /\ Refusable(r)
  /\ CASE request[r].retry ->
            End(r, "rejected") /\ UNCHANGED <<isRefreshing, queue>>
       [] ~request[r].retry /\ isRefreshing ->
            Refused(r, "waiting") /\ queue' = queue \cup {r} /\ UNCHANGED isRefreshing
       [] ~request[r].retry /\ ~isRefreshing ->
            Refused(r, "asking") /\ isRefreshing' = TRUE /\ UNCHANGED queue
  /\ UNCHANGED <<store, screen, first, window, server, loggedOut>>

-----------------------------------------------------------------------------
(* The refresh.                                                            *)

Again(rs) == request' = [r \in Requests |->
  IF r \in rs THEN Sent(request[r], accessToken') ELSE request[r]]

QueueStays(r) ==   \* mutant: the queue is not emptied
  /\ Here /\ At(r, "asking") /\ request[r].alive
  /\ setAccessToken
  /\ Again(queue \cup {r}) /\ UNCHANGED queue
  /\ isRefreshing' = FALSE
  /\ UNCHANGED <<hydrated, screen, first, window, loggedOut>>

(* It is answered with a token: the request and those in the queue are     *)
(* sent again.                                                             *)
RefreshSucceeds(r) ==
  /\ Here /\ At(r, "asking") /\ request[r].alive
  /\ setAccessToken
  /\ Again(queue \cup {r}) /\ queue' = {}
  /\ isRefreshing' = FALSE
  /\ UNCHANGED <<hydrated, screen, first, window, loggedOut>>

RefreshFailsQuietly(r) ==   \* mutant: the browser stays on the page
  /\ Here /\ At(r, "asking")
  /\ clearAccessToken /\ End(r, "rejected")
  /\ isRefreshing' = FALSE
  /\ screen' = PrivateRoute(hydrated, 0)
  /\ UNCHANGED <<hydrated, queue, first, window, server, loggedOut>>

(* Or it is not; those in the queue stay there.                            *)
RefreshFails(r) ==
  /\ Here /\ At(r, "asking")
  /\ clearAccessToken /\ End(r, "rejected")
  /\ isRefreshing' = FALSE /\ window' = "leaving"
  /\ screen' = PrivateRoute(hydrated, 0)
  /\ UNCHANGED <<hydrated, queue, first, server, loggedOut>>

-----------------------------------------------------------------------------
(* The browser and the server.                                             *)

Unload ==
  /\ window = "leaving"
  /\ window' = "gone"
  /\ UNCHANGED <<store, screen, isRefreshing, queue, request, first, server, loggedOut>>

Expire(token) ==
  /\ token \in 1..issued \ expired
  /\ Cardinality(expired) < MaxExpiries
  /\ expired' = expired \cup {token}
  /\ UNCHANGED <<store, screen, isRefreshing, queue, request, first, window, session,
                 issued, loggedOut>>

(* The refresh token expires, or its user is deleted.                      *)
SessionEnds ==
  /\ session
  /\ session' = FALSE
  /\ UNCHANGED <<store, screen, isRefreshing, queue, request, first, window, issued,
                 expired, loggedOut>>

Answer(r) ==
  \/ QuerySucceeds(r) \/ LoginSucceeds(r) \/ LogoutSucceeds(r)
  \/ Reject(r) \/ Refuse(r)

Refreshed(r) == RefreshSucceeds(r) \/ RefreshFails(r)

Next ==
  \/ InitAuth \/ Unload \/ SessionEnds
  \/ \E token \in 1..issued : Expire(token)
  \/ \E r \in Requests : Ask(r) \/ Login(r) \/ Answer(r) \/ Refreshed(r)

Spec == Init /\ [][Next]_vars

(* The browser answers every request in the end, if only with an error,    *)
(* and leaves a page that it was told to leave.                            *)
Fairness ==
  /\ WF_vars(InitAuth) /\ WF_vars(Unload)
  /\ \A r \in Requests : WF_vars(Answer(r)) /\ WF_vars(Refreshed(r))

FairSpec == Spec /\ Fairness

-----------------------------------------------------------------------------
(* Properties.                                                             *)

(* The server exchanges a refresh token once, so that of two refreshes of  *)
(* a page one would be refused and end the session.  However many requests *)
(* are refused at once, and when the first refresh is still under way, one *)
(* at most is: except that a login may be refused before the page has its  *)
(* first answer.                                                           *)
RefreshesDoNotOverlap ==
  /\ \A r, o \in Pending : r = o
  /\ \A r \in Pending : request[r].kind = "login" \/ first.pc = "done"

(* A request, which may be a change, is sent twice at most, and the second *)
(* time with a token that is newer than the one refused, whatever logged   *)
(* in, out or expired while it waited.                                     *)
RetriedOnceWithNewToken ==
  \A r \in Requests :
    /\ request[r].times <= 2
    /\ request[r].times = 2 /\ At(r, "sent") => request[r].token > request[r].before

(* When a logout is answered and no refresh is under way, the page has no  *)
(* token until somebody logs in, although older requests may be refused    *)
(* after that and try to refresh it.                                       *)
LoggedOutStaysOut == loggedOut => accessToken = 0 /\ screen = "login"

(* A request that was sent is answered or rejected, or the page it was for *)
(* is gone: no request waits for ever behind a refresh that failed.        *)
EveryRequestEnds ==
  \A r \in Requests :
    At(r, "sent") ~> request[r].pc \in {"answered", "rejected"} \/ window = "gone"

(* The variables hold what the store and the interceptor can.              *)
TypeOK ==
  /\ accessToken \in 0..issued /\ hydrated \in BOOLEAN
  /\ screen \in {"login", "private"} /\ isRefreshing \in BOOLEAN
  /\ queue \subseteq Requests /\ request \in [Requests -> Request]
  /\ first \in [pc : {"asking", "done"}, alive : BOOLEAN]
  /\ window \in {"open", "leaving", "gone"} /\ session \in BOOLEAN
  /\ issued \in Nat /\ expired \subseteq 1..issued /\ loggedOut \in BOOLEAN
=============================================================================
