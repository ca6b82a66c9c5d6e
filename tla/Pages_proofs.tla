---------------------------- MODULE Pages_proofs ----------------------------
(***************************************************************************)
(* Theorems about the two faces of the program that a browser asks: the    *)
(* page of the dashboard (Dashboard), for every set of requests and every  *)
(* number of tokens that expire, and the public status pages (StatusPage), *)
(* for every set of pages, slugs, tags, monitors, writers and visits.  The *)
(* two modules share no variable: a theorem is about one or the other.     *)
(***************************************************************************)
EXTENDS Dashboard, StatusPage, FiniteSetTheorems, TLAPS

-----------------------------------------------------------------------------
(* THE PAGE OF THE DASHBOARD                                               *)

(* What is known of a request, when top tokens were issued, out says that  *)
(* a logout holds and ready that the first refresh is over.                *)
Sound(q, top, out, ready) ==
  /\ q \in Request
  /\ q.token <= top /\ q.before <= top
  /\ q.times <= 2
  /\ q.pc = "new" => q.times = 0 /\ ~q.retry
  /\ q.pc = "sent" /\ ~q.retry => q.times = 1
  /\ q.pc = "sent" /\ q.retry => q.times = 2 /\ q.token > q.before
  /\ q.pc \in {"waiting", "asking"} => q.times = 1 /\ q.retry
  /\ q.pc \in {"sent", "waiting", "asking"} => q.kind = "login" \/ ready
  /\ q.pc = "asking" => ~out \/ ~q.alive

(* After a logout nothing is on its way that could bring a token.          *)
OutInv ==
  loggedOut => /\ first.pc = "done" /\ session = FALSE
               /\ accessToken = 0 /\ screen = "login"

(* One request at most asks for a refresh, and the flag says whether one   *)
(* does; those in the queue wait.                                          *)
AskInv ==
  /\ \A r \in Requests : At(r, "asking") => isRefreshing
  /\ \A r, o \in Requests : At(r, "asking") /\ At(o, "asking") => r = o
  /\ \A r \in queue : At(r, "waiting")

Ready == first.pc = "done"

AllSound ==
  /\ request \in [Requests -> Request]
  /\ \A r \in Requests : Sound(request[r], issued, loggedOut, Ready)

(* TypeOK without the requests.                                            *)
StoreOK ==
  /\ accessToken \in 0..issued /\ hydrated \in BOOLEAN
  /\ screen \in {"login", "private"} /\ isRefreshing \in BOOLEAN
  /\ queue \subseteq Requests
  /\ first \in [pc : {"asking", "done"}, alive : BOOLEAN]
  /\ window \in {"open", "leaving", "gone"} /\ session \in BOOLEAN
  /\ issued \in Nat /\ expired \subseteq 1..issued /\ loggedOut \in BOOLEAN
  /\ hydrated => Ready

PageInv == StoreOK /\ AllSound /\ AskInv /\ OutInv

-----------------------------------------------------------------------------
(* What the helpers do to one request.                                     *)

Ended(q, how) == [New EXCEPT !.pc = how, !.times = q.times]

FirstSent(q, kind, token) == Sent([q EXCEPT !.kind = kind], token)

RefusedWith(q, pc, alive) ==
  [q EXCEPT !.pc = pc, !.retry = TRUE, !.alive = alive, !.before = q.token]

(* A request that was not made yet is sound.                               *)
LEMMA NewSound ==
  ASSUME NEW top \in Nat, NEW out \in BOOLEAN, NEW ready \in BOOLEAN
  PROVE  Sound(New, top, out, ready)
BY DEF Sound, New, Request

(* So is one that nothing happened to.                                     *)
LEMMA StaysSound ==
  ASSUME NEW q, NEW top \in Nat, NEW out \in BOOLEAN, NEW ready \in BOOLEAN,
         NEW top2 \in Nat, NEW out2 \in BOOLEAN, NEW ready2 \in BOOLEAN,
         Sound(q, top, out, ready), top <= top2, ready => ready2,
         q.pc = "asking" /\ out2 => out
  PROVE  Sound(q, top2, out2, ready2)
BY DEF Sound, Request

(* And one that has ended.                                                 *)
LEMMA EndSound ==
  ASSUME NEW q, NEW top \in Nat, NEW out \in BOOLEAN, NEW ready \in BOOLEAN,
         NEW how \in {"answered", "rejected"},
         q \in Request, q.times <= 2
  PROVE  Sound(Ended(q, how), top, out, ready) /\ Ended(q, how).pc = how
<1> DEFINE e == Ended(q, how)
<1>1. q.times \in Nat /\ q.times <= 2
  BY DEF Request
<1>2. /\ e.pc = how /\ e.times = q.times /\ e.token = 0 /\ e.before = 0
      /\ e \in Request
  BY <1>1 DEF Ended, New, Request
<1> HIDE DEF e
<1>3. Sound(e, top, out, ready)
  BY <1>1, <1>2 DEF Sound
<1>4. QED
  BY <1>2, <1>3 DEF e

(* A request that is sent keeps its type.                                  *)
LEMMA SentIsRequest ==
  ASSUME NEW q \in Request, NEW token \in Nat, NEW n \in Nat, NEW f \in BOOLEAN
  PROVE  [q EXCEPT !.pc = "sent", !.token = token, !.times = n, !.fine = f] \in Request
BY DEF Request

(* What sending changes.                                                   *)
LEMMA SentFields ==
  ASSUME NEW q \in Request, NEW token \in Nat
  PROVE  LET s == Sent(q, token)
         IN  /\ s \in Request /\ s.pc = "sent" /\ s.token = token
             /\ s.times = q.times + 1 /\ s.before = q.before
             /\ s.kind = q.kind /\ s.retry = q.retry
<1> DEFINE f == token \notin expired \cup {0}
<1>1. f \in BOOLEAN
  OBVIOUS
<1>2. Sent(q, token) =
        [q EXCEPT !.pc = "sent", !.token = token, !.times = q.times + 1, !.fine = f]
  BY Zenon DEF Sent
<1> HIDE DEF f
<1>3. /\ Sent(q, token).pc = "sent" /\ Sent(q, token).token = token
      /\ Sent(q, token).times = q.times + 1 /\ Sent(q, token).before = q.before
      /\ Sent(q, token).kind = q.kind
  BY <1>2 DEF Request
<1>4. Sent(q, token).retry = q.retry
  BY <1>2, Zenon DEF Request
<1>5. Sent(q, token) \in Request
  <2>1. q.times + 1 \in Nat
    BY DEF Request
  <2> DEFINE n == q.times + 1
  <2> HIDE DEF n
  <2>2. [q EXCEPT !.pc = "sent", !.token = token, !.times = n, !.fine = f] \in Request
    <3>1. n \in Nat
      BY <2>1 DEF n
    <3>2. QED
      BY <1>1, <3>1, SentIsRequest
  <2>3. QED
    BY <1>2, <2>2 DEF n
<1>6. QED
  BY <1>3, <1>4, <1>5, Zenon

(* Sending for the first time.                                             *)
LEMMA FirstSentSound ==
  ASSUME NEW q, NEW kind \in {"query", "login", "logout"}, NEW token \in Nat,
         NEW top \in Nat, NEW out \in BOOLEAN, NEW ready \in BOOLEAN,
         Sound(q, top, out, ready), q.pc = "new", token <= top,
         kind = "login" \/ ready
  PROVE  /\ Sound(FirstSent(q, kind, token), top, out, ready)
         /\ FirstSent(q, kind, token).pc = "sent"
<1> DEFINE k == [q EXCEPT !.kind = kind]
           s == Sent(k, token)
<1>1. q \in Request /\ q.before <= top /\ q.times = 0 /\ ~q.retry
  BY DEF Sound
<1>2. /\ k \in Request /\ k.kind = kind /\ k.times = 0 /\ k.before = q.before
      /\ k.retry = q.retry
  BY <1>1 DEF Request
<1> HIDE DEF k
<1>3. /\ s \in Request /\ s.pc = "sent" /\ s.token = token /\ s.times = k.times + 1
      /\ s.before = k.before /\ s.kind = k.kind /\ s.retry = k.retry
  BY <1>2, SentFields, Zenon
<1> HIDE DEF s
<1>4. Sound(s, top, out, ready)
  BY <1>1, <1>2, <1>3 DEF Sound
<1>5. QED
  BY <1>3, <1>4 DEF FirstSent, s, k

(* Sending again with the new token.                                       *)
LEMMA SentAgain ==
  ASSUME NEW q, NEW token \in Nat,
         NEW top \in Nat, NEW out \in BOOLEAN, NEW ready \in BOOLEAN,
         Sound(q, top, out, ready), q.pc \in {"waiting", "asking"}, token = top + 1
  PROVE  Sound(Sent(q, token), token, out, ready) /\ Sent(q, token).pc = "sent"
<1> DEFINE s == Sent(q, token)
<1>1. /\ q \in Request /\ q.before <= top /\ q.times = 1 /\ q.retry
      /\ q.kind = "login" \/ ready
  BY DEF Sound
<1>2. /\ s \in Request /\ s.pc = "sent" /\ s.token = token /\ s.times = q.times + 1
      /\ s.before = q.before /\ s.kind = q.kind /\ s.retry = q.retry
  BY <1>1, SentFields, Zenon
<1>3. q.before \in Nat
  BY <1>1 DEF Request
<1> HIDE DEF s
<1>4. Sound(s, token, out, ready)
  BY <1>1, <1>2, <1>3 DEF Sound
<1>5. QED
  BY <1>2, <1>4 DEF s

(* A refusal: the request asks, waits or ends.                             *)
LEMMA RefusedSound ==
  ASSUME NEW q, NEW pc \in {"waiting", "asking"}, NEW alive \in BOOLEAN,
         NEW top \in Nat, NEW out \in BOOLEAN, NEW ready \in BOOLEAN,
         Sound(q, top, out, ready), q.pc = "sent", ~q.retry, out => ~alive
  PROVE  /\ Sound(RefusedWith(q, pc, alive), top, out, ready)
         /\ RefusedWith(q, pc, alive).pc = pc
<1> DEFINE s == RefusedWith(q, pc, alive)
<1>1. /\ q \in Request /\ q.token <= top /\ q.times = 1
      /\ q.kind = "login" \/ ready
  BY DEF Sound
<1>2. /\ s \in Request /\ s.pc = pc /\ s.token = q.token /\ s.before = q.token
      /\ s.times = 1 /\ s.kind = q.kind
  BY <1>1 DEF RefusedWith, Request
<1>3. s.retry /\ (out => ~s.alive)
  BY <1>1, Zenon DEF RefusedWith, Request
<1> HIDE DEF s
<1>4. Sound(s, top, out, ready)
  BY <1>1, <1>2, <1>3 DEF Sound
<1>5. QED
  BY <1>2, <1>4 DEF s

-----------------------------------------------------------------------------
(* Steps that leave the requests alone, or move one of them.               *)

(* A step that leaves the requests alone.                                  *)
LEMMA NoneMoves ==
  ASSUME AllSound, UNCHANGED request, issued \in Nat, issued' \in Nat,
         loggedOut \in BOOLEAN, loggedOut' \in BOOLEAN,
         issued <= issued', Ready => Ready', loggedOut' => loggedOut
  PROVE  AllSound'
<1>1. Ready \in BOOLEAN /\ Ready' \in BOOLEAN
  BY DEF Ready
<1>2. ASSUME NEW o \in Requests
      PROVE  Sound(request'[o], issued', loggedOut', Ready')
  BY <1>1, StaysSound DEF AllSound
<1>3. QED
  BY <1>2 DEF AllSound

(* A step of one request.                                                  *)
LEMMA OneMoves ==
  ASSUME NEW r \in Requests, NEW q, AllSound, request' = [request EXCEPT ![r] = q],
         issued \in Nat, issued' \in Nat,
         loggedOut \in BOOLEAN, loggedOut' \in BOOLEAN,
         issued <= issued', Ready => Ready',
         \A o \in Requests \ {r} : At(o, "asking") /\ loggedOut' => loggedOut,
         Sound(q, issued', loggedOut', Ready')
  PROVE  /\ AllSound' /\ request'[r] = q
         /\ \A o \in Requests \ {r} : request'[o] = request[o]
<1>1. Ready \in BOOLEAN /\ Ready' \in BOOLEAN
  BY DEF Ready
<1>2. q \in Request
  BY DEF Sound
<1>3. /\ request' \in [Requests -> Request] /\ request'[r] = q
      /\ \A o \in Requests \ {r} : request'[o] = request[o]
  BY <1>2 DEF AllSound
<1>4. ASSUME NEW o \in Requests, o # r
      PROVE  Sound(request'[o], issued', loggedOut', Ready')
  <2>1. request[o].pc = "asking" /\ loggedOut' => loggedOut
    BY <1>4 DEF At
  <2>2. Sound(request[o], issued, loggedOut, Ready)
    BY DEF AllSound
  <2>3. Sound(request[o], issued', loggedOut', Ready')
    BY <1>1, <2>1, <2>2, StaysSound
  <2>4. QED
    BY <1>3, <1>4, <2>3
<1>5. QED
  BY <1>3, <1>4 DEF AllSound

(* One request moves to pc, and the flag and the queue follow it.          *)
LEMMA AskMoves ==
  ASSUME NEW r \in Requests, NEW pc, AskInv, queue \subseteq Requests,
         request'[r].pc = pc,
         \A o \in Requests \ {r} : request'[o] = request[o],
         \/ pc \notin {"asking", "waiting"} /\ At(r, "sent")
            /\ UNCHANGED <<isRefreshing, queue>>
         \/ pc \notin {"asking", "waiting"} /\ At(r, "new")
            /\ UNCHANGED <<isRefreshing, queue>>
         \/ pc \notin {"asking", "waiting"} /\ At(r, "asking")
            /\ UNCHANGED queue
         \/ pc = "waiting" /\ queue' = queue \cup {r} /\ UNCHANGED isRefreshing
         \/ pc = "asking" /\ ~isRefreshing /\ isRefreshing' = TRUE
            /\ At(r, "sent") /\ UNCHANGED queue
  PROVE  AskInv'
<1>1. \A o \in Requests \ {r} : At(o, "asking")' <=> At(o, "asking")
  BY DEF At
<1>2. \A o \in Requests \ {r} : At(o, "waiting")' <=> At(o, "waiting")
  BY DEF At
<1>3. At(r, "asking")' <=> pc = "asking"
  BY DEF At
<1>4. At(r, "waiting")' <=> pc = "waiting"
  BY DEF At
<1>5. \A o \in Requests : At(o, "asking") => isRefreshing
  BY DEF AskInv
<1>6. \A p, o \in Requests : At(p, "asking") /\ At(o, "asking") => p = o
  BY DEF AskInv
<1>7. \A o \in queue : At(o, "waiting")
  BY DEF AskInv
<1>8. (\A o \in Requests : At(o, "asking") => isRefreshing)'
  <2>1. CASE pc = "asking"
    BY <2>1, <1>1, <1>3, <1>5
  <2>2. CASE At(r, "asking") /\ pc # "asking"
    BY <2>2, <1>1, <1>3, <1>6
  <2>3. CASE ~At(r, "asking") /\ pc # "asking"
    BY <2>3, <1>1, <1>3, <1>5
  <2>4. QED
    BY <2>1, <2>2, <2>3
<1>9. (\A p, o \in Requests : At(p, "asking") /\ At(o, "asking") => p = o)'
  <2>1. CASE pc = "asking"
    <3>1. \A o \in Requests \ {r} : ~At(o, "asking")
      BY <2>1, <1>5
    <3>2. QED
      BY <3>1, <1>1
  <2>2. CASE pc # "asking"
    BY <2>2, <1>1, <1>3, <1>6
  <2>3. QED
    BY <2>1, <2>2
<1>10. (\A o \in queue : At(o, "waiting"))'
  <2>1. CASE pc = "waiting"
    BY <2>1, <1>2, <1>4, <1>7
  <2>2. CASE pc # "waiting"
    <3>1. UNCHANGED queue
      BY <2>2
    <3>2. r \notin queue
      BY <2>2, <1>7 DEF At
    <3>3. QED
      BY <3>1, <3>2, <1>2, <1>7
  <2>3. QED
    BY <2>1, <2>2
<1>11. QED
  BY <1>8, <1>9, <1>10 DEF AskInv

(* While the flag is down no request asks.                                 *)
LEMMA NobodyAsks ==
  ASSUME AskInv, UNCHANGED <<request, isRefreshing, queue>>
  PROVE  AskInv'
BY DEF AskInv, At

-----------------------------------------------------------------------------
(* The invariant, action by action.                                        *)

(* PageInv at the start.                                                   *)
LEMMA InitKeeps == Init => PageInv
<1> SUFFICES ASSUME Init PROVE PageInv
  OBVIOUS
<1> USE DEF Init
<1>1. StoreOK
  <2>1. accessToken \in 0..issued /\ issued \in Nat /\ expired \subseteq 1..issued
    OBVIOUS
  <2>2. first \in [pc : {"asking", "done"}, alive : BOOLEAN]
    OBVIOUS
  <2>3. QED
    BY <2>1, <2>2 DEF StoreOK
<1>2. Ready \in BOOLEAN /\ New \in Request
  BY DEF Ready, New, Request
<1>3. \A r \in Requests : Sound(request[r], issued, loggedOut, Ready)
  BY <1>2, NewSound
<1>4. AllSound
  BY <1>2, <1>3 DEF AllSound
<1>5. AskInv
  BY DEF AskInv, At, New
<1>6. OutInv
  BY DEF OutInv
<1>7. QED
  BY <1>1, <1>4, <1>5, <1>6 DEF PageInv

(* What setting a token changes.                                           *)
LEMMA SetsToken ==
  ASSUME StoreOK, setAccessToken
  PROVE  /\ issued' = issued + 1 /\ accessToken' = issued + 1
         /\ issued' \in Nat /\ issued <= issued' /\ accessToken' \in 0..issued'
         /\ session' \in BOOLEAN /\ expired' \subseteq 1..issued'
<1>1. issued \in Nat /\ expired \subseteq 1..issued
  BY DEF StoreOK
<1>2. issued' = issued + 1 /\ accessToken' = issued + 1 /\ session' = TRUE
      /\ expired' = expired
  BY DEF setAccessToken
<1>3. QED
  BY <1>1, <1>2

(* The first refresh ends, before any other step.                          *)
LEMMA InitAuthKeeps ==
  ASSUME PageInv, InitAuth
  PROVE  PageInv'
<1> USE DEF PageInv, InitAuth
<1>1. Ready' /\ ~Ready /\ hydrated' = TRUE
  BY DEF Ready, StoreOK
<1>2. /\ issued' \in Nat /\ issued <= issued' /\ accessToken' \in 0..issued'
      /\ session' \in BOOLEAN /\ expired' \subseteq 1..issued'
      /\ loggedOut' = loggedOut
  <2>1. CASE setAccessToken
    BY <2>1, SetsToken
  <2>2. CASE UNCHANGED <<accessToken, server>>
    BY <2>2 DEF StoreOK, server
  <2>3. QED
    BY <2>1, <2>2
<1>3. StoreOK'
  <2>1. screen' \in {"login", "private"}
    BY DEF PrivateRoute, StoreOK
  <2>2. first' \in [pc : {"asking", "done"}, alive : BOOLEAN]
    BY DEF StoreOK
  <2>3. QED
    BY <1>1, <1>2, <2>1, <2>2 DEF StoreOK
<1>4. AllSound'
  BY <1>1, <1>2, NoneMoves DEF StoreOK
<1>5. AskInv'
  BY NobodyAsks
<1>6. OutInv'
  BY <1>1, <1>2 DEF OutInv, Ready
<1>7. QED
  BY <1>3, <1>4, <1>5, <1>6

LEMMA SendKeeps ==
  ASSUME PageInv, NEW r \in Requests, NEW kind \in {"query", "login", "logout"},
         Send(r, kind), kind = "login" \/ Ready
  PROVE  PageInv'
<1> USE DEF PageInv, Send
<1> DEFINE q == FirstSent(request[r], kind, accessToken)
<1>1. request' = [request EXCEPT ![r] = q]
  BY Zenon DEF FirstSent
<1>2. Sound(request[r], issued, loggedOut, Ready) /\ request[r].pc = "new"
  BY DEF AllSound, At
<1>3. /\ accessToken \in Nat /\ issued \in Nat /\ accessToken <= issued
      /\ loggedOut \in BOOLEAN /\ Ready \in BOOLEAN
  BY DEF StoreOK, Ready
<1>4. Sound(q, issued, loggedOut, Ready) /\ q.pc = "sent"
  BY <1>2, <1>3, FirstSentSound
<1> HIDE DEF q
<1>5. issued' = issued /\ loggedOut' = loggedOut /\ (Ready' <=> Ready)
  BY DEF server, Ready
<1>6. Ready' = Ready
  BY <1>5 DEF Ready
<1>7. Sound(q, issued', loggedOut', Ready')
  BY <1>4, <1>5, <1>6
<1>8. /\ AllSound' /\ request'[r] = q
      /\ \A o \in Requests \ {r} : request'[o] = request[o]
  <2>1. issued' \in Nat /\ issued <= issued' /\ loggedOut' \in BOOLEAN
    BY <1>3, <1>5
  <2>2. (Ready => Ready') /\ (loggedOut' => loggedOut)
    BY <1>5
  <2>3. QED
    BY <1>1, <1>3, <1>7, <2>1, <2>2, OneMoves
<1>9. AskInv'
  BY <1>2, <1>4, <1>8, AskMoves DEF StoreOK, At
<1>10. StoreOK'
  BY DEF StoreOK, store, server, Ready
<1>11. OutInv'
  BY DEF OutInv, store, server
<1>12. QED
  BY <1>8, <1>9, <1>10, <1>11

(* The part of an answer that ends a request.                              *)
LEMMA EndKeeps ==
  ASSUME PageInv, NEW r \in Requests, NEW how \in {"answered", "rejected"},
         At(r, "sent") \/ At(r, "asking"), End(r, how),
         At(r, "sent") => UNCHANGED isRefreshing, UNCHANGED queue,
         issued' \in Nat, issued <= issued', loggedOut' \in BOOLEAN, UNCHANGED first,
         \A o \in Requests \ {r} : At(o, "asking") /\ loggedOut' => loggedOut
  PROVE  AllSound' /\ AskInv'
<1> DEFINE q == Ended(request[r], how)
<1>1. request' = [request EXCEPT ![r] = q]
  BY Zenon DEF End, Ended
<1>2. request[r] \in Request /\ request[r].times <= 2
  BY DEF AllSound, PageInv, Sound
<1>3. issued \in Nat /\ loggedOut \in BOOLEAN /\ Ready \in BOOLEAN /\ Ready' \in BOOLEAN
  BY DEF StoreOK, Ready, PageInv
<1>4. Sound(q, issued', loggedOut', Ready') /\ q.pc = how
  BY <1>2, <1>3, EndSound
<1> HIDE DEF q
<1>5. /\ AllSound' /\ request'[r] = q
      /\ \A o \in Requests \ {r} : request'[o] = request[o]
  <2>1. Ready => Ready'
    BY DEF Ready
  <2>2. QED
    BY <1>1, <1>3, <1>4, <2>1, OneMoves DEF PageInv
<1>6. AskInv'
  BY <1>4, <1>5, AskMoves DEF StoreOK, PageInv
<1>7. QED
  BY <1>5, <1>6

LEMMA QuerySucceedsKeeps ==
  ASSUME PageInv, NEW r \in Requests, QuerySucceeds(r)
  PROVE  PageInv'
<1> USE DEF QuerySucceeds, Success, server
<1>1. issued \in Nat /\ loggedOut \in BOOLEAN
  BY DEF PageInv, StoreOK
<1>2. AllSound' /\ AskInv'
  BY <1>1, EndKeeps
<1>3. StoreOK' /\ OutInv'
  BY DEF PageInv, StoreOK, OutInv, Ready
<1>4. QED
  BY <1>2, <1>3 DEF PageInv

LEMMA LoginSucceedsKeeps ==
  ASSUME PageInv, NEW r \in Requests, LoginSucceeds(r)
  PROVE  PageInv'
<1> USE DEF LoginSucceeds, Success
<1>1. StoreOK
  BY DEF PageInv
<1>2. /\ issued' \in Nat /\ issued <= issued' /\ accessToken' \in 0..issued'
      /\ session' \in BOOLEAN /\ expired' \subseteq 1..issued'
  BY <1>1, SetsToken
<1>3. AllSound' /\ AskInv'
  BY <1>2, EndKeeps
<1>4. StoreOK'
  BY <1>1, <1>2 DEF StoreOK, Ready
<1>5. OutInv'
  BY DEF OutInv
<1>6. QED
  BY <1>3, <1>4, <1>5 DEF PageInv

LEMMA LogoutSucceedsKeeps ==
  ASSUME PageInv, NEW r \in Requests, LogoutSucceeds(r)
  PROVE  PageInv'
<1> USE DEF LogoutSucceeds, Success, LoggedOut, clearAccessToken
<1>1. StoreOK
  BY DEF PageInv
<1>2. issued \in Nat /\ issued' = issued /\ loggedOut' \in BOOLEAN
  BY <1>1 DEF StoreOK, NoRefresh
<1>3. \A o \in Requests : ~(At(o, "asking") /\ loggedOut')
  BY DEF NoRefresh, Pending
<1>4. AllSound' /\ AskInv'
  BY <1>2, <1>3, EndKeeps
<1>5. StoreOK'
  <2>1. accessToken' \in 0..issued' /\ expired' \subseteq 1..issued'
    BY <1>1, <1>2 DEF StoreOK
  <2>2. screen' \in {"login", "private"} /\ session' \in BOOLEAN
    OBVIOUS
  <2>3. QED
    BY <1>1, <1>2, <2>1, <2>2 DEF StoreOK, Ready
<1>6. OutInv'
  BY DEF OutInv, NoRefresh
<1>7. QED
  BY <1>4, <1>5, <1>6 DEF PageInv

LEMMA RejectKeeps ==
  ASSUME PageInv, NEW r \in Requests, At(r, "sent"), End(r, "rejected"),
         UNCHANGED <<store, screen, isRefreshing, queue, first, window, server, loggedOut>>
  PROVE  PageInv'
<1> USE DEF store, server
<1>1. issued \in Nat /\ loggedOut \in BOOLEAN
  BY DEF PageInv, StoreOK
<1>2. AllSound' /\ AskInv'
  BY <1>1, EndKeeps
<1>3. StoreOK' /\ OutInv'
  BY DEF PageInv, StoreOK, OutInv, Ready
<1>4. QED
  BY <1>2, <1>3 DEF PageInv

LEMMA RefusedKeeps ==
  ASSUME PageInv, NEW r \in Requests, NEW pc \in {"waiting", "asking"},
         At(r, "sent"), ~request[r].retry, Refused(r, pc),
         \/ pc = "waiting" /\ queue' = queue \cup {r} /\ UNCHANGED isRefreshing
         \/ pc = "asking" /\ ~isRefreshing /\ isRefreshing' = TRUE /\ UNCHANGED queue,
         UNCHANGED <<store, screen, first, window, server, loggedOut>>
  PROVE  PageInv'
<1> DEFINE q == RefusedWith(request[r], pc, session)
<1>1. request' = [request EXCEPT ![r] = q]
  BY Zenon DEF Refused, RefusedWith
<1>2. Sound(request[r], issued, loggedOut, Ready) /\ request[r].pc = "sent"
  BY DEF AllSound, PageInv, At
<1>3. /\ issued \in Nat /\ issued' = issued /\ loggedOut \in BOOLEAN
      /\ loggedOut' = loggedOut /\ Ready \in BOOLEAN /\ Ready' = Ready
      /\ session \in BOOLEAN
  BY DEF StoreOK, Ready, PageInv, server
<1>4. loggedOut => ~session
  BY DEF PageInv, OutInv
<1>5. Sound(q, issued, loggedOut, Ready) /\ q.pc = pc
  BY <1>2, <1>3, <1>4, RefusedSound
<1> HIDE DEF q
<1>6. /\ AllSound' /\ request'[r] = q
      /\ \A o \in Requests \ {r} : request'[o] = request[o]
  <2>1. Sound(q, issued', loggedOut', Ready')
    BY <1>3, <1>5
  <2>2. issued' \in Nat /\ issued <= issued' /\ loggedOut' \in BOOLEAN
    BY <1>3
  <2>3. (Ready => Ready') /\ (loggedOut' => loggedOut)
    BY <1>3
  <2>4. QED
    BY <1>1, <1>3, <2>1, <2>2, <2>3, OneMoves DEF PageInv
<1>7. AskInv'
  BY <1>5, <1>6, AskMoves DEF StoreOK, PageInv
<1>8. StoreOK' /\ OutInv'
  BY DEF PageInv, StoreOK, OutInv, Ready, store, server
<1>9. QED
  BY <1>6, <1>7, <1>8 DEF PageInv

LEMMA RefuseKeeps ==
  ASSUME PageInv, NEW r \in Requests, Refuse(r)
  PROVE  PageInv'
<1> USE DEF Refuse
<1>1. CASE request[r].retry
  BY <1>1, RejectKeeps
<1>2. CASE ~request[r].retry /\ isRefreshing
  BY <1>2, RefusedKeeps
<1>3. CASE ~request[r].retry /\ ~isRefreshing
  BY <1>3, RefusedKeeps
<1>4. QED
  BY <1>1, <1>2, <1>3

(* Those that wait and the one that asked are sent with the new token.     *)
LEMMA RefreshSucceedsKeeps ==
  ASSUME PageInv, NEW r \in Requests, RefreshSucceeds(r)
  PROVE  PageInv'
<1> USE DEF RefreshSucceeds
<1>1. StoreOK /\ AllSound /\ AskInv /\ OutInv
  BY DEF PageInv
<1>2. /\ issued' = issued + 1 /\ accessToken' = issued + 1
      /\ issued' \in Nat /\ issued <= issued' /\ accessToken' \in 0..issued'
      /\ session' \in BOOLEAN /\ expired' \subseteq 1..issued'
  BY <1>1, SetsToken
<1>3. /\ issued \in Nat /\ loggedOut \in BOOLEAN /\ loggedOut' = loggedOut
      /\ Ready \in BOOLEAN /\ Ready' = Ready
  BY <1>1 DEF StoreOK, Ready
<1>4. ~loggedOut
  BY <1>1 DEF AllSound, Sound, At
<1>5. request' = [o \in Requests |->
        IF o \in queue \cup {r} THEN Sent(request[o], accessToken') ELSE request[o]]
  BY Zenon DEF Again
<1>6. ASSUME NEW o \in Requests, o \in queue \cup {r}
      PROVE  Sound(request'[o], issued', loggedOut', Ready') /\ request'[o].pc = "sent"
  <2>1. request[o].pc \in {"waiting", "asking"}
    BY <1>1, <1>6 DEF AskInv, At
  <2>2. Sound(request[o], issued, loggedOut, Ready)
    BY <1>1 DEF AllSound
  <2>3. Sound(Sent(request[o], issued'), issued', loggedOut, Ready)
        /\ Sent(request[o], issued').pc = "sent"
    BY <1>2, <1>3, <2>1, <2>2, SentAgain
  <2>4. request'[o] = Sent(request[o], issued')
    BY <1>2, <1>5, <1>6
  <2>5. QED
    BY <1>3, <2>3, <2>4
<1>7. ASSUME NEW o \in Requests, o \notin queue \cup {r}
      PROVE  Sound(request'[o], issued', loggedOut', Ready') /\ request'[o] = request[o]
  <2>1. request'[o] = request[o]
    BY <1>5, <1>7
  <2>2. Sound(request[o], issued, loggedOut, Ready)
    BY <1>1 DEF AllSound
  <2>3. Sound(request[o], issued', loggedOut', Ready')
    BY <1>2, <1>3, <2>2, StaysSound
  <2>4. QED
    BY <2>1, <2>3
<1>8. AllSound'
  <2>1. \A o \in Requests : Sound(request'[o], issued', loggedOut', Ready')
    BY <1>6, <1>7
  <2>2. \A o \in Requests : request'[o] \in Request
    BY <2>1 DEF Sound
  <2>3. request' \in [Requests -> Request]
    BY <1>5, <2>2
  <2>4. QED
    BY <2>1, <2>3 DEF AllSound
<1>9. AskInv'
  <2>1. \A o \in Requests : ~At(o, "asking")'
    BY <1>1, <1>6, <1>7 DEF AskInv, At
  <2>2. QED
    BY <2>1 DEF AskInv
<1>10. StoreOK'
  BY <1>1, <1>2, <1>3 DEF StoreOK
<1>11. OutInv'
  BY <1>3, <1>4 DEF OutInv
<1>12. QED
  BY <1>8, <1>9, <1>10, <1>11 DEF PageInv

LEMMA RefreshFailsKeeps ==
  ASSUME PageInv, NEW r \in Requests, RefreshFails(r)
  PROVE  PageInv'
<1> USE DEF RefreshFails, clearAccessToken, server
<1>1. issued \in Nat /\ loggedOut \in BOOLEAN
  BY DEF PageInv, StoreOK
<1>2. ~At(r, "sent")
  BY DEF At
<1>3. AllSound' /\ AskInv'
  BY <1>1, <1>2, EndKeeps
<1>4. screen' \in {"login", "private"}
  BY DEF PageInv, StoreOK, PrivateRoute
<1>5. StoreOK'
  <2>1. accessToken' \in 0..issued' /\ window' \in {"open", "leaving", "gone"}
    BY <1>1
  <2>2. QED
    BY <1>4, <2>1 DEF PageInv, StoreOK, Ready
<1>6. OutInv'
  BY DEF PageInv, OutInv, PrivateRoute
<1>7. QED
  BY <1>3, <1>5, <1>6 DEF PageInv

(* The browser, the server and the clock.                                  *)
LEMMA OthersKeep ==
  ASSUME PageInv,
         Unload \/ SessionEnds \/ (\E token \in 1..issued : Expire(token))
           \/ UNCHANGED vars
  PROVE  PageInv'
<1> USE DEF Unload, SessionEnds, Expire, vars, store, server
<1>1. /\ UNCHANGED <<request, isRefreshing, queue, first, issued, loggedOut,
                     accessToken, hydrated, screen>>
      /\ session' \in {session, FALSE} /\ window' \in {window, "gone"}
  OBVIOUS
<1>2. expired' \subseteq 1..issued
  BY DEF PageInv, StoreOK
<1>3. StoreOK' /\ OutInv'
  BY <1>1, <1>2 DEF PageInv, StoreOK, OutInv, Ready
<1>4. AllSound'
  BY <1>1 DEF PageInv, AllSound, Ready
<1>5. AskInv'
  BY <1>1, NobodyAsks DEF PageInv
<1>6. QED
  BY <1>3, <1>4, <1>5 DEF PageInv

(* PageInv is inductive.                                                   *)
LEMMA NextKeeps == PageInv /\ [Next]_vars => PageInv'
<1> SUFFICES ASSUME PageInv, [Next]_vars PROVE PageInv'
  OBVIOUS
<1>1. CASE InitAuth
  BY <1>1, InitAuthKeeps
<1>2. ASSUME NEW r \in Requests, Ask(r) PROVE PageInv'
  <2>1. Ready
    BY <1>2 DEF Ask, PageInv, StoreOK
  <2>2. QED
    BY <1>2, <2>1, SendKeeps DEF Ask
<1>3. ASSUME NEW r \in Requests, Login(r) PROVE PageInv'
  BY <1>3, SendKeeps DEF Login
<1>4. ASSUME NEW r \in Requests, Answer(r) PROVE PageInv'
  <2>1. CASE QuerySucceeds(r)
    BY <2>1, QuerySucceedsKeeps
  <2>2. CASE LoginSucceeds(r)
    BY <2>2, LoginSucceedsKeeps
  <2>3. CASE LogoutSucceeds(r)
    BY <2>3, LogoutSucceedsKeeps
  <2>4. CASE Reject(r)
    BY <2>4, RejectKeeps DEF Reject
  <2>5. CASE Refuse(r)
    BY <2>5, RefuseKeeps
  <2>6. QED
    BY <1>4, <2>1, <2>2, <2>3, <2>4, <2>5 DEF Answer
<1>5. ASSUME NEW r \in Requests, Refreshed(r) PROVE PageInv'
  BY <1>5, RefreshSucceedsKeeps, RefreshFailsKeeps DEF Refreshed
<1>6. CASE Unload \/ SessionEnds \/ (\E token \in 1..issued : Expire(token))
             \/ UNCHANGED vars
  BY <1>6, OthersKeep
<1>7. QED
  BY <1>1, <1>2, <1>3, <1>4, <1>5, <1>6 DEF Next

(* PageInv holds in every state.                                           *)
LEMMA PageIsInvariant == Spec => []PageInv
BY InitKeeps, NextKeeps, PTL DEF Spec

-----------------------------------------------------------------------------
(* Theorems.                                                               *)

(* Every variable of Dashboard keeps its type.                             *)
THEOREM TypeCorrect == Spec => []TypeOK
<1>1. PageInv => TypeOK
  BY DEF PageInv, StoreOK, AllSound, TypeOK
<1>2. QED
  BY <1>1, PageIsInvariant, PTL

(* However many requests are refused at once, one refresh at most is under *)
(* way: isRefreshing is TRUE as long as a request asks for one, and the    *)
(* first refresh of a page is over before a private page asks for          *)
(* anything.                                                               *)
THEOREM OneRefreshAtATime == Spec => []RefreshesDoNotOverlap
<1>1. PageInv => RefreshesDoNotOverlap
  BY DEF PageInv, AskInv, AllSound, Sound, Ready, RefreshesDoNotOverlap, Pending, At
<1>2. QED
  BY <1>1, PageIsInvariant, PTL

(* A request is sent twice at most, the second time with a newer token:    *)
(* what waits was sent once, was refused with a token that had been        *)
(* issued, and is sent again only with one that is issued then.            *)
THEOREM SentTwiceAtMost == Spec => []RetriedOnceWithNewToken
<1>1. PageInv => RetriedOnceWithNewToken
  <2> SUFFICES ASSUME PageInv, NEW r \in Requests
               PROVE  /\ request[r].times <= 2
                      /\ request[r].times = 2 /\ At(r, "sent")
                           => request[r].token > request[r].before
    BY DEF RetriedOnceWithNewToken
  <2>1. Sound(request[r], issued, loggedOut, Ready)
    BY DEF PageInv, AllSound
  <2>2. QED
    BY <2>1 DEF Sound, At
<1>2. QED
  BY <1>1, PageIsInvariant, PTL

(* A logout that is answered with no refresh under way lasts: the server   *)
(* has no session then, so that what is refused later is refreshed in      *)
(* vain.                                                                   *)
THEOREM LogoutLasts == Spec => []LoggedOutStaysOut
<1>1. PageInv => LoggedOutStaysOut
  BY DEF PageInv, OutInv, LoggedOutStaysOut
<1>2. QED
  BY <1>1, PageIsInvariant, PTL

-----------------------------------------------------------------------------
(* THE PUBLIC STATUS PAGES                                                 *)

(* What was answered for a page.  The tags that the transaction of a        *)
(* request deletes are all that the page has when it ends, if no other      *)
(* request for the page was under way.  What was there before need not be   *)
(* what was answered, which counts again when the transaction is over.      *)
Join == [page : Pages, tag : Tags, by : Nat]
Job  == [pc : {"insert", "save", "clear", "commit"}, page : Pages, slug : Slugs,
         tags : SUBSET Tags, seen : SUBSET Join]
NoJob == [pc : {"idle"}]

Underway(g, r) ==
  /\ r.pc = "insert" => slug[g] = None
  /\ r.pc = "commit" /\ Stored(g) => JoinsOf(g) \subseteq r.seen

Replacing(g) == \E w \in Writers : Writes(w, g) /\ writer[w].pc = "commit"

AsAnswered(g) ==
  /\ \A w, o \in Writers : Writes(w, g) /\ Writes(o, g) => w = o
  /\ \A w \in Writers : Writes(w, g) => Underway(g, writer[w])
  /\ Stored(g) /\ ~Replacing(g) => GetTagIDs(g) = asked[g].tags

PagesTyped ==
  /\ slug \in [Pages -> Slugs \cup {None, "gone"}] /\ joins \subseteq Join /\ serial \in Nat
  /\ writer \in [Writers -> NoJob \cup Job]
  /\ asked \in [Pages -> [slug : Slugs \cup {None}, tags : SUBSET Tags]]

(* A transaction deletes nothing of other pages.                           *)
OwnJoins == \A w \in Writers : writer[w].pc = "commit" =>
              \A j \in writer[w].seen : j.page = writer[w].page

AnswerInv ==
  /\ PagesTyped /\ OwnJoins
  /\ \A g \in Pages : slug[g] = None => JoinsOf(g) = {}
  /\ \A g \in Pages : Stored(g) => slug[g] = asked[g].slug
  /\ \A g \in Pages \ disturbed : AsAnswered(g)

(* All that the invariant is about                                         *)
answers == <<slug, joins, writer, asked, disturbed>>

(* At the start no page exists.                                            *)
LEMMA InitAnswers == SPInit => AnswerInv
  <1> SUFFICES ASSUME SPInit PROVE AnswerInv
    OBVIOUS
  <1>1. PagesTyped /\ OwnJoins
    BY DEF SPInit, PagesTyped, OwnJoins, NoJob
  <1>2. \A g \in Pages : JoinsOf(g) = {} /\ ~Stored(g)
    BY StatusPageAssumption DEF SPInit, JoinsOf, Stored
  <1>3. \A w \in Writers, g \in Pages : ~Writes(w, g)
    BY DEF SPInit, Writes
  <1> QED
    BY <1>1, <1>2, <1>3 DEF AnswerInv, AsAnswered

(* Steps that touch neither pages nor requests.                            *)
LEMMA AnswersStay ==
  ASSUME AnswerInv, UNCHANGED answers, serial' \in Nat
  PROVE  AnswerInv'
  <1>1. PagesTyped' /\ OwnJoins'
    BY DEF AnswerInv, PagesTyped, OwnJoins, answers
  <1>2. \A g \in Pages : (slug[g] = None => JoinsOf(g) = {})'
                         /\ (Stored(g) => slug[g] = asked[g].slug)'
    BY DEF AnswerInv, JoinsOf, Stored, answers
  <1>3. ASSUME NEW g \in Pages \ disturbed PROVE AsAnswered(g)'
    BY DEF AnswerInv, AsAnswered, Replacing, Writes, Underway, Stored, JoinsOf, GetTagIDs,
           answers
  <1> QED
    BY <1>1, <1>2, <1>3 DEF AnswerInv, answers

(* What one writer does to a page it is not about.                         *)
LEMMA OtherPage ==
  ASSUME AnswerInv, NEW w \in Writers, NEW r, Goto(w, r), NEW g \in Pages \ disturbed,
         ~Writes(w, g), r.pc = "idle" \/ r.page # g,
         slug'[g] = slug[g], JoinsOf(g)' = JoinsOf(g), asked'[g] = asked[g]
  PROVE  AsAnswered(g)'
  <1>1. AsAnswered(g) /\ writer \in [Writers -> NoJob \cup Job]
    BY DEF AnswerInv, PagesTyped
  <1>2. writer'[w] = r /\ \A o \in Writers \ {w} : writer'[o] = writer[o]
    BY <1>1 DEF Goto
  <1>3. ~Writes(w, g)'
    BY <1>2 DEF Writes
  <1>4. /\ \A o \in Writers : Writes(o, g)' <=> Writes(o, g)
        /\ \A o \in Writers : Writes(o, g) => writer'[o] = writer[o]
    BY <1>2, <1>3 DEF Writes
  <1>5. Stored(g)' <=> Stored(g)
    BY DEF Stored
  <1>6. GetTagIDs(g)' = GetTagIDs(g)
    BY DEF GetTagIDs
  <1>7. \A o \in Writers : Writes(o, g)' => Underway(g, writer[o])'
    BY <1>1, <1>4, <1>5 DEF AsAnswered, Underway
  <1>8. Replacing(g)' <=> Replacing(g)
    BY <1>4 DEF Replacing
  <1> QED
    BY <1>1, <1>4, <1>5, <1>6, <1>7, <1>8 DEF AsAnswered

(* What one writer does to its own page, with no other about it            *)
LEMMA OwnPage ==
  ASSUME AnswerInv, NEW w \in Writers, NEW r, Goto(w, r), NEW g \in Pages,
         \A o \in Writers \ {w} : ~Writes(o, g),
         r.pc = "idle" \/ (r.page = g /\ Underway(g, r)'),
         r.pc = "commit" \/ (Stored(g)' => GetTagIDs(g)' = asked'[g].tags)
  PROVE  AsAnswered(g)'
  <1>1. writer \in [Writers -> NoJob \cup Job]
    BY DEF AnswerInv, PagesTyped
  <1>2. writer'[w] = r /\ \A o \in Writers \ {w} : writer'[o] = writer[o]
    BY <1>1 DEF Goto
  <1>3. \A o \in Writers : Writes(o, g)' => o = w
    BY <1>2 DEF Writes
  <1>4. Writes(w, g)' => Underway(g, writer[w])'
    BY <1>2 DEF Writes, Underway
  <1>5. CASE r.pc = "commit"
    <2>1. Replacing(g)'
      BY <1>2, <1>5 DEF Replacing, Writes
    <2> QED
      BY <1>3, <1>4, <2>1 DEF AsAnswered
  <1> QED
    BY <1>3, <1>4, <1>5 DEF AsAnswered

(* A request is taken on.                                                  *)
LEMMA RequestAnswers ==
  ASSUME AnswerInv, NEW w \in Writers, NEW g \in Pages, NEW s \in Slugs \cup {None},
         NEW tags \in SUBSET Tags,
         (s # None /\ Create(w, g, s, tags)) \/ Update(w, g, s, tags)
  PROVE  AnswerInv'
  <1>1. UNCHANGED <<slug, joins, asked, serial>>
    BY DEF Create, Update, pages
  <1>2. PICK r : /\ Goto(w, r)
                 /\ \/ r = PageRequest("insert", g, s, tags) /\ slug[g] = None /\ s # None
                    \/ r = PageRequest("save", g, IF s = None THEN slug[g] ELSE s, tags)
                       /\ Stored(g)
    BY DEF Create, Update
  <1>3. /\ r \in Job /\ r.page = g /\ r.pc \in {"insert", "save"}
        /\ r.pc = "insert" => slug[g] = None
    BY <1>2 DEF PageRequest, Job, Stored
  <1>4. /\ writer \in [Writers -> NoJob \cup Job]
        /\ writer' = [writer EXCEPT ![w] = r]
    BY <1>2 DEF Goto, AnswerInv, PagesTyped
  <1>5. PagesTyped'
    BY <1>1, <1>3, <1>4 DEF AnswerInv, PagesTyped
  <1>6. OwnJoins'
    BY <1>3, <1>4 DEF AnswerInv, OwnJoins
  <1>7. /\ disturbed \subseteq disturbed' /\ \A h \in Pages : ~Writes(w, h)
        /\ g \notin disturbed' => \A o \in Writers : ~Writes(o, g)
    BY DEF Create, Update, Begin, Writes
  <1>8. ASSUME NEW h \in Pages \ disturbed' PROVE AsAnswered(h)'
    <2>1. h \in Pages \ disturbed /\ AsAnswered(h)
      BY <1>7 DEF AnswerInv
    <2>2. CASE h # g
      BY <1>1, <1>2, <1>3, <1>7, <2>1, <2>2, OtherPage DEF JoinsOf
    <2>3. CASE h = g
      <3>1. Underway(g, r)'
        BY <1>1, <1>3 DEF Underway
      <3>2. Stored(g)' => GetTagIDs(g)' = asked'[g].tags
        BY <1>1, <1>7, <1>8, <2>1, <2>3 DEF AsAnswered, Replacing, Stored, GetTagIDs, JoinsOf
      <3> QED
        BY <1>2, <1>3, <1>7, <1>8, <2>1, <2>3, <3>1, <3>2, OwnPage
    <2> QED
      BY <2>2, <2>3
  <1>9. \A h \in Pages : (slug[h] = None => JoinsOf(h) = {})'
                         /\ (Stored(h) => slug[h] = asked[h].slug)'
    BY <1>1 DEF AnswerInv, JoinsOf, Stored
  <1> QED
    BY <1>5, <1>6, <1>8, <1>9 DEF AnswerInv

(* The page's own row is written.                                          *)
LEMMA RowAnswers ==
  ASSUME AnswerInv, NEW w \in Writers, InsertPage(w) \/ SavePage(w)
  PROVE  AnswerInv'
  <1> PICK q : q = writer[w]
    OBVIOUS
  <1> PICK g : g = q.page
    OBVIOUS
  <1>1. /\ PagesTyped /\ writer \in [Writers -> NoJob \cup Job]
        /\ q \in Job /\ g \in Pages /\ Writes(w, g)
    BY DEF InsertPage, SavePage, AnswerInv, PagesTyped, NoJob, Job, Writes
  <1>2. UNCHANGED <<joins, serial, disturbed>>
    BY DEF InsertPage, SavePage
  <1>3. PICK r : /\ Goto(w, r)
                 /\ \/ r = [pc |-> "idle"]
                    \/ r = [q EXCEPT !.pc = "clear"]
    BY DEF InsertPage, SavePage, Finish, Proceed
  <1>4. /\ r \in NoJob \cup Job
        /\ r.pc = "idle" \/ (r.pc = "clear" /\ r.page = g)
    <2>1. [q EXCEPT !.pc = "clear"] \in Job /\ [q EXCEPT !.pc = "clear"].pc = "clear"
          /\ [q EXCEPT !.pc = "clear"].page = g
      BY <1>1 DEF Job
    <2>2. [pc |-> "idle"] \in NoJob
      BY DEF NoJob
    <2>3. CASE r = [pc |-> "idle"]
      BY <2>2, <2>3
    <2>4. CASE r = [q EXCEPT !.pc = "clear"]
      BY Zenon, <2>1, <2>4
    <2> QED
      BY <1>3, <2>3, <2>4
  <1>5. writer' = [writer EXCEPT ![w] = r]
    BY <1>3 DEF Goto
  <1>6. \/ UNCHANGED <<slug, asked>>
        \/ /\ q.pc = "insert"
           /\ slug' = [slug EXCEPT ![g] = q.slug]
           /\ asked' = [asked EXCEPT ![g] = [slug |-> q.slug, tags |-> {}]]
        \/ /\ q.pc = "save"
           /\ slug' = IF Stored(g) THEN [slug EXCEPT ![g] = q.slug] ELSE slug
           /\ asked' = [asked EXCEPT ![g].slug = q.slug]
    BY DEF InsertPage, SavePage
  <1>7. q.slug \in Slugs /\ q.slug # None
    BY <1>1, StatusPageAssumption DEF Job
  <1>8. PagesTyped'
    <2>1. slug' \in [Pages -> Slugs \cup {None, "gone"}]
      BY <1>1, <1>6, <1>7 DEF PagesTyped
    <2>2. asked' \in [Pages -> [slug : Slugs \cup {None}, tags : SUBSET Tags]]
      BY <1>1, <1>6, <1>7 DEF PagesTyped
    <2> QED
      BY <1>1, <1>2, <1>4, <1>5, <2>1, <2>2 DEF PagesTyped
  <1>9. OwnJoins'
    BY <1>1, <1>4, <1>5 DEF AnswerInv, OwnJoins
  <1>10. \A h \in Pages : slug'[h] # slug[h] => h = g /\ slug'[h] # None
    BY <1>1, <1>6, <1>7 DEF PagesTyped
  <1>11. \A h \in Pages : (slug[h] = None => JoinsOf(h) = {})'
    BY <1>2, <1>10 DEF AnswerInv, JoinsOf
  <1>13. ASSUME NEW h \in Pages PROVE (Stored(h) => slug[h] = asked[h].slug)'
    <2>1. Stored(h) => slug[h] = asked[h].slug
      BY DEF AnswerInv
    <2>2. h = g \/ (slug'[h] = slug[h] /\ asked'[h] = asked[h])
      BY <1>1, <1>6 DEF PagesTyped
    <2>3. CASE UNCHANGED <<slug, asked>>
      BY <2>1, <2>3 DEF Stored
    <2>4. CASE ~UNCHANGED <<slug, asked>>
      BY <1>1, <1>6, <2>1, <2>2, <2>4 DEF PagesTyped, Stored
    <2> QED
      BY <2>3, <2>4
  <1>12. ASSUME NEW h \in Pages \ disturbed PROVE AsAnswered(h)'
    <2>1. AsAnswered(h)
      BY DEF AnswerInv
    <2>2. CASE h # g
      <3>1. asked'[h] = asked[h] /\ slug'[h] = slug[h] /\ ~Writes(w, h)
        BY <1>1, <1>6, <2>2 DEF PagesTyped, Writes
      <3> QED
        BY <1>2, <1>3, <1>4, <2>2, <3>1, OtherPage DEF JoinsOf
    <2>3. CASE h = g
      <3>1. q.pc = "insert" => JoinsOf(g) = {}
        BY <1>1, <2>1, <2>3 DEF AsAnswered, AnswerInv, Underway
      <3>4. /\ \A o \in Writers \ {w} : ~Writes(o, g)
            /\ Stored(g) => GetTagIDs(g) = asked[g].tags
        <4>1. \A o \in Writers \ {w} : ~Writes(o, g)
          BY <1>1, <2>1, <2>3 DEF AsAnswered
        <4>2. q.pc # "commit"
          BY DEF InsertPage, SavePage
        <4> QED
          BY <2>1, <2>3, <4>1, <4>2 DEF AsAnswered, Replacing
      <3>2. Stored(g)' => GetTagIDs(g)' = asked'[g].tags
        <4>1. CASE UNCHANGED <<slug, asked>>
          BY <1>2, <3>4, <4>1 DEF Stored, GetTagIDs, JoinsOf
        <4>2. CASE /\ q.pc = "insert"
                   /\ slug' = [slug EXCEPT ![g] = q.slug]
                   /\ asked' = [asked EXCEPT ![g] = [slug |-> q.slug, tags |-> {}]]
          <5>1. asked'[g].tags = {}
            BY <1>1, <4>2 DEF PagesTyped
          <5>2. GetTagIDs(g)' = {}
            BY <1>2, <3>1, <4>2 DEF GetTagIDs, JoinsOf
          <5> QED
            BY <5>1, <5>2
        <4>3. CASE /\ slug' = IF Stored(g) THEN [slug EXCEPT ![g] = q.slug] ELSE slug
                   /\ asked' = [asked EXCEPT ![g].slug = q.slug]
          <5>1. asked'[g].tags = asked[g].tags
            BY <1>1, <4>3 DEF PagesTyped
          <5>2. Stored(g)' => Stored(g)
            BY <1>1, <4>3 DEF PagesTyped, Stored
          <5>3. GetTagIDs(g)' = GetTagIDs(g)
            BY <1>2 DEF GetTagIDs, JoinsOf
          <5> QED
            BY <3>4, <5>1, <5>2, <5>3
        <4> QED
          BY <1>6, <4>1, <4>2, <4>3
      <3>3. r.pc = "idle" \/ (r.page = g /\ Underway(g, r)')
        BY <1>4 DEF Underway
      <3> QED
        BY <1>1, <1>3, <2>3, <3>2, <3>3, <3>4, OwnPage
    <2> QED
      BY <2>2, <2>3
  <1> QED
    BY <1>2, <1>8, <1>9, <1>11, <1>12, <1>13 DEF AnswerInv

(* The tags that the page has now are those that will be deleted, and a     *)
(* page that nobody else writes is repaired.                                *)
LEMMA ClearAnswers ==
  ASSUME AnswerInv, NEW w \in Writers, ClearTags(w)
  PROVE  AnswerInv'
  <1> PICK q : q = writer[w]
    OBVIOUS
  <1> PICK g : g = q.page
    OBVIOUS
  <1> PICK r : r = [q EXCEPT !.pc = "commit", !.seen = JoinsOf(g)]
    OBVIOUS
  <1>1. /\ PagesTyped /\ writer \in [Writers -> NoJob \cup Job]
        /\ q \in Job /\ g \in Pages /\ Writes(w, g)
    BY DEF ClearTags, AnswerInv, PagesTyped, NoJob, Job, Writes
  <1>2. /\ UNCHANGED <<slug, joins, asked, serial>> /\ Goto(w, r)
        /\ disturbed' = disturbed \ Repairs(w)
    BY DEF ClearTags, pages
  <1>3. r \in Job /\ r.pc = "commit" /\ r.page = g /\ r.seen = JoinsOf(g)
    BY <1>1 DEF Job, JoinsOf, PagesTyped
  <1>4. writer' = [writer EXCEPT ![w] = r]
    BY <1>2 DEF Goto
  <1>5. PagesTyped'
    BY <1>1, <1>2, <1>3, <1>4 DEF PagesTyped
  <1>6. OwnJoins'
    BY <1>1, <1>3, <1>4 DEF AnswerInv, OwnJoins, JoinsOf
  <1>7. \A h \in Pages : (slug[h] = None => JoinsOf(h) = {})'
                         /\ (Stored(h) => slug[h] = asked[h].slug)'
    BY <1>2 DEF AnswerInv, JoinsOf, Stored
  <1>8. ASSUME NEW h \in Pages \ disturbed' PROVE AsAnswered(h)'
    <2>1. h # g => h \notin disturbed
      BY <1>2 DEF Repairs
    <2>2. CASE h # g
      <3>1. ~Writes(w, h)
        BY <2>2 DEF Writes
      <3> QED
        BY <1>2, <1>3, <2>1, <2>2, <3>1, OtherPage DEF JoinsOf
    <2>3. CASE h = g
      <3>1. Underway(g, r)'
        BY <1>2, <1>3 DEF Underway, JoinsOf
      <3>2. \A o \in Writers \ {w} : ~Writes(o, g)
        <4>1. CASE h \in disturbed
          BY <1>2, <2>3, <4>1 DEF Repairs
        <4>2. CASE h \notin disturbed
          BY <1>1, <2>3, <4>2 DEF AnswerInv, AsAnswered
        <4> QED
          BY <4>1, <4>2
      <3> QED
        BY <1>2, <1>3, <2>3, <3>1, <3>2, OwnPage
    <2> QED
      BY <2>2, <2>3
  <1> QED
    BY <1>2, <1>5, <1>6, <1>7, <1>8 DEF AnswerInv

(* The transaction ends.  Nothing is left of the old tags, unless one of    *)
(* the new is not there or named twice, which disturbs.                     *)
LEMMA CommitAnswers ==
  ASSUME AnswerInv, NEW w \in Writers, SetTags(w)
  PROVE  AnswerInv'
  <1> PICK q : q = writer[w]
    OBVIOUS
  <1> PICK g : g = q.page
    OBVIOUS
  <1> DEFINE rest == JoinsOf(g) \ q.seen
             there == \A t \in q.tags : tag[t] = "stored"
             fresh == Stored(g) /\ there /\ \A j \in rest : j.tag \notin q.tags
             new == {[page |-> g, tag |-> t, by |-> serial + 1] : t \in q.tags}
  <1>1. /\ PagesTyped /\ writer \in [Writers -> NoJob \cup Job]
        /\ q \in Job /\ g \in Pages /\ Writes(w, g) /\ q.pc = "commit" /\ q.tags \subseteq Tags
    BY DEF SetTags, AnswerInv, PagesTyped, NoJob, Job, Writes
  <1> PICK r : r = [pc |-> "idle"]
    OBVIOUS
  <1>2. /\ UNCHANGED slug /\ Goto(w, r) /\ serial' = serial + 1
        /\ asked' = [asked EXCEPT ![g].tags = {t \in q.tags : tag[t] = "stored"}]
    BY DEF SetTags, Finish
  <1>10. PICK twice \in {FALSE, q.tags # {}} :
           /\ joins' = IF fresh /\ ~twice THEN (joins \ q.seen) \cup new ELSE joins
           /\ disturbed' = disturbed \cup IF there /\ ~twice THEN {} ELSE {g}
    BY DEF SetTags
  <1>3. new \subseteq Join /\ \A j \in new : j.page = g
    BY <1>1 DEF Join, PagesTyped
  <1>4. PagesTyped'
    <2>1. joins' \subseteq Join
      BY <1>1, <1>3, <1>10 DEF PagesTyped
    <2>2. asked' \in [Pages -> [slug : Slugs \cup {None}, tags : SUBSET Tags]]
      BY <1>1, <1>2 DEF PagesTyped
    <2>3. r \in NoJob
      BY DEF NoJob
    <2> QED
      BY <1>1, <1>2, <2>1, <2>2, <2>3 DEF PagesTyped, Goto
  <1>5. OwnJoins'
    BY <1>1, <1>2 DEF AnswerInv, OwnJoins, Goto
  <1>6. \A j \in q.seen : j.page = g
    BY <1>1 DEF AnswerInv, OwnJoins
  <1>7. ASSUME NEW h \in Pages, h # g PROVE JoinsOf(h)' = JoinsOf(h)
    BY <1>3, <1>6, <1>7, <1>10 DEF JoinsOf
  <1>8. ASSUME NEW h \in Pages, slug'[h] = None PROVE JoinsOf(h)' = {}
    <2>1. CASE h # g
      BY <1>2, <1>7, <1>8, <2>1 DEF AnswerInv
    <2>2. CASE h = g
      <3>1. ~Stored(g)
        BY <1>2, <1>8, <2>2, StatusPageAssumption DEF Stored
      <3> QED
        BY <1>2, <1>8, <1>10, <2>2, <3>1 DEF AnswerInv, JoinsOf
    <2> QED
      BY <2>1, <2>2
  <1>11. ASSUME NEW h \in Pages PROVE (Stored(h) => slug[h] = asked[h].slug)'
    <2>1. asked'[h].slug = asked[h].slug
      BY <1>1, <1>2 DEF PagesTyped
    <2> QED
      BY <1>2, <2>1 DEF AnswerInv, Stored
  <1>9. ASSUME NEW h \in Pages \ disturbed' PROVE AsAnswered(h)'
    <2>1. h \in Pages \ disturbed /\ AsAnswered(h)
      BY <1>10 DEF AnswerInv
    <2>2. CASE h # g
      <3>1. asked'[h] = asked[h] /\ ~Writes(w, h)
        BY <1>1, <1>2, <2>2 DEF PagesTyped, Writes
      <3> QED
        BY <1>2, <1>7, <2>1, <2>2, <3>1, OtherPage
    <2>3. CASE h = g
      <3>1. there /\ ~twice
        BY <1>9, <1>10, <2>3
      <3>2. ASSUME Stored(g)'
            PROVE  GetTagIDs(g)' = asked'[g].tags
        <4>1. Stored(g)
          BY <1>2, <3>2 DEF Stored
        <4>2. JoinsOf(g) \subseteq q.seen
          BY <1>1, <2>1, <2>3, <4>1 DEF AsAnswered, Underway
        <4>3. joins' = (joins \ q.seen) \cup new
          BY <1>10, <3>1, <4>1, <4>2
        <4>4. JoinsOf(g)' = new
          BY <1>3, <4>2, <4>3 DEF JoinsOf
        <4>5. GetTagIDs(g)' = q.tags
          <5> HIDE DEF new
          <5>1. GetTagIDs(g)' = {j.tag : j \in new}
            BY <4>4 DEF GetTagIDs
          <5>2. \A x \in {j.tag : j \in new} : x \in q.tags
            BY DEF new
          <5>3. ASSUME NEW x \in q.tags PROVE x \in {j.tag : j \in new}
            <6>1. [page |-> g, tag |-> x, by |-> serial + 1] \in new
              BY DEF new
            <6> QED
              BY <6>1
          <5> QED
            BY <5>1, <5>2, <5>3
        <4>6. asked'[g].tags = {t \in q.tags : tag[t] = "stored"}
          BY <1>1, <1>2 DEF PagesTyped
        <4>7. asked'[g].tags = q.tags
          BY <3>1, <4>6
        <4> QED
          BY <4>5, <4>7
      <3>3. \A o \in Writers \ {w} : ~Writes(o, g)
        BY <1>1, <2>1, <2>3 DEF AsAnswered
      <3> QED
        BY <1>2, <2>3, <3>2, <3>3, OwnPage
    <2> QED
      BY <2>2, <2>3
  <1> QED
    BY <1>4, <1>5, <1>8, <1>9, <1>11 DEF AnswerInv

(* A call that fails ends its request and disturbs the page.               *)
LEMMA FailAnswers ==
  ASSUME AnswerInv, NEW w \in Writers, WriteFails(w)
  PROVE  AnswerInv'
  <1> PICK r : r = [pc |-> "idle"]
    OBVIOUS
  <1>1. /\ UNCHANGED <<slug, joins, asked, serial>> /\ Goto(w, r)
        /\ disturbed \subseteq disturbed' /\ writer[w].page \in disturbed'
    BY DEF WriteFails, Finish, pages
  <1>2. r \in NoJob
    BY DEF NoJob
  <1>3. PagesTyped' /\ OwnJoins'
    BY <1>1, <1>2 DEF AnswerInv, PagesTyped, OwnJoins, Goto
  <1>4. \A h \in Pages : (slug[h] = None => JoinsOf(h) = {})'
                         /\ (Stored(h) => slug[h] = asked[h].slug)'
    BY <1>1 DEF AnswerInv, JoinsOf, Stored
  <1>5. ASSUME NEW h \in Pages \ disturbed' PROVE AsAnswered(h)'
    <2>1. ~Writes(w, h)
      BY <1>1 DEF Writes
    <2> QED
      BY <1>1, <2>1, OtherPage DEF JoinsOf
  <1> QED
    BY <1>3, <1>4, <1>5 DEF AnswerInv

(* Pages and tags are deleted under the requests.                          *)
LEMMA DeleteAnswers ==
  ASSUME AnswerInv, NEW g \in Pages, Delete(g)
  PROVE  AnswerInv'
  <1>1. /\ UNCHANGED <<writer, serial, asked, disturbed>> /\ Stored(g)
        /\ slug' = [slug EXCEPT ![g] = "gone"] /\ joins' = joins \ JoinsOf(g)
    BY DEF Delete, history
  <1>2. PagesTyped' /\ OwnJoins'
    BY <1>1 DEF AnswerInv, PagesTyped, OwnJoins
  <1>3. slug'[g] = "gone" /\ \A h \in Pages \ {g} : slug'[h] = slug[h]
    BY <1>1 DEF AnswerInv, PagesTyped
  <1>4. \A h \in Pages \ {g} : JoinsOf(h)' = JoinsOf(h)
    BY <1>1 DEF JoinsOf
  <1>6. ~Stored(g)'
    BY <1>3, StatusPageAssumption DEF Stored
  <1>5. \A h \in Pages : (slug[h] = None => JoinsOf(h) = {})'
                         /\ (Stored(h) => slug[h] = asked[h].slug)'
    BY <1>1, <1>3, <1>4, <1>6, StatusPageAssumption DEF AnswerInv, Stored
  <1>7. slug[g] # None
    BY <1>1, StatusPageAssumption DEF Stored
  <1>8. ASSUME NEW h \in Pages \ disturbed' PROVE AsAnswered(h)'
    <2>1. AsAnswered(h)
      BY <1>1 DEF AnswerInv
    <2>2. CASE h # g
      <3>1. GetTagIDs(h)' = GetTagIDs(h)
        BY <1>4, <2>2 DEF GetTagIDs
      <3> QED
        BY <1>1, <1>3, <1>4, <2>1, <2>2, <3>1
        DEF AsAnswered, Replacing, Writes, Underway, Stored
    <2>3. CASE h = g
      BY <1>1, <1>6, <1>7, <2>1, <2>3 DEF AsAnswered, Writes, Underway
    <2> QED
      BY <2>2, <2>3
  <1> QED
    BY <1>2, <1>5, <1>8 DEF AnswerInv

(* A deleted tag goes from the pages and from what was answered for them.  *)
LEMMA DeleteTagAnswers ==
  ASSUME AnswerInv, NEW t \in Tags, DeleteTag(t)
  PROVE  AnswerInv'
  <1>1. /\ UNCHANGED <<slug, writer, serial, disturbed>>
        /\ joins' = {j \in joins : j.tag # t}
        /\ asked' = [g \in Pages |-> [asked[g] EXCEPT !.tags = @ \ {t}]]
    BY DEF DeleteTag
  <1>2. PagesTyped
    BY DEF AnswerInv
  <1>3. \A g \in Pages : asked'[g].slug = asked[g].slug /\ asked'[g].tags = asked[g].tags \ {t}
    BY <1>1, <1>2 DEF PagesTyped
  <1>4. PagesTyped' /\ OwnJoins'
    BY <1>1, <1>2 DEF AnswerInv, PagesTyped, OwnJoins
  <1>5. \A g \in Pages : JoinsOf(g)' = {j \in JoinsOf(g) : j.tag # t}
    BY <1>1 DEF JoinsOf
  <1>6. \A g \in Pages : GetTagIDs(g)' = GetTagIDs(g) \ {t}
    BY <1>5 DEF GetTagIDs
  <1>7. \A h \in Pages : (slug[h] = None => JoinsOf(h) = {})'
                         /\ (Stored(h) => slug[h] = asked[h].slug)'
    BY <1>1, <1>3, <1>5 DEF AnswerInv, Stored
  <1>8. ASSUME NEW h \in Pages \ disturbed' PROVE AsAnswered(h)'
    <2>1. AsAnswered(h)
      BY <1>1 DEF AnswerInv
    <2> QED
      BY <1>1, <1>3, <1>5, <1>6, <2>1 DEF AsAnswered, Replacing, Writes, Underway, Stored
  <1> QED
    BY <1>4, <1>7, <1>8 DEF AnswerInv

(* AnswerInv is inductive.                                                 *)
LEMMA StepAnswers == AnswerInv /\ [SPNext]_spvars => AnswerInv'
  <1> SUFFICES ASSUME AnswerInv, [SPNext]_spvars PROVE AnswerInv'
    OBVIOUS
  <1>1. ASSUME NEW w \in Writers, Write(w) PROVE AnswerInv'
    BY <1>1, RowAnswers, ClearAnswers, CommitAnswers, FailAnswers DEF Write
  <1>2. ASSUME NEW w \in Writers, NEW g \in Pages, HandlePage(w, g) PROVE AnswerInv'
    <2>1. None \notin Slugs
      BY StatusPageAssumption
    <2> QED
      BY <1>2, <2>1, RequestAnswers, DeleteAnswers DEF HandlePage
  <1>3. serial \in Nat
    BY DEF AnswerInv, PagesTyped
  <1>4. ASSUME NEW t \in Tags, HandleTag(t) PROVE AnswerInv'
    <2>1. CASE CreateTag(t)
      BY <1>3, <2>1, AnswersStay DEF CreateTag, answers, pages, history
    <2> QED
      BY <1>4, <2>1, DeleteTagAnswers DEF HandleTag
  <1>5. ASSUME NEW t \in Tags, NEW m \in Monitors, HandleMonitorTag(m, t) PROVE AnswerInv'
    BY <1>3, <1>5, AnswersStay
    DEF HandleMonitorTag, AssignTag, UnassignTag, answers, pages, history
  <1>6. ASSUME NEW m \in Monitors,
               UpdateLastStatus(m) \/ UpdateIncidents(m) \/ DeleteMonitor(m)
        PROVE  AnswerInv'
    BY <1>3, <1>6, AnswersStay
    DEF UpdateLastStatus, UpdateIncidents, DeleteMonitor, answers, pages, history
  <1>7. ASSUME NEW v \in Visits, GetPublic(v) PROVE AnswerInv'
    BY <1>3, <1>7, AnswersStay
    DEF GetPublic, FindBySlug, ReadTags, ReadMonitors, ReadActive, ReadRecent, ReadFails,
        world, answers, pages, history
  <1>8. CASE UNCHANGED spvars
    BY <1>3, <1>8, AnswersStay DEF spvars, answers
  <1> QED
    BY <1>1, <1>2, <1>4, <1>5, <1>6, <1>7, <1>8 DEF SPNext

(* However requests, deleted tags and other pages interleave, a page is as  *)
(* it was last answered, unless its own requests overlapped or failed and   *)
(* none that met no other has replaced its tags since.                      *)
THEOREM PagesAreKept == SPSpec => []PageIsAsAnswered
  <1>1. AnswerInv => PageIsAsAnswered
    <2> SUFFICES ASSUME AnswerInv, NEW g \in DOMAIN List, g \notin disturbed,
                        \A w \in Writers : ~Writes(w, g)
                 PROVE  List[g] = asked[g]
      BY DEF PageIsAsAnswered
    <2>1. g \in Pages /\ Stored(g) /\ List[g] = [slug |-> slug[g], tags |-> GetTagIDs(g)]
      BY DEF List, GetByID
    <2>2. asked[g] \in [slug : Slugs \cup {None}, tags : SUBSET Tags]
      BY <2>1 DEF AnswerInv, PagesTyped
    <2>3. slug[g] = asked[g].slug /\ GetTagIDs(g) = asked[g].tags
      BY <2>1 DEF AnswerInv, AsAnswered, Replacing
    <2> QED
      BY <2>1, <2>2, <2>3
  <1> QED
    BY <1>1, InitAnswers, StepAnswers, PTL DEF SPSpec
-----------------------------------------------------------------------------
(* Statuses and incidents.  Between checks of a monitor, it is down only    *)
(* with an open incident, and an open one that no maintenance came over     *)
(* only when it is down.                                                    *)
Condition == {"unknown", "up", "down", "maintenance", "gone"}
Incident  == [monitor : Monitors, n : Nat, open : BOOLEAN, maintained : BOOLEAN]

Accounted(m) ==
  /\ due[m] = "open" => status[m] = "down"
  /\ due[m] = "resolve" => status[m] = "up"
  /\ due[m] = "nothing" => /\ status[m] = "down" => Open(m) # {}
                           /\ \A i \in Open(m) : i.maintained \/ status[m] = "down"

CheckInv ==
  /\ status \in [Monitors -> Condition]
  /\ due \in [Monitors -> {"nothing", "open", "resolve"}]
  /\ incidents \subseteq Incident /\ IsFiniteSet(incidents) /\ serial \in Nat
  /\ \A m \in Monitors : Accounted(m)

(* At the start nothing was checked.                                       *)
LEMMA InitChecks == SPInit => CheckInv
  BY FS_EmptySet DEF SPInit, CheckInv, Condition, Accounted, Open

(* Steps that touch neither statuses nor incidents.                        *)
LEMMA ChecksStay ==
  ASSUME CheckInv, UNCHANGED <<status, due, incidents>>, serial' \in Nat
  PROVE  CheckInv'
  BY DEF CheckInv, Accounted, Open

(* The image of a finite set is finite.                                    *)
LEMMA FiniteImage ==
  ASSUME NEW S, IsFiniteSet(S), NEW f
  PROVE  IsFiniteSet({f[x] : x \in S})
  <1> DEFINE T == {f[x] : x \in S}
             g == [x \in S |-> f[x]]
  <1>1. g \in Surjection(S, T)
    BY DEF Surjection
  <1> QED
    BY <1>1, FS_Surjection

(* The incidents of one monitor are replaced.                              *)
LEMMA OneIsChecked ==
  ASSUME CheckInv, NEW m \in Monitors, NEW E, E \subseteq Incident, IsFiniteSet(E),
         \A e \in E : e.monitor = m,
         incidents' = (incidents \ Open(m)) \cup E,
         status' \in [Monitors -> Condition],
         due' \in [Monitors -> {"nothing", "open", "resolve"}], serial' \in Nat,
         \A k \in Monitors \ {m} : status'[k] = status[k] /\ due'[k] = due[k],
         due'[m] = "open" => status'[m] = "down",
         due'[m] = "resolve" => status'[m] = "up",
         due'[m] = "nothing" /\ status'[m] = "down" => \E e \in E : e.open,
         due'[m] = "nothing" => \A e \in E : e.open => e.maintained \/ status'[m] = "down"
  PROVE  CheckInv'
  <1>1. incidents' \subseteq Incident /\ IsFiniteSet(incidents')
    BY FS_Subset, FS_Union DEF CheckInv
  <1>2. ASSUME NEW k \in Monitors \ {m} PROVE Accounted(k)'
    <2>1. Open(k)' = Open(k)
      BY DEF Open
    <2> QED
      BY <2>1 DEF CheckInv, Accounted
  <1>3. Open(m)' = {e \in E : e.open}
    BY DEF Open
  <1>4. Accounted(m)'
    BY <1>3 DEF Accounted
  <1> QED
    BY <1>1, <1>2, <1>4 DEF CheckInv

(* A check that records a status.                                          *)
LEMMA StatusChecks ==
  ASSUME CheckInv, NEW m \in Monitors, UpdateLastStatus(m)
  PROVE  CheckInv'
  <1> DEFINE maintain(i, s) == [i EXCEPT !.maintained = @ \/ s = "maintenance"]
  <1>1. PICK s \in {"up", "down", "maintenance"} \ {status[m]} :
          /\ status' = [status EXCEPT ![m] = s]
          /\ due' = [due EXCEPT ![m] =
               CASE s = "down"                      -> "open"
                 [] s = "up" /\ status[m] = "down"  -> "resolve"
                 [] OTHER                           -> "nothing"]
          /\ incidents' = (incidents \ Open(m)) \cup {maintain(i, s) : i \in Open(m)}
    BY DEF UpdateLastStatus
  <1>2. /\ UNCHANGED serial /\ due[m] = "nothing" /\ Accounted(m)
        /\ status \in [Monitors -> Condition] /\ Open(m) \subseteq Incident
        /\ due \in [Monitors -> {"nothing", "open", "resolve"}]
    BY DEF UpdateLastStatus, CheckInv, Open
  <1> PICK O : O = Open(m)
    OBVIOUS
  <1> PICK f : f = [i \in O |-> maintain(i, s)]
    OBVIOUS
  <1> PICK E : E = {f[i] : i \in O}
    OBVIOUS
  <1>3. IsFiniteSet(E)
    <2>1. IsFiniteSet(O)
      BY FS_Subset DEF CheckInv, Open
    <2> QED
      BY <2>1, FiniteImage
  <1>4. E = {maintain(i, s) : i \in Open(m)}
    OBVIOUS
  <1>5. ASSUME NEW i \in O
        PROVE  /\ f[i] \in Incident /\ f[i].monitor = m /\ f[i].open
               /\ f[i].maintained = (i.maintained \/ s = "maintenance")
    <2>1. i \in Incident /\ i.monitor = m /\ i.open
      BY <1>2 DEF Open
    <2>2. f[i] = maintain(i, s)
      OBVIOUS
    <2> QED
      BY <2>1, <2>2 DEF Incident
  <1>6. \A e \in E : /\ e \in Incident /\ e.monitor = m /\ e.open
                     /\ \E i \in Open(m) : e.maintained = (i.maintained \/ s = "maintenance")
    <2> HIDE DEF maintain
    <2> SUFFICES ASSUME NEW i \in O
                 PROVE  /\ f[i] \in Incident /\ f[i].monitor = m /\ f[i].open
                        /\ \E j \in Open(m) : f[i].maintained = (j.maintained \/ s = "maintenance")
      OBVIOUS
    <2> QED
      BY Zenon, <1>5
  <1>7. status'[m] = s /\ status' \in [Monitors -> Condition]
    BY <1>1, <1>2 DEF Condition
  <1>8. due'[m] = CASE s = "down"                      -> "open"
                    [] s = "up" /\ status[m] = "down"  -> "resolve"
                    [] OTHER                           -> "nothing"
    BY <1>1, <1>2
  <1>9. /\ due'[m] = "open" => s = "down"
        /\ due'[m] = "resolve" => s = "up"
        /\ due'[m] = "nothing" => s # "down" /\ ~(s = "up" /\ status[m] = "down")
        /\ due'[m] \in {"nothing", "open", "resolve"}
    BY <1>8
  <1>10. due' \in [Monitors -> {"nothing", "open", "resolve"}]
    BY <1>1, <1>2, <1>9
  <1>11. \A k \in Monitors \ {m} : status'[k] = status[k] /\ due'[k] = due[k]
    BY <1>1, <1>2
  <1>12. ASSUME due'[m] = "nothing", NEW e \in E PROVE e.maintained
    BY <1>2, <1>6, <1>9, <1>12 DEF Accounted
  <1>13. incidents' = (incidents \ Open(m)) \cup E
    BY <1>1, <1>4
  <1>14. E \subseteq Incident /\ serial' \in Nat
    BY <1>2, <1>6 DEF CheckInv
  <1> HIDE DEF maintain
  <1> QED
    BY <1>3, <1>6, <1>7, <1>9, <1>10, <1>11, <1>12, <1>13, <1>14, OneIsChecked

(* A check that opens or resolves its incident.                            *)
LEMMA IncidentChecks ==
  ASSUME CheckInv, NEW m \in Monitors, UpdateIncidents(m)
  PROVE  CheckInv'
  <1>1. /\ due[m] # "nothing" /\ UNCHANGED status
        /\ due' = [due EXCEPT ![m] = "nothing"] /\ serial' = serial + 1
        /\ Accounted(m) /\ serial' \in Nat
        /\ status \in [Monitors -> Condition] /\ Open(m) \subseteq Incident
        /\ due \in [Monitors -> {"nothing", "open", "resolve"}]
        /\ IsFiniteSet(Open(m)) /\ incidents \subseteq Incident
    BY FS_Subset DEF UpdateIncidents, CheckInv, Open
  <1>2. /\ status' \in [Monitors -> Condition]
        /\ due'[m] = "nothing" /\ due' \in [Monitors -> {"nothing", "open", "resolve"}]
        /\ \A k \in Monitors \ {m} : status'[k] = status[k] /\ due'[k] = due[k]
    BY <1>1
  <1>3. CASE due[m] = "open" /\ Open(m) = {}
    <2>1. PICK E : E = {[monitor |-> m, n |-> serial + 1, open |-> TRUE, maintained |-> FALSE]}
      OBVIOUS
    <2>2. E \subseteq Incident /\ \A i \in E : i.monitor = m /\ i.open
      BY <1>1, <2>1 DEF Incident
    <2>3. incidents' = incidents \cup E
      BY <1>1, <1>3, <2>1 DEF UpdateIncidents
    <2>4. IsFiniteSet(E) /\ incidents' = (incidents \ Open(m)) \cup E
      BY <1>3, <2>3, <2>1, FS_Singleton
    <2>5. status'[m] = "down"
      BY <1>1, <1>3 DEF Accounted
    <2>6. \E e \in E : e.open
      BY <2>2, <2>1
    <2> QED
      BY <1>1, <1>2, <2>2, <2>4, <2>5, <2>6, OneIsChecked
  <1>4. CASE due[m] = "open" /\ Open(m) # {}
    <2>1. incidents' = incidents
      BY <1>4 DEF UpdateIncidents
    <2>2. incidents' = (incidents \ Open(m)) \cup Open(m)
      BY <2>1 DEF Open
    <2>3. status'[m] = "down" /\ \A i \in Open(m) : i.monitor = m /\ i.open
      BY <1>1, <1>4 DEF Accounted, Open
    <2> QED
      BY <1>1, <1>2, <1>4, <2>2, <2>3, OneIsChecked
  <1>5. CASE due[m] = "resolve"
    <2>1. PICK O : O = Open(m)
      OBVIOUS
    <2>2. PICK f : f = [i \in O |-> [i EXCEPT !.open = FALSE]]
      OBVIOUS
    <2>3. PICK E : E = {f[i] : i \in O}
      OBVIOUS
    <2>4. E = {[i EXCEPT !.open = FALSE] : i \in Open(m)}
      BY <2>1, <2>2, <2>3
    <2>5. \A e \in E : e \in Incident /\ e.monitor = m /\ e.open = FALSE
      <3>1. \A i \in O : f[i] \in Incident /\ f[i].monitor = m /\ f[i].open = FALSE
        BY <1>1, <2>1, <2>2 DEF Incident, Open
      <3> QED
        BY Zenon, <2>3, <3>1
    <2>6. IsFiniteSet(E)
      BY <1>1, <2>1, <2>3, FiniteImage
    <2>7. incidents' = (incidents \ Open(m)) \cup E
      BY <1>5, <2>4 DEF UpdateIncidents
    <2>8. status[m] # "down"
      BY <1>1, <1>5 DEF Accounted
    <2> QED
      BY <1>1, <1>2, <2>5, <2>6, <2>7, <2>8, OneIsChecked
  <1> QED
    BY <1>1, <1>3, <1>4, <1>5

(* A deleted monitor takes its incidents along.                            *)
LEMMA DeletionChecks ==
  ASSUME CheckInv, NEW m \in Monitors, DeleteMonitor(m)
  PROVE  CheckInv'
  <1>1. /\ status' = [status EXCEPT ![m] = "gone"] /\ due' = [due EXCEPT ![m] = "nothing"]
        /\ incidents' = {i \in incidents : i.monitor # m} /\ UNCHANGED serial
    BY DEF DeleteMonitor
  <1>2. /\ status' \in [Monitors -> Condition] /\ serial' \in Nat
        /\ due' \in [Monitors -> {"nothing", "open", "resolve"}]
        /\ incidents' \subseteq Incident /\ IsFiniteSet(incidents')
    BY <1>1, FS_Subset DEF CheckInv, Condition
  <1>3. ASSUME NEW k \in Monitors PROVE Accounted(k)'
    <2>1. CASE k = m
      BY <1>1, <2>1 DEF CheckInv, Accounted, Open
    <2>2. CASE k # m
      <3>1. Open(k)' = Open(k)
        BY <1>1, <2>2 DEF Open
      <3> QED
        BY <1>1, <2>2, <3>1 DEF CheckInv, Accounted
    <2> QED
      BY <2>1, <2>2
  <1> QED
    BY <1>2, <1>3 DEF CheckInv
(* CheckInv is inductive.                                                  *)
LEMMA StepChecks == CheckInv /\ [SPNext]_spvars => CheckInv'
  <1> SUFFICES ASSUME CheckInv, [SPNext]_spvars PROVE CheckInv'
    OBVIOUS
  <1>1. serial \in Nat
    BY DEF CheckInv
  <1>2. ASSUME NEW w \in Writers, Write(w) PROVE CheckInv'
    BY <1>1, <1>2, ChecksStay
    DEF Write, InsertPage, SavePage, ClearTags, SetTags, WriteFails, monitors
  <1>3. ASSUME NEW w \in Writers, NEW g \in Pages, HandlePage(w, g) PROVE CheckInv'
    BY <1>1, <1>3, ChecksStay DEF HandlePage, Create, Update, Delete, monitors
  <1>4. ASSUME NEW t \in Tags, NEW m \in Monitors, HandleTag(t) \/ HandleMonitorTag(m, t)
        PROVE  CheckInv'
    BY <1>1, <1>4, ChecksStay
    DEF HandleTag, HandleMonitorTag, CreateTag, DeleteTag, AssignTag, UnassignTag, monitors
  <1>5. ASSUME NEW t \in Tags, HandleTag(t) PROVE CheckInv'
    BY <1>1, <1>5, ChecksStay DEF HandleTag, CreateTag, DeleteTag, monitors
  <1>6. ASSUME NEW v \in Visits, GetPublic(v) PROVE CheckInv'
    BY <1>1, <1>6, ChecksStay
    DEF GetPublic, FindBySlug, ReadTags, ReadMonitors, ReadActive, ReadRecent, ReadFails,
        world, monitors
  <1>7. CASE UNCHANGED spvars
    BY <1>1, <1>7, ChecksStay DEF spvars
  <1> QED
    BY <1>2, <1>3, <1>4, <1>5, <1>6, <1>7, StatusChecks, IncidentChecks, DeletionChecks
    DEF SPNext

-----------------------------------------------------------------------------
(* Visits.  From the second query on a visit has rows that are current      *)
(* while it is quiet; then incidents that explain them; and what it did not *)
(* find open is closed, or gone with its monitor.                           *)
Stage == {"new", "tags", "monitors", "active", "recent", "shown"}
Rows  == UNION {[S -> Condition] : S \in SUBSET Monitors}
Visit == [pc : Stage, page : Pages \cup {None}, tags : SUBSET Tags, rows : Rows,
          active : SUBSET Incident, recent : SUBSET Incident, known : SUBSET Incident,
          within : BOOLEAN, quiet : BOOLEAN]

Down(r) == {m \in DOMAIN r.rows : r.rows[m] = "down"}

Current(r) == \A m \in DOMAIN r.rows : due[m] = "nothing" /\ status[m] = r.rows[m]

Explained(r) ==
  /\ \A m \in Down(r) : \E i \in r.active : i.monitor = m
  /\ \A i \in r.active : i.maintained \/ i.monitor \in Down(r)

Closed(r, i) == \E j \in incidents : ~j.open /\ j.monitor = i.monitor /\ j.n = i.n

Traced(r) ==
  \A i \in r.known :
    i.monitor \in DOMAIN r.rows /\ ((\E k \in r.active : k.n = i.n) \/ Closed(r, i))

Listed(r) == \A i \in r.known : \E k \in r.active \cup r.recent : k.n = i.n

Right(r) ==
  /\ r.pc = "active" /\ r.quiet => Current(r)
  /\ r.pc \in {"recent", "shown"} /\ r.quiet /\ r.within => Explained(r)
  /\ r.pc = "recent" /\ r.within => Traced(r)
  /\ r.pc = "shown" /\ r.within => Listed(r)

VisitInv == visit \in [Visits -> Visit] /\ \A v \in Visits : Right(visit[v])

(* At the start every visit is still to begin.                             *)
LEMMA InitVisits == SPInit => VisitInv
  <1> SUFFICES ASSUME SPInit PROVE VisitInv
    OBVIOUS
  <1>1. [m \in {} |-> "up"] \in Rows
    <2>1. [m \in {} |-> "up"] \in [{} -> Condition]
      OBVIOUS
    <2> QED
      BY <2>1 DEF Rows
  <1>2. NoVisit \in Visit /\ NoVisit.pc = "new"
    BY <1>1 DEF NoVisit, Visit, Stage
  <1> QED
    BY <1>2 DEF SPInit, VisitInv, Right

(* Steps that touch neither visits nor what they are about.                *)
LEMMA VisitsStay ==
  ASSUME VisitInv, UNCHANGED <<visit, status, due, incidents>>
  PROVE  VisitInv'
  BY DEF VisitInv, Right, Current, Explained, Traced, Listed, Closed, Down

(* A visit goes on, and nothing else happens.                              *)
LEMMA OneVisit ==
  ASSUME VisitInv, NEW v \in Visits, NEW r \in Visit, Right(r), See(v, r),
         UNCHANGED <<status, due, incidents>>
  PROVE  VisitInv'
  <1>1. visit' \in [Visits -> Visit]
    BY DEF VisitInv, See
  <1>2. visit'[v] = r /\ \A u \in Visits \ {v} : visit'[u] = visit[u]
    BY DEF VisitInv, See
  <1>3. \A q \in Visit : Right(q) => Right(q)'
    BY DEF Right, Current, Explained, Traced, Listed, Closed, Down
  <1>4. ASSUME NEW u \in Visits PROVE Right(visit[u])'
    <2> PICK q : q = visit'[u]
      OBVIOUS
    <2>1. q \in Visit /\ Right(q)
      BY <1>1, <1>2 DEF VisitInv
    <2>2. Right(q)'
      BY <1>3, <2>1
    <2> QED
      BY <2>2 DEF Right, Current, Explained, Traced, Listed, Closed, Down
  <1> QED
    BY <1>1, <1>4 DEF VisitInv

(* Something happens to a monitor.                                         *)
LEMMA MonitorChanges ==
  ASSUME NEW q \in Visit, NEW r \in Visit, NEW m, Right(q),
         r.pc = q.pc, r.rows = q.rows, r.active = q.active, r.recent = q.recent,
         r.within = q.within, r.known \subseteq q.known,
         r.quiet => q.quiet,
         r.quiet /\ r.pc = "active" => m \notin DOMAIN q.rows,
         \A k \in Monitors \ {m} : status'[k] = status[k] /\ due'[k] = due[k],
         \A i \in r.known, j \in incidents :
           ~j.open /\ j.monitor = i.monitor => j \in incidents'
  PROVE  Right(r)'
  <1>1. DOMAIN q.rows \subseteq Monitors
    BY DEF Visit, Rows
  <1>2. r.pc = "active" /\ r.quiet => Current(r)'
    BY <1>1 DEF Right, Current
  <1>3. r.pc \in {"recent", "shown"} /\ r.quiet /\ r.within => Explained(r)
    BY DEF Right, Explained, Down
  <1>4. r.pc = "recent" /\ r.within => Traced(r)'
    BY DEF Right, Traced, Closed
  <1>5. r.pc = "shown" /\ r.within => Listed(r)
    BY DEF Right, Listed
  <1> QED
    BY <1>2, <1>3, <1>4, <1>5 DEF Right, Explained, Listed, Down

(* A check or a deletion beside the visits under way.                      *)
LEMMA MonitorVisits ==
  ASSUME VisitInv, CheckInv, NEW m \in Monitors,
         UpdateLastStatus(m) \/ UpdateIncidents(m) \/ DeleteMonitor(m)
  PROVE  VisitInv'
  <1>1. \A k \in Monitors \ {m} : status'[k] = status[k] /\ due'[k] = due[k]
    BY DEF UpdateLastStatus, UpdateIncidents, DeleteMonitor, CheckInv
  <1>2. visit \in [Visits -> Visit] /\ \A v \in Visits : Right(visit[v])
    BY DEF VisitInv
  <1>3. ASSUME NEW v \in Visits
        PROVE  /\ Seen(m)[v] \in Visit
               /\ Seen(m)[v].pc = visit[v].pc /\ Seen(m)[v].rows = visit[v].rows
               /\ Seen(m)[v].active = visit[v].active /\ Seen(m)[v].recent = visit[v].recent
               /\ Seen(m)[v].within = visit[v].within /\ Seen(m)[v].known = visit[v].known
               /\ Seen(m)[v].quiet => visit[v].quiet
               /\ Seen(m)[v].quiet /\ visit[v].pc = "active" => m \notin DOMAIN visit[v].rows
    <2> PICK q : q = visit[v]
      OBVIOUS
    <2>1. q \in Visit
      BY <1>2
    <2>2. Seen(m)[v] = IF m \in DOMAIN q.rows /\ q.pc = "active"
                       THEN [q EXCEPT !.quiet = FALSE] ELSE q
      BY DEF Seen
    <2>3. PICK x : x = [q EXCEPT !.quiet = FALSE]
      OBVIOUS
    <2>4. x \in Visit
      BY <2>1, <2>3 DEF Visit
    <2>5. /\ x.pc = q.pc /\ x.rows = q.rows /\ x.active = q.active /\ x.recent = q.recent
          /\ x.within = q.within /\ x.known = q.known /\ x.quiet = FALSE
      BY <2>1, <2>3 DEF Visit
    <2> QED
      BY <2>1, <2>2, <2>3, <2>4, <2>5
  <1>4. CASE UpdateLastStatus(m) \/ UpdateIncidents(m)
    <2>1. visit' = Seen(m)
      BY <1>4 DEF UpdateLastStatus, UpdateIncidents
    <2>2. visit' \in [Visits -> Visit]
      BY <1>3, <2>1 DEF Seen
    <2>3. \A j \in incidents : ~j.open => j \in incidents'
      BY <1>4 DEF UpdateLastStatus, UpdateIncidents, Open, CheckInv
    <2>4. ASSUME NEW v \in Visits PROVE Right(visit[v])'
      <3> PICK r : r = visit'[v]
        OBVIOUS
      <3> PICK q : q = visit[v]
        OBVIOUS
      <3>1. /\ q \in Visit /\ r \in Visit /\ Right(q)
            /\ r.pc = q.pc /\ r.rows = q.rows /\ r.active = q.active /\ r.recent = q.recent
            /\ r.within = q.within /\ r.known \subseteq q.known
            /\ r.quiet => q.quiet
            /\ r.quiet /\ r.pc = "active" => m \notin DOMAIN q.rows
        BY <1>2, <1>3, <2>1
      <3>2. Right(r)'
        BY <1>1, <2>3, <3>1, MonitorChanges
      <3> QED
        BY <3>2 DEF Right, Current, Explained, Traced, Listed, Closed, Down
    <2> QED
      BY <2>2, <2>4 DEF VisitInv
  <1>5. CASE DeleteMonitor(m)
    <2>1. visit' = [v \in Visits |-> [Seen(m)[v] EXCEPT !.known = {i \in @ : i.monitor # m}]]
      BY <1>5 DEF DeleteMonitor
    <2>2. ASSUME NEW v \in Visits
          PROVE  /\ visit'[v] \in Visit
                 /\ visit'[v].pc = Seen(m)[v].pc /\ visit'[v].rows = Seen(m)[v].rows
                 /\ visit'[v].active = Seen(m)[v].active
                 /\ visit'[v].recent = Seen(m)[v].recent
                 /\ visit'[v].within = Seen(m)[v].within
                 /\ visit'[v].quiet = Seen(m)[v].quiet
                 /\ visit'[v].known = {i \in Seen(m)[v].known : i.monitor # m}
      <3> PICK q : q = Seen(m)[v]
        OBVIOUS
      <3>1. q \in Visit
        BY <1>3
      <3>2. visit'[v] = [q EXCEPT !.known = {i \in @ : i.monitor # m}]
        BY <2>1
      <3> QED
        BY <3>1, <3>2 DEF Visit
    <2>3. visit' \in [Visits -> Visit]
      BY <2>1, <2>2
    <2>4. \A j \in incidents : j.monitor # m => j \in incidents'
      BY <1>5 DEF DeleteMonitor
    <2>5. ASSUME NEW v \in Visits PROVE Right(visit[v])'
      <3> PICK r : r = visit'[v]
        OBVIOUS
      <3> PICK q : q = visit[v]
        OBVIOUS
      <3>1. /\ q \in Visit /\ r \in Visit /\ Right(q)
            /\ r.pc = q.pc /\ r.rows = q.rows /\ r.active = q.active /\ r.recent = q.recent
            /\ r.within = q.within /\ r.known \subseteq q.known
            /\ r.quiet => q.quiet
            /\ r.quiet /\ r.pc = "active" => m \notin DOMAIN q.rows
            /\ \A i \in r.known : i.monitor # m
        BY <1>2, <1>3, <2>2
      <3>2. Right(r)'
        BY <1>1, <2>4, <3>1, MonitorChanges
      <3> QED
        BY <3>2 DEF Right, Current, Explained, Traced, Listed, Closed, Down
    <2> QED
      BY <2>3, <2>5 DEF VisitInv
  <1> QED
    BY <1>4, <1>5
(* A query with a limit that is not exceeded finds everything.             *)
LEMMA NewestIsAll ==
  ASSUME NEW S \in SUBSET Incident, IsFiniteSet(S), NEW n \in Nat, Cardinality(S) <= n
  PROVE  Newest(n, S) = S
  <1> SUFFICES ASSUME NEW i \in S
               PROVE  Cardinality({j \in S : j.n > i.n}) < n
    BY DEF Newest
  <1> DEFINE D == {j \in S : j.n > i.n}
  <1>1. i \notin D
    BY DEF Incident
  <1>2. /\ Cardinality(D) <= Cardinality(S) /\ Cardinality(S) # Cardinality(D)
        /\ IsFiniteSet(D)
    BY <1>1, FS_Subset
  <1>3. Cardinality(D) \in Nat /\ Cardinality(S) \in Nat
    BY <1>2, FS_CardinalityType
  <1> QED
    BY <1>2, <1>3

(* A query with a limit finds some of the rows.                            *)
LEMMA NewestIsSome == \A n, S : Newest(n, S) \subseteq S
  BY DEF Newest

(* The first queries of a visit                                            *)
LEMMA BeginVisits ==
  ASSUME VisitInv, CheckInv, AnswerInv, NEW v \in Visits,
         \/ \E s \in Slugs : FindBySlug(v, s)
         \/ ReadTags(v) \/ ReadMonitors(v)
  PROVE  VisitInv'
  <1>1. UNCHANGED <<status, due, incidents>>
    BY DEF FindBySlug, ReadTags, ReadMonitors, world, monitors
  <1>2. \A r : r.pc \in {"tags", "monitors"} => Right(r)
    BY DEF Right
  <1>3. PICK q : q = visit[v]
    OBVIOUS
  <1>4. q \in Visit
    BY <1>3 DEF VisitInv
  <1>5. ASSUME NEW s \in Slugs, FindBySlug(v, s) PROVE VisitInv'
    <2>1. PICK g \in Pages : See(v, [NoVisit EXCEPT !.pc = "tags", !.page = g])
      BY <1>5 DEF FindBySlug
    <2>2. PICK r : r = [NoVisit EXCEPT !.pc = "tags", !.page = g]
      OBVIOUS
    <2>3. [m \in {} |-> "up"] \in Rows
      <3>1. [m \in {} |-> "up"] \in [{} -> Condition]
        OBVIOUS
      <3> QED
        BY <3>1 DEF Rows
    <2>4. r \in Visit /\ r.pc = "tags"
      BY <2>2, <2>3 DEF NoVisit, Visit, Stage
    <2>5. See(v, r)
      BY <2>1, <2>2
    <2>6. Right(r)
      BY <1>2, <2>4
    <2> QED
      BY <1>1, <2>4, <2>5, <2>6, OneVisit
  <1>6. CASE ReadTags(v)
    <2>1. PICK r : See(v, r) /\ r = [q EXCEPT !.pc = "monitors", !.tags = GetTagIDs(q.page)]
      BY <1>3, <1>6 DEF ReadTags
    <2>2. GetTagIDs(q.page) \subseteq Tags
      BY DEF GetTagIDs, JoinsOf, AnswerInv, PagesTyped, Join
    <2>3. r \in Visit /\ r.pc = "monitors"
      BY <1>4, <2>1, <2>2 DEF Visit, Stage
    <2>4. See(v, r)
      BY <2>1
    <2>5. Right(r)
      BY <1>2, <2>3
    <2> QED
      BY <1>1, <2>3, <2>4, <2>5, OneVisit
  <1>7. CASE ReadMonitors(v)
    <2>1. PICK found : found = FindByTagIDs(q.tags)
      OBVIOUS
    <2>2. PICK rows : rows = [m \in found |-> status[m]]
      OBVIOUS
    <2>3. PICK quiet : quiet = \A m \in found : due[m] = "nothing"
      OBVIOUS
    <2>4. PICK r : r = [q EXCEPT !.pc = "active", !.rows = rows, !.quiet = quiet]
      OBVIOUS
    <2>5. See(v, r)
      BY <1>3, <1>7, <2>1, <2>2, <2>3, <2>4 DEF ReadMonitors
    <2>6. rows \in Rows /\ DOMAIN rows = found /\ \A m \in found : rows[m] = status[m]
      <3>1. found \subseteq Monitors
        BY <2>1 DEF FindByTagIDs
      <3>2. rows \in [found -> Condition]
        BY <2>2, <3>1 DEF CheckInv
      <3> QED
        BY <2>2, <3>1, <3>2 DEF Rows
    <2>7. /\ r \in Visit /\ r.pc = "active" /\ r.rows = rows /\ r.quiet = quiet
      BY <1>4, <2>3, <2>4, <2>6 DEF Visit, Stage
    <2>8. Right(r)
      BY <2>3, <2>6, <2>7 DEF Right, Current
    <2> QED
      BY <1>1, <2>5, <2>7, <2>8, OneVisit
  <1> QED
    BY <1>5, <1>6, <1>7

(* The open incidents.  Current rows are down just where one is open.      *)
LEMMA ActiveVisits ==
  ASSUME VisitInv, CheckInv, NEW v \in Visits, ReadActive(v)
  PROVE  VisitInv'
  <1>1. UNCHANGED <<status, due, incidents>> /\ visit[v].pc = "active"
    BY DEF ReadActive, world, monitors, VisitAt
  <1>2. PICK q : q = visit[v]
    OBVIOUS
  <1>3. q \in Visit /\ Right(q) /\ q.pc = "active" /\ DOMAIN q.rows \subseteq Monitors
    BY <1>1, <1>2 DEF VisitInv, Visit, Rows
  <1>4. PICK O : O = {i \in incidents : i.open}
    OBVIOUS
  <1>5. PICK active : active = {i \in Newest(ActiveLimit, O) : i.monitor \in DOMAIN q.rows}
    OBVIOUS
  <1>6. PICK known : known = {i \in incidents : i.monitor \in DOMAIN q.rows}
    OBVIOUS
  <1>7. PICK within : within = (Cardinality(O) <= ActiveLimit)
    OBVIOUS
  <1>8. PICK r : r = [q EXCEPT !.pc = "recent", !.active = active, !.known = known,
                               !.within = within]
    OBVIOUS
  <1>9. See(v, r)
    BY <1>2, <1>4, <1>5, <1>6, <1>7, <1>8 DEF ReadActive, Shown, FindActive
  <1>10. /\ O \subseteq Incident /\ IsFiniteSet(O) /\ incidents \subseteq Incident
         /\ ActiveLimit \in Nat
    BY <1>4, FS_Subset, StatusPageAssumption DEF CheckInv
  <1>11. active \subseteq Incident /\ known \subseteq Incident /\ within \in BOOLEAN
    BY <1>5, <1>6, <1>7, <1>10, NewestIsSome
  <1>12. /\ r \in Visit /\ r.pc = "recent" /\ r.active = active /\ r.known = known
         /\ r.within = within /\ r.rows = q.rows /\ r.quiet = q.quiet
    BY <1>3, <1>8, <1>11 DEF Visit, Stage
  <1>13. within => active = {i \in O : i.monitor \in DOMAIN q.rows}
    BY <1>5, <1>7, <1>10, NewestIsAll
  <1>14. ASSUME q.quiet, within PROVE Explained(r)
    <2>1. \A m \in DOMAIN q.rows : /\ due[m] = "nothing" /\ status[m] = q.rows[m]
                                   /\ Accounted(m)
      BY <1>3, <1>14 DEF Right, Current, CheckInv
    <2>2. \A m \in Down(r) : m \in DOMAIN q.rows /\ status[m] = "down"
      BY <1>12, <2>1 DEF Down
    <2>3. \A m \in DOMAIN q.rows : status[m] = "down" => m \in Down(r)
      BY <1>12, <2>1 DEF Down
    <2>4. ASSUME NEW m \in Down(r) PROVE \E i \in active : i.monitor = m
      BY <1>4, <1>13, <1>14, <2>1, <2>2 DEF Accounted, Open
    <2>5. ASSUME NEW i \in active PROVE i.maintained \/ i.monitor \in Down(r)
      <3>1. i \in incidents /\ i.open /\ i.monitor \in DOMAIN q.rows
        BY <1>4, <1>13, <1>14
      <3>2. i \in Open(i.monitor)
        BY <3>1 DEF Open
      <3> QED
        BY <2>1, <2>3, <3>1, <3>2 DEF Accounted
    <2> QED
      BY <1>12, <2>4, <2>5 DEF Explained
  <1>15. ASSUME within PROVE Traced(r)
    <2> SUFFICES ASSUME NEW i \in known
                 PROVE  /\ i.monitor \in DOMAIN r.rows
                        /\ (\E k \in r.active : k.n = i.n) \/ Closed(r, i)
      BY <1>12 DEF Traced
    <2>1. i \in incidents /\ i.monitor \in DOMAIN r.rows
      BY <1>6, <1>12
    <2>2. CASE i.open
      BY <1>4, <1>12, <1>13, <1>15, <2>1, <2>2
    <2>3. CASE ~i.open
      BY <2>1, <2>3 DEF Closed
    <2> QED
      BY <2>1, <2>2, <2>3
  <1>16. Right(r)
    BY <1>12, <1>14, <1>15 DEF Right
  <1> QED
    BY <1>1, <1>9, <1>12, <1>16, OneVisit

(* The closed ones.  What is not among the open was closed by now.         *)
LEMMA RecentVisits ==
  ASSUME VisitInv, CheckInv, NEW v \in Visits, ReadRecent(v)
  PROVE  VisitInv'
  <1>1. UNCHANGED <<status, due, incidents>> /\ visit[v].pc = "recent"
    BY DEF ReadRecent, world, monitors, VisitAt
  <1>2. PICK q : q = visit[v]
    OBVIOUS
  <1>3. q \in Visit /\ Right(q) /\ q.pc = "recent"
    BY <1>1, <1>2 DEF VisitInv
  <1>4. PICK C : C = {i \in incidents : ~i.open}
    OBVIOUS
  <1>5. PICK shown : shown = {i \in Newest(RecentLimit, C) : i.monitor \in DOMAIN q.rows}
    OBVIOUS
  <1>6. PICK recent : recent = Newest(ShownLimit, shown)
    OBVIOUS
  <1>7. PICK within : within = (/\ q.within /\ Cardinality(C) <= RecentLimit
                                /\ Cardinality(shown) <= ShownLimit)
    OBVIOUS
  <1>8. PICK r : r = [q EXCEPT !.pc = "shown", !.recent = recent, !.within = within]
    OBVIOUS
  <1>9. See(v, r)
    BY <1>2, <1>4, <1>5, <1>6, <1>7, <1>8 DEF ReadRecent, Shown, FindResolved
  <1>10. /\ C \subseteq Incident /\ IsFiniteSet(C)
         /\ RecentLimit \in Nat /\ ShownLimit \in Nat
    BY <1>4, FS_Subset, StatusPageAssumption DEF CheckInv
  <1>11. /\ shown \subseteq C /\ shown \subseteq Incident /\ IsFiniteSet(shown)
         /\ recent \subseteq Incident
    BY <1>5, <1>6, <1>10, NewestIsSome, FS_Subset
  <1>12. /\ r \in Visit /\ r.pc = "shown" /\ r.active = q.active /\ r.known = q.known
         /\ r.recent = recent /\ r.within = within /\ r.rows = q.rows /\ r.quiet = q.quiet
    BY <1>3, <1>7, <1>8, <1>11 DEF Visit, Stage
  <1>13. within => recent = {i \in C : i.monitor \in DOMAIN q.rows}
    <2>1. within => Newest(RecentLimit, C) = C
      BY <1>7, <1>10, NewestIsAll
    <2>2. within => Newest(ShownLimit, shown) = shown
      BY <1>7, <1>10, <1>11, NewestIsAll
    <2> QED
      BY <1>5, <1>6, <2>1, <2>2
  <1>14. ASSUME within PROVE Listed(r)
    <2>1. Traced(q)
      BY <1>3, <1>7, <1>14 DEF Right
    <2> SUFFICES ASSUME NEW i \in q.known
                 PROVE  \E k \in q.active \cup recent : k.n = i.n
      BY <1>12 DEF Listed
    <2>2. i.monitor \in DOMAIN q.rows /\ ((\E k \in q.active : k.n = i.n) \/ Closed(q, i))
      BY <2>1 DEF Traced
    <2>3. Closed(q, i) => \E k \in recent : k.n = i.n
      BY <1>4, <1>13, <1>14, <2>2 DEF Closed
    <2> QED
      BY <2>2, <2>3
  <1>15. ASSUME r.quiet, within PROVE Explained(r)
    <2>1. Explained(q)
      BY <1>3, <1>7, <1>12, <1>15 DEF Right
    <2> QED
      BY <1>12, <2>1 DEF Explained, Down
  <1>16. Right(r)
    BY <1>12, <1>14, <1>15 DEF Right
  <1> QED
    BY <1>1, <1>9, <1>12, <1>16, OneVisit

(* A query that fails ends its visit.                                      *)
LEMMA FailVisits ==
  ASSUME VisitInv, NEW v \in Visits, ReadFails(v)
  PROVE  VisitInv'
  <1>1. UNCHANGED <<status, due, incidents>> /\ visit[v].pc \notin {"new", "shown"}
    BY DEF ReadFails, monitors
  <1> PICK q : q = visit[v]
    OBVIOUS
  <1>2. q \in Visit /\ q.pc \in {"tags", "monitors", "active", "recent"}
    BY <1>1 DEF VisitInv, Visit, Stage
  <1> DEFINE next == [tags |-> "monitors", monitors |-> "active", active |-> "recent",
                      recent |-> "shown"]
  <1>3. PICK pc : pc = next[q.pc]
    OBVIOUS
  <1>4. pc \in Stage
    BY <1>2, <1>3 DEF Stage
  <1> HIDE DEF next
  <1>5. PICK r : r = [q EXCEPT !.pc = pc, !.quiet = FALSE, !.within = FALSE]
    OBVIOUS
  <1>6. See(v, r)
    <2>1. See(v, [q EXCEPT !.pc = next[q.pc], !.quiet = FALSE, !.within = FALSE])
      BY DEF ReadFails, next
    <2> QED
      BY <1>3, <1>5, <2>1
  <1>7. r \in Visit /\ r.quiet = FALSE /\ r.within = FALSE
    BY <1>2, <1>4, <1>5 DEF Visit
  <1>8. Right(r)
    BY <1>7 DEF Right
  <1> QED
    BY <1>1, <1>6, <1>7, <1>8, OneVisit

(* VisitInv is inductive, given the other two.                             *)
LEMMA StepVisits == AnswerInv /\ CheckInv /\ VisitInv /\ [SPNext]_spvars => VisitInv'
  <1> SUFFICES ASSUME AnswerInv, CheckInv, VisitInv, [SPNext]_spvars PROVE VisitInv'
    OBVIOUS
  <1>1. ASSUME NEW w \in Writers, Write(w) PROVE VisitInv'
    BY <1>1, VisitsStay
    DEF Write, InsertPage, SavePage, ClearTags, SetTags, WriteFails, monitors
  <1>2. ASSUME NEW w \in Writers, NEW g \in Pages, HandlePage(w, g) PROVE VisitInv'
    BY <1>2, VisitsStay DEF HandlePage, Create, Update, Delete, monitors
  <1>3. ASSUME NEW t \in Tags, NEW m \in Monitors, HandleMonitorTag(m, t) PROVE VisitInv'
    BY <1>3, VisitsStay DEF HandleMonitorTag, AssignTag, UnassignTag, monitors
  <1>4. ASSUME NEW t \in Tags, HandleTag(t) PROVE VisitInv'
    BY <1>4, VisitsStay DEF HandleTag, CreateTag, DeleteTag, monitors
  <1>5. ASSUME NEW v \in Visits, GetPublic(v) PROVE VisitInv'
    BY <1>5, BeginVisits, ActiveVisits, RecentVisits, FailVisits DEF GetPublic
  <1>6. CASE UNCHANGED spvars
    BY <1>6, VisitsStay DEF spvars
  <1> QED
    BY <1>1, <1>2, <1>3, <1>4, <1>5, <1>6, MonitorVisits DEF SPNext

(* The three invariants together.                                          *)
LEMMA VisitsAreRight == SPSpec => [](AnswerInv /\ CheckInv /\ VisitInv)
  BY InitAnswers, InitChecks, InitVisits, StepAnswers, StepChecks, StepVisits, PTL DEF SPSpec

(* However checks, maintenance and deletions fall between the queries of a  *)
(* visit, an outage and its incidents are shown together, if no check came  *)
(* between the two queries that they are read by.                           *)
THEOREM OutagesAreExplained == SPSpec => []OutageIsExplained
  <1>1. VisitInv => OutageIsExplained
    <2> SUFFICES ASSUME VisitInv, NEW v \in Visits, visit[v].pc = "shown",
                        visit[v].quiet, visit[v].within
                 PROVE  LET plain == {i \in visit[v].active : ~i.maintained}
                        IN  /\ RowsWith(v, "down") \subseteq {i.monitor : i \in visit[v].active}
                            /\ {i.monitor : i \in plain} \subseteq RowsWith(v, "down")
                            /\ plain # {} => computeOverallStatus(v) = "outage"
                            /\ computeOverallStatus(v) = "outage" => visit[v].active # {}
      BY DEF OutageIsExplained
    <2> DEFINE down == RowsWith(v, "down")
               plain == {i \in visit[v].active : ~i.maintained}
    <2>1. /\ \A m \in down : \E i \in visit[v].active : i.monitor = m
          /\ \A i \in visit[v].active : i.maintained \/ i.monitor \in down
      BY DEF VisitInv, Right, Explained, Down, RowsWith
    <2>2. computeOverallStatus(v) = "outage" <=> down # {}
      BY DEF computeOverallStatus
    <2> HIDE DEF down
    <2>3. down \subseteq {i.monitor : i \in visit[v].active}
      BY <2>1
    <2>4. {i.monitor : i \in plain} \subseteq down
      BY <2>1
    <2>5. plain # {} => down # {}
      BY <2>1
    <2>6. down # {} => visit[v].active # {}
      BY <2>1
    <2> QED
      BY <2>2, <2>3, <2>4, <2>5, <2>6 DEF down
  <1> QED
    BY <1>1, VisitsAreRight, PTL

(* No incident of a monitor of the page falls between the query for open    *)
(* incidents and the one for closed ones, whatever is resolved in between.  *)
THEOREM NoIncidentIsMissed == SPSpec => []IncidentsAreListed
  <1>1. VisitInv => IncidentsAreListed
    BY DEF VisitInv, Right, Listed, IncidentsAreListed
  <1> QED
    BY <1>1, VisitsAreRight, PTL
=============================================================================
