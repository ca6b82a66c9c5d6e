----------------------------- MODULE Hub_proofs -----------------------------
(***************************************************************************)
(* For any number of clients and messages and queues of any size: types,   *)
(* the bounds of the queues, that a client's channel is closed once, and   *)
(* that a client sees every message up to the point where it is cut off.   *)
(***************************************************************************)
EXTENDS Hub, SequenceTheorems, TLAPS

(* A client that has no pumps yet is not registered and not closed.        *)
Unstarted == [p \in Pumps |-> "none"]

Fresh == \A c \in Clients :
           pump[c] = Unstarted => closes[c] = 0 /\ c \notin clients

(* Run offers a message it has taken.                                      *)
InHand == todo # {} => taken # << >>

LEMMA InHandStep == InHand /\ TypeOK /\ [Next]_vars => InHand'
  BY DEF InHand, TypeOK, Next, vars, channels, history, Run, Write, Broadcast,
         TakeMessage, Offer, Register, Unregister, StartWrite, FinishWrite,
         EndWrites, ReadFails, CloseConnection, PeerLeaves

(* Queues of messages, one for each client, and what changes one of them.  *)
LEMMA ReplaceOne ==
  ASSUME NEW S, NEW f \in [Clients -> S], NEW c \in Clients, NEW x \in S
  PROVE  /\ [f EXCEPT ![c] = x] \in [Clients -> S]
         /\ [f EXCEPT ![c] = x][c] = x
         /\ \A k \in Clients : k # c => [f EXCEPT ![c] = x][k] = f[k]
  OBVIOUS

LEMMA AppendOne ==
  ASSUME NEW s \in Seq(Message), NEW x \in Message
  PROVE  Append(s, x) \in Seq(Message) /\ Len(Append(s, x)) = Len(s) + 1
  OBVIOUS

LEMMA TakeOne ==
  ASSUME NEW s \in Seq(Message), s # << >>
  PROVE  /\ <<Head(s)>> \in Seq(Message)
         /\ Tail(s) \in Seq(Message) /\ Len(Tail(s)) = Len(s) - 1
  OBVIOUS

LEMMA JoinTwo ==
  ASSUME NEW s \in Seq(Message), NEW t \in Seq(Message)
  PROVE  s \o t \in Seq(Message)
  OBVIOUS

LEMMA GotoTyped ==
  ASSUME pump \in [Clients -> [Pumps -> Stage]],
         NEW c \in Clients, NEW p \in Pumps, NEW stage \in Stage, Goto(c, p, stage)
  PROVE  pump' \in [Clients -> [Pumps -> Stage]]
  <1> DEFINE x == [pump[c] EXCEPT ![p] = stage]
  <1>1. x \in [Pumps -> Stage]
    OBVIOUS
  <1>2. pump' = [pump EXCEPT ![c] = x]
    BY DEF Goto
  <1> HIDE DEF x
  <1> QED
    BY <1>1, <1>2, ReplaceOne

LEMMA StagesTyped == Stage = {"none", "run", "leave", "close", "done"}
                     /\ "reader" \in Pumps /\ "writer" \in Pumps
  BY DEF Stage, Pumps

LEMMA TypeStep == TypeOK /\ InHand /\ [Next]_vars => TypeOK'
  <1> SUFFICES ASSUME TypeOK, InHand, [Next]_vars PROVE TypeOK'
    OBVIOUS
  <1> USE HubAssumption DEF TypeOK, channels, history
  <1>1. CASE Broadcast
    <2>1. issued' \in 0..MaxMessages /\ issued' \in Message
      BY <1>1 DEF Broadcast, Message
    <2>2. queue' \in Seq(Message) /\ Len(queue') <= QueueSize
      BY <1>1, <2>1 DEF Broadcast
    <2> QED
      BY <1>1, <2>1, <2>2 DEF Broadcast
  <1>2. CASE TakeMessage
    <2>1. Head(queue) \in Message /\ queue # << >>
      BY <1>2 DEF TakeMessage
    <2>2. queue' \in Seq(Message) /\ Len(queue') <= QueueSize
      BY <1>2, <2>1 DEF TakeMessage
    <2>3. taken' \in Seq(Message)
      BY <1>2, <2>1 DEF TakeMessage
    <2> QED
      BY <1>2, <2>2, <2>3 DEF TakeMessage
  <1>3. ASSUME NEW c \in Clients, Offer(c)
        PROVE  TypeOK'
    <2>1. taken[Len(taken)] \in Message
      BY <1>3 DEF Offer, InHand
    <2>2. CASE Len(send[c]) < SendSize
      <3> DEFINE x == Append(send[c], taken[Len(taken)])
      <3>1. send' = [send EXCEPT ![c] = x]
        BY <1>3, <2>2 DEF Offer, Put
      <3>2. x \in Seq(Message) /\ Len(x) = Len(send[c]) + 1
        BY <2>1, AppendOne
      <3> HIDE DEF x
      <3>3. send' \in [Clients -> Seq(Message)]
        BY <3>1, <3>2, ReplaceOne
      <3>4. Len(x) <= SendSize
        BY <2>2, <3>2
      <3>5. \A k \in Clients : Len(send'[k]) <= SendSize
        BY <3>1, <3>2, <3>4, ReplaceOne
      <3> QED
        BY <1>3, <2>2, <3>3, <3>5 DEF Offer
    <2>3. CASE ~(Len(send[c]) < SendSize)
      <3>1. /\ closes' = [closes EXCEPT ![c] = @ + 1]
            /\ clients' = clients \ {c} /\ todo' = todo \ {c} /\ send' = send
            /\ UNCHANGED <<queue, pump, held, connected, history>>
        BY <1>3, <2>3 DEF Offer, Close
      <3>2. closes' \in [Clients -> Nat]
        BY <3>1
      <3> QED
        BY <3>1, <3>2
    <2> QED
      BY <2>2, <2>3
  <1>4. ASSUME NEW c \in Clients, Register(c)
        PROVE  TypeOK'
    BY <1>4 DEF Register, Selecting, Stage
  <1>5. ASSUME NEW c \in Clients, StartWrite(c)
        PROVE  TypeOK'
    <2> DEFINE x == Tail(send[c])
               y == <<Head(send[c])>>
    <2>1. send' = [send EXCEPT ![c] = x] /\ held' = [held EXCEPT ![c] = y]
      BY <1>5 DEF StartWrite
    <2>2. x \in Seq(Message) /\ Len(x) = Len(send[c]) - 1 /\ y \in Seq(Message)
      BY <1>5, TakeOne DEF StartWrite
    <2> HIDE DEF x, y
    <2>3. send' \in [Clients -> Seq(Message)] /\ held' \in [Clients -> Seq(Message)]
      BY <2>1, <2>2, ReplaceOne
    <2>4. \A k \in Clients : Len(send'[k]) <= SendSize
      BY <2>1, <2>2, ReplaceOne
    <2> QED
      BY <1>5, <2>3, <2>4 DEF StartWrite
  <1>6. ASSUME NEW c \in Clients, FinishWrite(c)
        PROVE  TypeOK'
    <2> DEFINE x == received[c] \o held[c]
    <2>1. x \in Seq(Message)
      BY JoinTwo
    <2>2. << >> \in Seq(Message)
      OBVIOUS
    <2>3. held' \in [Clients -> Seq(Message)]
      BY <1>6, <2>2, ReplaceOne DEF FinishWrite
    <2>4. received' = [received EXCEPT ![c] = x] \/ received' = received
      BY <1>6 DEF FinishWrite
    <2> HIDE DEF x
    <2>5. received' \in [Clients -> Seq(Message)]
      <3>1. CASE received' = [received EXCEPT ![c] = x]
        BY <2>1, <3>1, ReplaceOne
      <3>2. CASE received' = received
        BY <3>2
      <3> QED
        BY <2>4, <3>1, <3>2
    <2>6. pump' \in [Clients -> [Pumps -> Stage]]
      BY <1>6, GotoTyped, StagesTyped DEF FinishWrite
    <2> QED
      BY <1>6, <2>3, <2>5, <2>6 DEF FinishWrite
  <1>10. ASSUME NEW c \in Clients, EndWrites(c) \/ ReadFails(c)
        PROVE  TypeOK'
    <2>1. pump' \in [Clients -> [Pumps -> Stage]]
      BY <1>10, GotoTyped, StagesTyped DEF EndWrites, ReadFails
    <2> QED
      BY <1>10, <2>1 DEF EndWrites, ReadFails
  <1>11. ASSUME NEW c \in Clients, PeerLeaves(c)
        PROVE  TypeOK'
    BY <1>11 DEF PeerLeaves
  <1>7. ASSUME NEW c \in Clients, NEW p \in Pumps, CloseConnection(c, p)
        PROVE  TypeOK'
    BY <1>7, GotoTyped, StagesTyped DEF CloseConnection
  <1>8. ASSUME NEW c \in Clients, NEW p \in Pumps, Unregister(c, p)
        PROVE  TypeOK'
    <2>1. pump' \in [Clients -> [Pumps -> Stage]]
      BY <1>8, GotoTyped, StagesTyped DEF Unregister
    <2>2. closes' = closes \/ closes' = [closes EXCEPT ![c] = @ + 1]
      BY <1>8 DEF Unregister, Close
    <2>4. closes' \in [Clients -> Nat]
      <3>1. closes \in [Clients -> Nat] /\ closes[c] + 1 \in Nat
        OBVIOUS
      <3> QED
        BY <2>2, <3>1
    <2>3. clients' \subseteq Clients /\ todo' \subseteq clients'
      BY <1>8 DEF Unregister, Selecting
    <2> QED
      BY <1>8, <2>1, <2>3, <2>4 DEF Unregister
  <1>9. CASE UNCHANGED vars
    BY <1>9 DEF vars
  <1> QED
    BY <1>1, <1>2, <1>3, <1>4, <1>5, <1>6, <1>7, <1>8, <1>9,
     <1>10, <1>11
    DEF Next, Run, Write

-----------------------------------------------------------------------------
(* A closed client is not among the clients and never comes back, as its   *)
(* pumps have left their first stage.                                      *)
CloseInv == ClosedOnce /\ Fresh

LEMMA GotoStarts ==
  ASSUME TypeOK, NEW c \in Clients, NEW p \in Pumps,
         NEW stage \in Stage \ {"none"}, Goto(c, p, stage)
  PROVE  \A k \in Clients : pump'[k] = Unstarted => pump[k] = Unstarted
  <1>1. pump'[c][p] = stage /\ Unstarted[p] = "none"
    BY DEF TypeOK, Goto, Unstarted
  <1>2. \A k \in Clients : k # c => pump'[k] = pump[k]
    BY DEF TypeOK, Goto
  <1> QED
    BY <1>1, <1>2

LEMMA CloseStep == TypeOK /\ CloseInv /\ [Next]_vars => CloseInv'
  <1> SUFFICES ASSUME TypeOK, CloseInv, [Next]_vars PROVE CloseInv'
    OBVIOUS
  <1>1. ASSUME UNCHANGED <<clients, closes>>,
               \A c \in Clients : pump'[c] = Unstarted => pump[c] = Unstarted
        PROVE  CloseInv'
    BY <1>1 DEF CloseInv, ClosedOnce, Fresh
  <1>2. ASSUME NEW c \in Clients, c \in clients, Close(c), clients' = clients \ {c},
               \A k \in Clients : pump'[k] = Unstarted => pump[k] = Unstarted
        PROVE  CloseInv'
    <2>1. closes[c] = 0 /\ pump[c] # Unstarted
      BY <1>2 DEF CloseInv, ClosedOnce, Fresh, TypeOK
    <2>2. closes'[c] = 1 /\ \A k \in Clients : k # c => closes'[k] = closes[k]
      BY <1>2, <2>1 DEF Close, TypeOK
    <2> QED
      BY <1>2, <2>1, <2>2 DEF CloseInv, ClosedOnce, Fresh
  <1>3. CASE Broadcast \/ TakeMessage
    BY <1>1, <1>3 DEF Broadcast, TakeMessage
  <1>4. ASSUME NEW c \in Clients, Offer(c)
        PROVE  CloseInv'
    <2>1. c \in clients
      BY <1>4 DEF TypeOK, Offer
    <2>2. CASE Len(send[c]) < SendSize
      BY <1>1, <1>4, <2>2 DEF Offer
    <2>3. CASE ~(Len(send[c]) < SendSize)
      BY <1>2, <1>4, <2>1, <2>3 DEF Offer
    <2> QED
      BY <2>2, <2>3
  <1>5. ASSUME NEW c \in Clients, Register(c)
        PROVE  CloseInv'
    <2>1. /\ pump[c] = Unstarted /\ clients' = clients \cup {c} /\ closes' = closes
          /\ pump' = [pump EXCEPT ![c] = [p \in Pumps |-> "run"]]
      BY <1>5 DEF Register, Unstarted, channels
    <2>2. pump'[c] # Unstarted /\ \A k \in Clients : k # c => pump'[k] = pump[k]
      <3>1. pump'[c]["reader"] = "run" /\ Unstarted["reader"] = "none"
        BY <2>1 DEF TypeOK, Unstarted, Pumps
      <3> QED
        BY <2>1, <3>1 DEF TypeOK
    <2>3. closes[c] = 0
      BY <2>1 DEF CloseInv, Fresh
    <2> QED
      BY <2>1, <2>2, <2>3 DEF CloseInv, ClosedOnce, Fresh
  <1>6. ASSUME NEW c \in Clients, NEW p \in Pumps, Unregister(c, p)
        PROVE  CloseInv'
    <2>1. \A k \in Clients : pump'[k] = Unstarted => pump[k] = Unstarted
      BY <1>6, GotoStarts, StagesTyped DEF Unregister
    <2> QED
      BY <1>1, <1>2, <1>6, <2>1 DEF Unregister
  <1>7. ASSUME NEW c \in Clients, NEW p \in Pumps, CloseConnection(c, p)
        PROVE  CloseInv'
    BY <1>1, <1>7, GotoStarts, StagesTyped DEF CloseConnection, channels
  <1>10. ASSUME NEW c \in Clients, EndWrites(c) \/ ReadFails(c) \/ FinishWrite(c)
        PROVE  CloseInv'
    <2>1. \A k \in Clients : pump'[k] = Unstarted => pump[k] = Unstarted
      BY <1>10, GotoStarts, StagesTyped DEF EndWrites, ReadFails, FinishWrite
    <2> QED
      BY <1>1, <1>10, <2>1 DEF EndWrites, ReadFails, FinishWrite, channels
  <1>8. ASSUME NEW c \in Clients, StartWrite(c) \/ PeerLeaves(c)
        PROVE  CloseInv'
    BY <1>1, <1>8 DEF StartWrite, PeerLeaves, channels
  <1>9. CASE UNCHANGED vars
    BY <1>1, <1>9 DEF vars
  <1> QED
    BY <1>3, <1>4, <1>5, <1>6, <1>7, <1>8, <1>9, <1>10 DEF Next, Run, Write

LEMMA InitCorrect == Init => TypeOK /\ InHand /\ CloseInv
  <1> SUFFICES ASSUME Init PROVE TypeOK /\ InHand /\ CloseInv
    OBVIOUS
  <1>1. << >> \in Seq(Message) /\ Len(<< >>) = 0
    OBVIOUS
  <1>2. TypeOK
    BY <1>1, HubAssumption DEF Init, TypeOK, Stage
  <1>3. InHand /\ CloseInv
    BY DEF Init, InHand, CloseInv, ClosedOnce, Fresh
  <1> QED
    BY <1>2, <1>3

-----------------------------------------------------------------------------
(* Every variable has its type, and neither the hub's queue nor that of a  *)
(* client ever holds more than its capacity.                               *)
THEOREM TypeCorrect == Spec => [](TypeOK /\ InHand)
  BY InitCorrect, TypeStep, InHandStep, PTL DEF Spec

(* Whichever of Run and the two pumps gets there first, and however often  *)
(* a client is unregistered, its channel is closed at most once, and only  *)
(* when Run will not send on it again.                                     *)
THEOREM ChannelsCloseOnce == Spec => []ClosedOnce
  <1>1. CloseInv => ClosedOnce
    BY DEF CloseInv
  <1> QED
    BY <1>1, InitCorrect, TypeCorrect, CloseStep, PTL DEF Spec

-----------------------------------------------------------------------------
(* The messages a client sees.                                             *)

(* s is what t has after its first k elements, or the beginning of that.   *)
Matches(s, t, k) == k + Len(s) <= Len(t) /\ \A i \in 1..Len(s) : s[i] = t[k + i]

Messages == Seq(Message)

LEMMA MatchesNone ==
  ASSUME NEW t \in Messages, NEW k \in Nat, k <= Len(t)
  PROVE  Matches(<< >>, t, k) /\ << >> \in Messages /\ Len(<< >>) = 0
  BY DEF Matches, Messages

LEMMA MatchesMore ==
  ASSUME NEW s \in Messages, NEW t \in Messages, NEW k \in Nat, NEW x \in Message,
         Matches(s, t, k)
  PROVE  Matches(s, Append(t, x), k)
  <1>1. Len(s) \in Nat /\ Len(t) \in Nat
    BY LenProperties DEF Messages
  <1>2. /\ Len(Append(t, x)) = Len(t) + 1
        /\ \A i \in 1..Len(t) : Append(t, x)[i] = t[i]
    BY DEF Messages
  <1> QED
    BY <1>1, <1>2 DEF Matches

LEMMA MatchesJoin ==
  ASSUME NEW r \in Messages, NEW h \in Messages, NEW t \in Messages, NEW k \in Nat,
         Matches(r, t, k), Matches(h, t, k + Len(r))
  PROVE  /\ r \o h \in Messages /\ Len(r \o h) = Len(r) + Len(h)
         /\ Matches(r \o h, t, k)
  <1>1. Len(r) \in Nat /\ Len(h) \in Nat /\ Len(t) \in Nat
    BY LenProperties DEF Messages
  <1>2. /\ r \o h \in Messages /\ Len(r \o h) = Len(r) + Len(h)
        /\ \A i \in 1..Len(r) + Len(h) :
             (r \o h)[i] = IF i <= Len(r) THEN r[i] ELSE h[i - Len(r)]
    BY ConcatProperties DEF Messages
  <1>3. ASSUME NEW i \in 1..Len(r) + Len(h)
        PROVE  (r \o h)[i] = t[k + i]
    <2>1. CASE i <= Len(r)
      BY <1>1, <1>2, <2>1 DEF Matches
    <2>2. CASE ~(i <= Len(r))
      <3>1. i - Len(r) \in 1..Len(h) /\ k + Len(r) + (i - Len(r)) = k + i
        BY <1>1, <2>2
      <3>2. h[i - Len(r)] = t[k + Len(r) + (i - Len(r))]
        BY <3>1 DEF Matches
      <3> QED
        BY <1>2, <2>2, <3>1, <3>2
    <2> QED
      BY <2>1, <2>2
  <1> QED
    BY <1>1, <1>2, <1>3 DEF Matches

LEMMA MatchesTake ==
  ASSUME NEW s \in Messages, NEW t \in Messages, NEW k \in Nat, Matches(s, t, k), s # << >>
  PROVE  /\ <<Head(s)>> \in Messages /\ Tail(s) \in Messages
         /\ Len(<<Head(s)>>) = 1 /\ Len(Tail(s)) = Len(s) - 1
         /\ Matches(<<Head(s)>>, t, k) /\ Matches(Tail(s), t, k + 1)
  <1>1. Len(s) \in Nat \ {0} /\ Len(t) \in Nat
    BY LenProperties, EmptySeq DEF Messages
  <1>2. /\ Head(s) \in Message /\ Tail(s) \in Messages /\ Len(Tail(s)) = Len(s) - 1
        /\ \A i \in 1..Len(Tail(s)) : Tail(s)[i] = s[i + 1]
    BY HeadTailProperties DEF Messages
  <1>3. <<Head(s)>> \in Messages /\ Len(<<Head(s)>>) = 1 /\ <<Head(s)>>[1] = s[1]
    BY <1>2 DEF Messages
  <1>4. Matches(<<Head(s)>>, t, k)
    BY <1>1, <1>3 DEF Matches
  <1>5. Matches(Tail(s), t, k + 1)
    <2>1. ASSUME NEW i \in 1..Len(Tail(s))
          PROVE  Tail(s)[i] = t[k + 1 + i]
      <3>1. i + 1 \in 1..Len(s) /\ k + (i + 1) = k + 1 + i
        BY <1>1, <1>2
      <3> QED
        BY <1>2, <3>1 DEF Matches
    <2> QED
      BY <1>1, <1>2, <2>1 DEF Matches
  <1> QED
    BY <1>2, <1>3, <1>4, <1>5

LEMMA MatchesPut ==
  ASSUME NEW s \in Messages, NEW t \in Messages, NEW k \in Nat,
         Matches(s, t, k), k + Len(s) + 1 = Len(t)
  PROVE  /\ Append(s, t[Len(t)]) \in Messages
         /\ Len(Append(s, t[Len(t)])) = Len(s) + 1
         /\ Matches(Append(s, t[Len(t)]), t, k)
  <1>1. Len(s) \in Nat /\ Len(t) \in Nat
    BY LenProperties DEF Messages
  <1>2. t[Len(t)] \in Message
    BY <1>1, ElementOfSeq DEF Messages
  <1> DEFINE x == t[Len(t)]
  <1>3. x \in Message /\ x = t[k + (Len(s) + 1)]
    BY <1>1, <1>2
  <1> HIDE DEF x
  <1>4. /\ Append(s, x) \in Messages /\ Len(Append(s, x)) = Len(s) + 1
        /\ \A i \in 1..Len(s) : Append(s, x)[i] = s[i]
        /\ Append(s, x)[Len(s) + 1] = x
    BY <1>3 DEF Messages
  <1>5. ASSUME NEW i \in 1..Len(s) + 1
        PROVE  Append(s, x)[i] = t[k + i]
    <2>1. CASE i \in 1..Len(s)
      BY <1>4, <2>1 DEF Matches
    <2>2. CASE i = Len(s) + 1
      BY <1>3, <1>4, <2>2
    <2> QED
      BY <1>1, <2>1, <2>2
  <1>6. Matches(Append(s, x), t, k)
    BY <1>1, <1>4, <1>5 DEF Matches
  <1> QED
    BY <1>4, <1>6 DEF x

LEMMA MatchesSubSeq ==
  ASSUME NEW s \in Messages, NEW t \in Messages, NEW k \in Nat, Matches(s, t, k)
  PROVE  /\ Len(SubSeq(t, k + 1, Len(t))) = Len(t) - k
         /\ s = SubSeq(SubSeq(t, k + 1, Len(t)), 1, Len(s))
  <1>1. Len(s) \in Nat /\ Len(t) \in Nat /\ k + Len(s) <= Len(t)
    BY LenProperties DEF Messages, Matches
  <1>2. \A i \in 1..Len(t) : t[i] \in Message
    BY ElementOfSeq DEF Messages
  <1> DEFINE f == SubSeq(t, k + 1, Len(t))
             g == SubSeq(f, 1, Len(s))
  <1>3. \A i \in (k + 1)..Len(t) : t[i] \in Message
    BY <1>1, <1>2
  <1>4. /\ f \in Seq(Message)
        /\ Len(f) = IF k + 1 <= Len(t) THEN Len(t) - (k + 1) + 1 ELSE 0
        /\ \A i \in 1..Len(t) - (k + 1) + 1 : f[i] = t[k + 1 + i - 1]
    <2>1. k + 1 \in Int /\ Len(t) \in Int
      BY <1>1
    <2> QED
      BY <1>3, <2>1, SubSeqProperties
  <1> HIDE DEF f
  <1>5. Len(f) = Len(t) - k
    BY <1>1, <1>4
  <1>6. \A i \in 1..Len(s) : f[i] = s[i]
    <2>1. ASSUME NEW i \in 1..Len(s) PROVE f[i] = s[i]
      <3>1. i \in 1..Len(t) - (k + 1) + 1 /\ k + 1 + i - 1 = k + i
        BY <1>1
      <3>2. f[i] = t[k + i]
        BY <1>4, <3>1
      <3> QED
        BY <3>2 DEF Matches
    <2> QED
      BY <2>1
  <1>7. \A i \in 1..Len(s) : f[i] \in Message
    BY <1>6, ElementOfSeq DEF Messages
  <1>8. /\ g \in Seq(Message)
        /\ Len(g) = IF 1 <= Len(s) THEN Len(s) - 1 + 1 ELSE 0
        /\ \A i \in 1..Len(s) - 1 + 1 : g[i] = f[1 + i - 1]
    <2>1. 1 \in Int /\ Len(s) \in Int
      BY <1>1
    <2> QED
      BY <1>7, <2>1, SubSeqProperties
  <1> HIDE DEF g
  <1>9. Len(g) = Len(s)
    BY <1>1, <1>8
  <1>10. \A i \in 1..Len(s) : s[i] = g[i]
    <2>1. ASSUME NEW i \in 1..Len(s) PROVE s[i] = g[i]
      <3>1. i \in 1..Len(s) - 1 + 1 /\ 1 + i - 1 = i
        BY <1>1
      <3> QED
        BY <1>6, <1>8, <3>1
    <2> QED
      BY <2>1
  <1>11. s = g
    BY <1>8, <1>9, <1>10, SeqEqual DEF Messages
  <1> QED
    BY <1>5, <1>11 DEF f, g

(* What is written, being written and waiting continues the messages Run   *)
(* took since the client was registered.                                   *)
Continues(r, h, q, t, j) ==
  Matches(r, t, j) /\ Matches(h, t, j + Len(r)) /\ Matches(q, t, j + Len(r) + Len(h))

Missing(r, h, q, t, j, n) == j + Len(r) + Len(h) + Len(q) + n = Len(t)

(* A write begins, a write ends: the stream is the same one.               *)
LEMMA WriteBegins ==
  ASSUME NEW r \in Messages, NEW q \in Messages, NEW t \in Messages,
         NEW j \in Nat, NEW n \in Nat, q # << >>,
         Continues(r, << >>, q, t, j)
  PROVE  /\ Continues(r, <<Head(q)>>, Tail(q), t, j)
         /\ Missing(r, << >>, q, t, j, n) => Missing(r, <<Head(q)>>, Tail(q), t, j, n)
  <1>1. /\ Len(r) \in Nat /\ Len(q) \in Nat \ {0} /\ Len(t) \in Nat /\ Len(<< >>) = 0
    BY LenProperties, EmptySeq DEF Messages
  <1>3. PICK a \in Nat : a = j + Len(r)
    BY <1>1
  <1>4. Matches(q, t, a) /\ Matches(r, t, j)
    BY <1>1, <1>3 DEF Continues
  <1>5. /\ Len(<<Head(q)>>) = 1 /\ Len(Tail(q)) = Len(q) - 1
        /\ Matches(<<Head(q)>>, t, a) /\ Matches(Tail(q), t, a + 1)
    BY <1>4, MatchesTake
  <1>6. Continues(r, <<Head(q)>>, Tail(q), t, j)
    BY <1>3, <1>4, <1>5 DEF Continues
  <1>7. PICK b \in Nat : Len(q) = b + 1
    BY <1>1
  <1>8. Len(Tail(q)) = b
    BY <1>5, <1>7
  <1>9. a + 0 + (b + 1) + n = a + 1 + b + n
    BY <1>3
  <1>10. Missing(r, << >>, q, t, j, n) => Missing(r, <<Head(q)>>, Tail(q), t, j, n)
    BY <1>1, <1>3, <1>5, <1>7, <1>8, <1>9 DEF Missing
  <1> QED
    BY <1>6, <1>10

LEMMA WriteEnds ==
  ASSUME NEW r \in Messages, NEW h \in Messages, NEW q \in Messages, NEW t \in Messages,
         NEW j \in Nat, NEW n \in Nat,
         Continues(r, h, q, t, j)
  PROVE  /\ r \o h \in Messages
         /\ Continues(r \o h, << >>, q, t, j)
         /\ Missing(r, h, q, t, j, n) => Missing(r \o h, << >>, q, t, j, n)
  <1>1. /\ Len(r) \in Nat /\ Len(h) \in Nat /\ Len(q) \in Nat /\ Len(t) \in Nat
    BY LenProperties DEF Messages
  <1>2. r \o h \in Messages /\ Len(r \o h) = Len(r) + Len(h) /\ Matches(r \o h, t, j)
    BY MatchesJoin DEF Continues
  <1>3. PICK a \in Nat : a = Len(r) + Len(h)
    BY <1>1
  <1>4. Len(r \o h) = a /\ Len(<< >>) = 0
    BY <1>2, <1>3
  <1>5. j + Len(r) + Len(h) = j + a /\ j + a \in Nat /\ j + a + 0 = j + a
    BY <1>1, <1>3
  <1>6. j + a <= Len(t)
    BY <1>2, <1>4 DEF Matches
  <1>7. Matches(<< >>, t, j + a)
    BY <1>5, <1>6, MatchesNone
  <1>8. Matches(q, t, j + a)
    BY <1>5 DEF Continues
  <1>9. Continues(r \o h, << >>, q, t, j)
    BY <1>2, <1>4, <1>5, <1>7, <1>8 DEF Continues
  <1>10. Missing(r, h, q, t, j, n) => Missing(r \o h, << >>, q, t, j, n)
    BY <1>1, <1>4, <1>5 DEF Missing
  <1> QED
    BY <1>2, <1>9, <1>10

AllBut(s, f, n) == s = SubSeq(f, 1, Len(f) - n)

LEMMA StreamIsComplete ==
  ASSUME NEW r \in Messages, NEW h \in Messages, NEW q \in Messages, NEW t \in Messages,
         NEW j \in Nat, NEW n \in Nat,
         Continues(r, h, q, t, j), Missing(r, h, q, t, j, n)
  PROVE  AllBut((r \o h) \o q, SubSeq(t, j + 1, Len(t)), n)
  <1>1. r \o h \in Messages /\ << >> \in Messages
    BY WriteEnds DEF Messages
  <1>2. Continues(r \o h, << >>, q, t, j) /\ Missing(r \o h, << >>, q, t, j, n)
    BY WriteEnds
  <1>3. PICK a \in Nat : a = Len(r \o h)
    BY <1>1, LenProperties DEF Messages
  <1>4. PICK b \in Nat : b = Len(q)
    BY LenProperties DEF Messages
  <1>5. Len(t) \in Nat /\ Len(<< >>) = 0 /\ j + a \in Nat /\ j + a + 0 = j + a
    BY LenProperties DEF Messages
  <1>6. Matches(r \o h, t, j) /\ Matches(q, t, j + a)
    BY <1>2, <1>3, <1>5 DEF Continues
  <1>7. /\ (r \o h) \o q \in Messages /\ Len((r \o h) \o q) = a + b
        /\ Matches((r \o h) \o q, t, j)
    BY <1>1, <1>3, <1>4, <1>6, MatchesJoin
  <1>8. /\ Len(SubSeq(t, j + 1, Len(t))) = Len(t) - j
        /\ (r \o h) \o q = SubSeq(SubSeq(t, j + 1, Len(t)), 1, a + b)
    BY <1>7, MatchesSubSeq
  <1>9. j + a + 0 + b + n = Len(t)
    BY <1>2, <1>3, <1>4, <1>5 DEF Missing
  <1>10. a + b = Len(t) - j - n
    BY <1>5, <1>9
  <1> QED
    BY <1>8, <1>10 DEF AllBut

(* The same of client c, as long as its writer works; and while it is      *)
(* registered nothing is missing but the message that Run has in hand.     *)
Steady(c) ==
  pump[c]["writer"] = "run" =>
    /\ Continues(received[c], held[c], send[c], taken, joined[c])
    /\ c \in clients /\ c \notin todo =>
         Missing(received[c], held[c], send[c], taken, joined[c], 0)
    /\ c \in clients /\ c \in todo =>
         Missing(received[c], held[c], send[c], taken, joined[c], 1)

Idle(c) ==
  /\ pump[c]["writer"] # "run" => held[c] = << >>
  /\ pump[c] = Unstarted => received[c] = << >> /\ send[c] = << >> /\ c \notin clients

StreamInv ==
  \A c \in Clients : Matches(received[c], taken, joined[c]) /\ Steady(c) /\ Idle(c)

LEMMA InitStream == Init => StreamInv
  <1> SUFFICES ASSUME Init, NEW c \in Clients
               PROVE  Matches(received[c], taken, joined[c]) /\ Steady(c) /\ Idle(c)
    BY DEF StreamInv
  <1>1. << >> \in Messages /\ Len(<< >>) = 0
    BY DEF Messages
  <1>2. received[c] = << >> /\ taken = << >> /\ joined[c] = 0 /\ held[c] = << >>
        /\ send[c] = << >> /\ c \notin clients /\ pump[c]["writer"] = "none"
    BY DEF Init, Pumps
  <1>3. Matches(received[c], taken, joined[c])
    BY <1>1, <1>2, MatchesNone
  <1> QED
    BY <1>2, <1>3 DEF Steady, Idle

(* The streams are left alone, and the writer at most ends.                *)
LEMMA StreamsStay ==
  ASSUME StreamInv, UNCHANGED <<taken, joined, received, held, send>>,
         clients' \subseteq clients,
         \A c \in clients' : c \in todo' <=> c \in todo,
         \A c \in Clients : /\ pump'[c] = Unstarted => pump[c] = Unstarted
                            /\ pump'[c]["writer"] = "run" => pump[c]["writer"] = "run"
                            /\ pump'[c]["writer"] # "run" => held[c] = << >>
  PROVE  StreamInv'
  <1> SUFFICES ASSUME NEW c \in Clients
               PROVE  (Matches(received[c], taken, joined[c]) /\ Steady(c) /\ Idle(c))'
    BY DEF StreamInv
  <1>1. Matches(received[c], taken, joined[c]) /\ Steady(c) /\ Idle(c)
    BY DEF StreamInv
  <1>2. Matches(received[c], taken, joined[c])'
    BY <1>1 DEF Matches
  <1>3. Steady(c)'
    BY <1>1 DEF Steady, Continues, Matches
  <1>4. Idle(c)'
    BY <1>1 DEF Idle
  <1> QED
    BY <1>2, <1>3, <1>4

LEMMA GotoEnds ==
  ASSUME TypeOK, StreamInv, NEW c \in Clients, NEW p \in Pumps,
         NEW stage \in Stage \ {"none", "run"}, Goto(c, p, stage),
         pump[c][p] # "run" \/ p = "reader" \/ held[c] = << >>
  PROVE  \A k \in Clients : /\ pump'[k] = Unstarted => pump[k] = Unstarted
                            /\ pump'[k]["writer"] = "run" => pump[k]["writer"] = "run"
                            /\ pump'[k]["writer"] # "run" => held[k] = << >>
  <1> SUFFICES ASSUME NEW k \in Clients
               PROVE  /\ pump'[k] = Unstarted => pump[k] = Unstarted
                      /\ pump'[k]["writer"] = "run" => pump[k]["writer"] = "run"
                      /\ pump'[k]["writer"] # "run" => held[k] = << >>
    OBVIOUS
  <1>1. pump[k]["writer"] # "run" => held[k] = << >>
    BY DEF StreamInv, Idle
  <1>2. pump'[k] = Unstarted => pump[k] = Unstarted
    BY GotoStarts
  <1>3. CASE k # c
    BY <1>1, <1>2, <1>3 DEF Goto, TypeOK
  <1>4. CASE k = c /\ p = "reader"
    <2>1. pump'[k]["writer"] = pump[k]["writer"]
      BY <1>4, StagesTyped DEF Goto, TypeOK
    <2> QED
      BY <1>1, <1>2, <2>1
  <1>5. CASE k = c /\ p = "writer"
    <2>1. pump'[k]["writer"] = stage
      BY <1>5, StagesTyped DEF Goto, TypeOK
    <2> QED
      BY <1>1, <1>2, <1>5, <2>1
  <1> QED
    BY <1>3, <1>4, <1>5 DEF Pumps

LEMMA TakeStream == TypeOK /\ StreamInv /\ TakeMessage => StreamInv'
  <1> SUFFICES ASSUME TypeOK, StreamInv, TakeMessage, NEW c \in Clients
               PROVE  (Matches(received[c], taken, joined[c]) /\ Steady(c) /\ Idle(c))'
    BY DEF StreamInv
  <1> DEFINE x == Head(queue)
  <1>1. /\ taken' = Append(taken, x) /\ todo' = clients /\ todo = {}
        /\ UNCHANGED <<clients, send, pump, held, joined, received>>
    BY DEF TakeMessage, Selecting
  <1>2. x \in Message /\ taken \in Messages
    BY HeadTailProperties DEF TakeMessage, TypeOK, Messages
  <1>3. /\ received[c] \in Messages /\ held[c] \in Messages /\ send[c] \in Messages
        /\ joined[c] \in Nat /\ Len(received[c]) \in Nat /\ Len(held[c]) \in Nat
        /\ Len(send[c]) \in Nat /\ Len(taken) \in Nat
    BY LenProperties DEF TypeOK, Messages
  <1>4. Matches(received[c], taken, joined[c]) /\ Steady(c) /\ Idle(c)
    BY DEF StreamInv
  <1>5. Len(Append(taken, x)) = Len(taken) + 1
    BY <1>2 DEF Messages
  <1> HIDE DEF x
  <1>6. Matches(received[c], taken, joined[c])'
    <2>1. Matches(received[c], Append(taken, x), joined[c])
      BY <1>2, <1>3, <1>4, MatchesMore
    <2> QED
      BY <1>1, <2>1
  <1>7. Steady(c)'
    <2> SUFFICES ASSUME pump[c]["writer"] = "run"
                 PROVE  /\ Continues(received[c], held[c], send[c], Append(taken, x), joined[c])
                        /\ c \in clients => Missing(received[c], held[c], send[c],
                                                Append(taken, x), joined[c], 1)
      BY <1>1 DEF Steady
    <2>1. /\ Continues(received[c], held[c], send[c], taken, joined[c])
          /\ c \in clients => Missing(received[c], held[c], send[c], taken, joined[c], 0)
      BY <1>1, <1>4 DEF Steady
    <2>2. joined[c] + Len(received[c]) \in Nat
          /\ joined[c] + Len(received[c]) + Len(held[c]) \in Nat
      BY <1>3
    <2>3. Continues(received[c], held[c], send[c], Append(taken, x), joined[c])
      BY <1>2, <1>3, <2>1, <2>2, MatchesMore DEF Continues
    <2>4. c \in clients => Missing(received[c], held[c], send[c],
                                   Append(taken, x), joined[c], 1)
      BY <1>3, <1>5, <2>1, <2>2 DEF Missing
    <2> QED
      BY <2>3, <2>4
  <1>8. Idle(c)'
    BY <1>1, <1>4 DEF Idle
  <1> QED
    BY <1>6, <1>7, <1>8

LEMMA RegisterStream ==
  ASSUME TypeOK, StreamInv, NEW c \in Clients, Register(c)
  PROVE  StreamInv'
  <1>1. /\ clients' = clients \cup {c} /\ todo' = {} /\ todo = {}
        /\ pump[c] = Unstarted
        /\ pump' = [pump EXCEPT ![c] = [p \in Pumps |-> "run"]]
        /\ joined' = [joined EXCEPT ![c] = Len(taken)]
        /\ UNCHANGED <<send, held, taken, received>>
    BY DEF Register, Selecting, Unstarted, channels
  <1> SUFFICES ASSUME NEW k \in Clients
               PROVE  (Matches(received[k], taken, joined[k]) /\ Steady(k) /\ Idle(k))'
    BY DEF StreamInv
  <1>2. Matches(received[k], taken, joined[k]) /\ Steady(k) /\ Idle(k)
    BY DEF StreamInv
  <1>3. CASE k # c
    <2>1. pump'[k] = pump[k] /\ joined'[k] = joined[k] /\ (k \in clients' <=> k \in clients)
      BY <1>1, <1>3 DEF TypeOK
    <2>2. Matches(received[k], taken, joined[k])'
      BY <1>1, <1>2, <2>1
    <2>3. Steady(k)'
      BY <1>1, <1>2, <2>1 DEF Steady
    <2>4. Idle(k)'
      BY <1>1, <1>2, <2>1 DEF Idle
    <2> QED
      BY <2>2, <2>3, <2>4
  <1>4. CASE k = c
    <2>1. pump'[k]["writer"] = "run" /\ pump[k]["writer"] = "none" /\ joined'[k] = Len(taken)
      BY <1>1, <1>4, StagesTyped DEF TypeOK, Unstarted
    <2>2. pump'[k] # Unstarted
      BY <2>1, StagesTyped DEF Unstarted
    <2>3. received[k] = << >> /\ held[k] = << >> /\ send[k] = << >>
      BY <1>1, <1>2, <1>4, <2>1 DEF Idle
    <2>4. taken \in Messages /\ Len(taken) \in Nat
      BY LenProperties DEF TypeOK, Messages
    <2>5. Matches(<< >>, taken, Len(taken)) /\ Len(<< >>) = 0
      BY <2>4, MatchesNone
    <2>6. Matches(received[k], taken, joined[k])'
      BY <1>1, <2>1, <2>3, <2>5
    <2>7. Continues(received[k], held[k], send[k], taken, Len(taken))
      BY <2>3, <2>4, <2>5 DEF Continues
    <2>10. Missing(received[k], held[k], send[k], taken, Len(taken), 0)
      BY <2>3, <2>4, <2>5 DEF Missing
    <2>8. Steady(k)'
      BY <1>1, <2>1, <2>7, <2>10 DEF Steady
    <2>9. Idle(k)'
      BY <2>1, <2>2 DEF Idle
    <2> QED
      BY <2>6, <2>8, <2>9
  <1> QED
    BY <1>3, <1>4

LEMMA OfferStream ==
  ASSUME TypeOK, StreamInv, NEW c \in Clients, Offer(c)
  PROVE  StreamInv'
  <1>1. /\ c \in todo /\ c \in clients /\ todo' = todo \ {c}
        /\ UNCHANGED <<pump, held, taken, joined, received>>
    BY DEF Offer, history, TypeOK
  <1>2. CASE ~(Len(send[c]) < SendSize)
    <2>1. clients' = clients \ {c} /\ send' = send
      BY <1>2 DEF Offer
    <2>2. \A k \in Clients : pump'[k]["writer"] # "run" => held[k] = << >>
      BY <1>1 DEF StreamInv, Idle
    <2> QED
      BY <1>1, <2>1, <2>2, StreamsStay
  <1>3. CASE Len(send[c]) < SendSize
    <2> DEFINE x == Append(send[c], taken[Len(taken)])
    <2>1. send' = [send EXCEPT ![c] = x] /\ clients' = clients
      BY <1>3 DEF Offer, Put
    <2> HIDE DEF x
    <2> SUFFICES ASSUME NEW k \in Clients
                 PROVE  (Matches(received[k], taken, joined[k]) /\ Steady(k) /\ Idle(k))'
      BY DEF StreamInv
    <2>2. Matches(received[k], taken, joined[k]) /\ Steady(k) /\ Idle(k)
      BY DEF StreamInv
    <2>3. Matches(received[k], taken, joined[k])'
      BY <1>1, <2>2
    <2>4. CASE k # c
      <3>1. send'[k] = send[k]
        BY <2>1, <2>4 DEF TypeOK
      <3> QED
        BY <1>1, <2>1, <2>2, <2>3, <2>4, <3>1 DEF Steady, Idle
    <2>5. CASE k = c
      <3>1. send'[k] = x
        BY <2>1, <2>5 DEF TypeOK
      <3>2. /\ received[k] \in Messages /\ held[k] \in Messages /\ send[k] \in Messages
            /\ joined[k] \in Nat /\ Len(received[k]) \in Nat /\ Len(held[k]) \in Nat
            /\ Len(send[k]) \in Nat /\ Len(taken) \in Nat /\ taken \in Messages
        BY LenProperties DEF TypeOK, Messages
      <3>3. Steady(k)'
        <4> SUFFICES ASSUME pump[k]["writer"] = "run"
                     PROVE  /\ Continues(received[k], held[k], x, taken, joined[k])
                            /\ Missing(received[k], held[k], x, taken, joined[k], 0)
          BY <1>1, <2>5, <3>1 DEF Steady
        <4>1. /\ Continues(received[k], held[k], send[k], taken, joined[k])
              /\ Missing(received[k], held[k], send[k], taken, joined[k], 1)
          BY <1>1, <2>2, <2>5 DEF Steady
        <4>2. /\ joined[k] + Len(received[k]) + Len(held[k]) \in Nat
              /\ joined[k] + Len(received[k]) + Len(held[k]) + Len(send[k]) + 1 = Len(taken)
          BY <3>2, <4>1 DEF Missing
        <4>3. Len(x) = Len(send[k]) + 1
              /\ Matches(x, taken, joined[k] + Len(received[k]) + Len(held[k]))
          BY <2>5, <3>2, <4>1, <4>2, MatchesPut DEF x, Continues
        <4>4. Missing(received[k], held[k], x, taken, joined[k], 0)
          BY <3>2, <4>2, <4>3 DEF Missing
        <4> QED
          BY <4>1, <4>3, <4>4 DEF Continues
      <3>4. Idle(k)'
        BY <1>1, <2>2, <2>5 DEF Idle
      <3> QED
        BY <2>3, <3>3, <3>4
    <2> QED
      BY <2>4, <2>5
  <1> QED
    BY <1>2, <1>3

LEMMA StartWriteStream ==
  ASSUME TypeOK, StreamInv, NEW c \in Clients, StartWrite(c)
  PROVE  StreamInv'
  <1> DEFINE x == Tail(send[c])
             y == <<Head(send[c])>>
  <1>1. /\ send' = [send EXCEPT ![c] = x] /\ held' = [held EXCEPT ![c] = y]
        /\ pump[c]["writer"] = "run" /\ held[c] = << >> /\ send[c] # << >>
        /\ UNCHANGED <<clients, todo, pump, taken, joined, received>>
    BY DEF StartWrite, history
  <1> HIDE DEF x, y
  <1> SUFFICES ASSUME NEW k \in Clients
               PROVE  (Matches(received[k], taken, joined[k]) /\ Steady(k) /\ Idle(k))'
    BY DEF StreamInv
  <1>2. Matches(received[k], taken, joined[k]) /\ Steady(k) /\ Idle(k)
    BY DEF StreamInv
  <1>3. Matches(received[k], taken, joined[k])'
    BY <1>1, <1>2
  <1>4. CASE k # c
    <2>1. send'[k] = send[k] /\ held'[k] = held[k]
      BY <1>1, <1>4 DEF TypeOK
    <2> QED
      BY <1>1, <1>2, <1>3, <2>1 DEF Steady, Idle
  <1>5. CASE k = c
    <2>1. send'[k] = x /\ held'[k] = y
      BY <1>1, <1>5 DEF TypeOK
    <2>2. /\ received[k] \in Messages /\ send[k] \in Messages
          /\ joined[k] \in Nat /\ Len(received[k]) \in Nat
          /\ Len(send[k]) \in Nat /\ Len(taken) \in Nat /\ taken \in Messages
      BY LenProperties DEF TypeOK, Messages
    <2>4. Continues(received[k], held[k], send[k], taken, joined[k])
      BY <1>1, <1>2, <1>5 DEF Steady
    <2>5. held[k] = << >> /\ send[k] # << >>
      BY <1>1, <1>5
    <2>6. /\ Continues(received[k], y, x, taken, joined[k])
          /\ \A n \in Nat : Missing(received[k], held[k], send[k], taken, joined[k], n)
                             => Missing(received[k], y, x, taken, joined[k], n)
      BY <1>5, <2>2, <2>4, <2>5, WriteBegins DEF x, y
    <2>9. Steady(k)'
      <3>2. /\ k \in clients /\ k \notin todo => Missing(received[k], y, x, taken, joined[k], 0)
            /\ k \in clients /\ k \in todo => Missing(received[k], y, x, taken, joined[k], 1)
        BY <1>1, <1>2, <1>5, <2>6 DEF Steady
      <3> QED
        BY <1>1, <2>1, <2>6, <3>2 DEF Steady
    <2>10. Idle(k)'
      <3>1. pump[k] # Unstarted
        BY <1>1, <1>5, StagesTyped DEF Unstarted
      <3> QED
        BY <1>1, <1>5, <3>1 DEF Idle
    <2> QED
      BY <1>3, <2>9, <2>10
  <1> QED
    BY <1>4, <1>5

LEMMA FinishWriteStream ==
  ASSUME TypeOK, StreamInv, NEW c \in Clients, FinishWrite(c)
  PROVE  StreamInv'
  <1> DEFINE z == received[c] \o held[c]
  <1>1. /\ held' = [held EXCEPT ![c] = << >>] /\ held[c] # << >>
        /\ \/ received' = [received EXCEPT ![c] = z] /\ pump' = pump
           \/ Goto(c, "writer", "leave") /\ received' = received
        /\ UNCHANGED <<clients, todo, send, taken, joined>>
    BY DEF FinishWrite, channels
  <1> HIDE DEF z
  <1> SUFFICES ASSUME NEW k \in Clients
               PROVE  (Matches(received[k], taken, joined[k]) /\ Steady(k) /\ Idle(k))'
    BY DEF StreamInv
  <1>2. Matches(received[k], taken, joined[k]) /\ Steady(k) /\ Idle(k)
    BY DEF StreamInv
  <1>3. CASE k # c
    <2>1. held'[k] = held[k] /\ received'[k] = received[k] /\ pump'[k] = pump[k]
      BY <1>1, <1>3 DEF TypeOK, Goto
    <2> QED
      BY <1>1, <1>2, <2>1 DEF Steady, Idle
  <1>4. CASE k = c
    <2>1. held'[k] = << >> /\ pump[k]["writer"] = "run"
      BY <1>1, <1>2, <1>4 DEF TypeOK, Idle
    <2>2. /\ received[k] \in Messages /\ held[k] \in Messages /\ send[k] \in Messages
          /\ joined[k] \in Nat /\ Len(received[k]) \in Nat /\ Len(held[k]) \in Nat
          /\ Len(send[k]) \in Nat /\ Len(taken) \in Nat /\ taken \in Messages
      BY LenProperties DEF TypeOK, Messages
    <2>3. Continues(received[k], held[k], send[k], taken, joined[k])
      BY <1>2, <2>1 DEF Steady
    <2>4. pump[k] # Unstarted
      BY <2>1, StagesTyped DEF Unstarted
    <2>5. CASE received' = [received EXCEPT ![c] = z] /\ pump' = pump
      <3>1. received'[k] = z
        BY <1>4, <2>5 DEF TypeOK
      <3>2. /\ Continues(z, << >>, send[k], taken, joined[k])
            /\ \A n \in Nat : Missing(received[k], held[k], send[k], taken, joined[k], n)
                               => Missing(z, << >>, send[k], taken, joined[k], n)
        BY <1>4, <2>2, <2>3, WriteEnds DEF z
      <3>7. /\ k \in clients /\ k \notin todo => Missing(z, << >>, send[k], taken, joined[k], 0)
            /\ k \in clients /\ k \in todo => Missing(z, << >>, send[k], taken, joined[k], 1)
        BY <1>2, <2>1, <3>2 DEF Steady
      <3>8. Steady(k)'
        BY <1>1, <2>1, <3>1, <3>2, <3>7 DEF Steady
      <3>9. Idle(k)'
        BY <2>1, <2>4, <2>5 DEF Idle
      <3> QED
        BY <1>1, <3>1, <3>2, <3>8, <3>9 DEF Continues
    <2>6. CASE Goto(c, "writer", "leave") /\ received' = received
      <3>1. pump'[k]["writer"] = "leave"
        BY <1>4, <2>6, StagesTyped DEF Goto, TypeOK
      <3>2. pump'[k] # Unstarted
        BY <3>1, StagesTyped DEF Unstarted
      <3> QED
        BY <1>1, <1>2, <2>1, <2>6, <3>1, <3>2 DEF Steady, Idle
    <2> QED
      BY <1>1, <2>5, <2>6
  <1> QED
    BY <1>3, <1>4

LEMMA StreamStep == TypeOK /\ StreamInv /\ [Next]_vars => StreamInv'
  <1> SUFFICES ASSUME TypeOK, StreamInv, [Next]_vars PROVE StreamInv'
    OBVIOUS
  <1>1. \A k \in Clients : pump[k]["writer"] # "run" => held[k] = << >>
    BY DEF StreamInv, Idle
  <1>2. ASSUME NEW c \in Clients, NEW p \in Pumps, Unregister(c, p)
        PROVE  StreamInv'
    <2>1. UNCHANGED <<taken, joined, received, held, send, todo>> /\ clients' \subseteq clients
      BY <1>2 DEF Unregister, history
    <2>2. \A k \in Clients : /\ pump'[k] = Unstarted => pump[k] = Unstarted
                             /\ pump'[k]["writer"] = "run" => pump[k]["writer"] = "run"
                             /\ pump'[k]["writer"] # "run" => held[k] = << >>
      BY <1>2, GotoEnds, StagesTyped DEF Unregister
    <2> QED
      BY <2>1, <2>2, StreamsStay
  <1>3. ASSUME NEW c \in Clients, NEW p \in Pumps, CloseConnection(c, p)
        PROVE  StreamInv'
    <2>1. UNCHANGED <<taken, joined, received, held, send, todo, clients>>
      BY <1>3 DEF CloseConnection, history, channels
    <2>2. \A k \in Clients : /\ pump'[k] = Unstarted => pump[k] = Unstarted
                             /\ pump'[k]["writer"] = "run" => pump[k]["writer"] = "run"
                             /\ pump'[k]["writer"] # "run" => held[k] = << >>
      BY <1>3, GotoEnds, StagesTyped DEF CloseConnection
    <2> QED
      BY <2>1, <2>2, StreamsStay
  <1>4. ASSUME NEW c \in Clients, EndWrites(c) \/ ReadFails(c)
        PROVE  StreamInv'
    <2>1. UNCHANGED <<taken, joined, received, held, send, todo, clients>>
      BY <1>4 DEF EndWrites, ReadFails, history, channels
    <2>2. \A k \in Clients : /\ pump'[k] = Unstarted => pump[k] = Unstarted
                             /\ pump'[k]["writer"] = "run" => pump[k]["writer"] = "run"
                             /\ pump'[k]["writer"] # "run" => held[k] = << >>
      BY <1>4, GotoEnds, StagesTyped DEF EndWrites, ReadFails
    <2> QED
      BY <2>1, <2>2, StreamsStay
  <1>5. CASE Broadcast \/ (\E c \in Clients : PeerLeaves(c)) \/ UNCHANGED vars
    <2>1. UNCHANGED <<taken, joined, received, held, send, todo, clients, pump>>
      BY <1>5 DEF Broadcast, PeerLeaves, vars, history, channels
    <2> QED
      BY <1>1, <2>1, StreamsStay
  <1> QED
    BY <1>2, <1>3, <1>4, <1>5, TakeStream, RegisterStream, OfferStream, StartWriteStream,
       FinishWriteStream
    DEF Next, Run, Write

(* A dashboard sees the messages since its registration in their order and *)
(* without a gap, right up to the point where it is cut off: what it was   *)
(* written, what is being written and what waits continue one another, and *)
(* a message it has no room for ends its registration.                     *)
THEOREM ClientsSeeEveryMessage == Spec => []NoGaps
  <1>1. TypeOK /\ StreamInv => NoGaps
    <2> SUFFICES ASSUME TypeOK, StreamInv, NEW c \in Clients
                 PROVE  /\ received[c] = SubSeq(From(c), 1, Len(received[c]))
                        /\ c \in clients /\ pump[c]["writer"] = "run" =>
                             Stream(c) = SubSeq(From(c), 1, Len(From(c))
                                                 - IF c \in todo THEN 1 ELSE 0)
      BY DEF NoGaps
    <2>1. Matches(received[c], taken, joined[c]) /\ Steady(c)
      BY DEF StreamInv
    <2>2. /\ received[c] \in Messages /\ held[c] \in Messages /\ send[c] \in Messages
          /\ joined[c] \in Nat /\ Len(received[c]) \in Nat /\ Len(held[c]) \in Nat
          /\ Len(send[c]) \in Nat /\ Len(taken) \in Nat /\ taken \in Messages
      BY LenProperties DEF TypeOK, Messages
    <2>3. received[c] = SubSeq(From(c), 1, Len(received[c]))
      BY <2>1, <2>2, MatchesSubSeq DEF From
    <2>4. ASSUME c \in clients, pump[c]["writer"] = "run"
          PROVE  Stream(c) = SubSeq(From(c), 1, Len(From(c)) - IF c \in todo THEN 1 ELSE 0)
      <3>1. /\ Continues(received[c], held[c], send[c], taken, joined[c])
            /\ c \notin todo => Missing(received[c], held[c], send[c], taken, joined[c], 0)
            /\ c \in todo => Missing(received[c], held[c], send[c], taken, joined[c], 1)
        BY <2>1, <2>4 DEF Steady
      <3>2. \A n \in Nat : Missing(received[c], held[c], send[c], taken, joined[c], n)
                           => Stream(c) = SubSeq(From(c), 1, Len(From(c)) - n)
        <4>1. ASSUME NEW n \in Nat,
                     Missing(received[c], held[c], send[c], taken, joined[c], n)
              PROVE  Stream(c) = SubSeq(From(c), 1, Len(From(c)) - n)
          <5>1. /\ received[c] \in Messages /\ held[c] \in Messages
                /\ send[c] \in Messages /\ taken \in Messages /\ joined[c] \in Nat
                /\ Continues(received[c], held[c], send[c], taken, joined[c])
            BY <2>2, <3>1
          <5>2. AllBut((received[c] \o held[c]) \o send[c],
                       SubSeq(taken, joined[c] + 1, Len(taken)), n)
            BY <4>1, <5>1, StreamIsComplete, Zenon
          <5>3. AllBut(Stream(c), From(c), n)
            BY <5>2, Zenon DEF From, Stream
          <5> QED
            BY <5>3, Zenon DEF AllBut
        <4> QED
          BY <4>1
      <3>3. CASE c \in todo
        BY <3>1, <3>2, <3>3
      <3>4. CASE c \notin todo
        BY <3>1, <3>2, <3>4
      <3> QED
        BY <3>3, <3>4
    <2> QED
      BY <2>3, <2>4
  <1> QED
    BY <1>1, InitStream, StreamStep, TypeCorrect, PTL DEF Spec
=============================================================================
