--------------------------------- MODULE Hub ---------------------------------
(***************************************************************************)
(* The websocket hub.  One goroutine, Run, owns the set of clients and     *)
(* serves one event at a time: a registration, an unregistration, or a     *)
(* message, which it offers to every client without waiting for any.       *)
(* register and unregister are unbuffered, so their sender stays blocked   *)
(* until Run is back at its select; broadcast and each client's send are   *)
(* bounded queues.  Every client has a WritePump and a ReadPump; both      *)
(* unregister it when they end, in either order, and Run itself may have   *)
(* closed send before either does.                                         *)
(***************************************************************************)
EXTENDS Integers, Sequences

CONSTANTS Clients,      \* connections that may ever be made
          QueueSize,    \* capacity of Hub.broadcast (256)
          SendSize,     \* capacity of Client.send (256)
          MaxMessages   \* bound: calls of Broadcast

ASSUME HubAssumption ==
  /\ QueueSize \in Nat \ {0}
  /\ SendSize \in Nat \ {0}
  /\ MaxMessages \in Nat

VARIABLES
  clients,    \* Hub.clients
  queue,      \* Hub.broadcast
  todo,       \* clients that the message in hand is still to be offered to
  send,       \* send[c]: Client.send
  closes,     \* closes[c]: how often send was closed; a second time panics
  pump,       \* pump[c]: where the two goroutines of c are
  held,       \* held[c]: what WritePump has taken from send and is writing
  connected,  \* connected[c]: neither side has closed the connection
  issued,     \* calls of Broadcast so far; a message is its number
  taken,      \* history: the messages Run took from the queue
  joined,     \* history: Len(taken) when c was registered
  received    \* history: the messages written to the connection of c

vars == <<clients, queue, todo, send, closes, pump, held, connected,
          issued, taken, joined, received>>

channels == <<queue, send, closes>>
history  == <<issued, taken, joined, received>>

Pumps  == {"reader", "writer"}
Stage  == {"none", "run", "leave", "close", "done"}

Init ==
  /\ clients = {} /\ queue = << >> /\ todo = {}
  /\ send = [c \in Clients |-> << >>]
  /\ closes = [c \in Clients |-> 0]
  /\ pump = [c \in Clients |-> [p \in Pumps |-> "none"]]
  /\ held = [c \in Clients |-> << >>]
  /\ connected = [c \in Clients |-> FALSE]
  /\ issued = 0 /\ taken = << >>
  /\ joined = [c \in Clients |-> 0]
  /\ received = [c \in Clients |-> << >>]

Goto(c, p, stage) == pump' = [pump EXCEPT ![c][p] = stage]

-----------------------------------------------------------------------------
(* Broadcast, called by RunCheck in any number of goroutines: into the     *)
(* queue, or nowhere if the queue is full.                                 *)
Broadcast ==
  /\ issued < MaxMessages
  /\ issued' = issued + 1
  /\ queue' = IF Len(queue) < QueueSize THEN Append(queue, issued') ELSE queue
  /\ UNCHANGED <<clients, todo, send, closes, pump, held, connected,
                 taken, joined, received>>

-----------------------------------------------------------------------------
(* Run.                                                                    *)

Selecting == todo = {}

Close(c) == closes' = [closes EXCEPT ![c] = @ + 1]

(* A connection is made: Connect registers the client, then starts the     *)
(* two pumps.                                                              *)
Register(c) ==
  /\ Selecting
  /\ pump[c] = [p \in Pumps |-> "none"]
  /\ clients' = clients \cup {c}
  /\ pump' = [pump EXCEPT ![c] = [p \in Pumps |-> "run"]]
  /\ connected' = [connected EXCEPT ![c] = TRUE]
  /\ joined' = [joined EXCEPT ![c] = Len(taken)]
  /\ UNCHANGED <<todo, channels, held, issued, taken, received>>

UnregisterTwice(c, p) ==   \* mutant: whether or not c is still a client
  /\ Selecting
  /\ pump[c][p] = "leave"
  /\ clients' = clients \ {c} /\ Close(c)
  /\ Goto(c, p, "close")
  /\ UNCHANGED <<todo, queue, send, held, connected, history>>

UnregisterQuietly(c, p) ==   \* mutant: send stays open
  /\ Selecting
  /\ pump[c][p] = "leave"
  /\ clients' = clients \ {c}
  /\ Goto(c, p, "close")
  /\ UNCHANGED <<todo, channels, held, connected, history>>

Unregister(c, p) ==
  /\ Selecting
  /\ pump[c][p] = "leave"
  /\ IF c \in clients THEN clients' = clients \ {c} /\ Close(c)
                      ELSE UNCHANGED <<clients, closes>>
  /\ Goto(c, p, "close")
  /\ UNCHANGED <<todo, queue, send, held, connected, history>>

TakeMessage ==
  /\ Selecting
  /\ queue # << >>
  /\ taken' = Append(taken, Head(queue))
  /\ queue' = Tail(queue)
  /\ todo' = clients
  /\ UNCHANGED <<clients, send, closes, pump, held, connected,
                 issued, joined, received>>

Put(c) == send' = [send EXCEPT ![c] = Append(@, taken[Len(taken)])]

OfferSkips(c) ==   \* mutant: a client with a full queue misses the message
  /\ c \in todo
  /\ todo' = todo \ {c}
  /\ IF Len(send[c]) < SendSize THEN Put(c) ELSE UNCHANGED send
  /\ UNCHANGED <<clients, queue, closes, pump, held, connected, history>>

OfferWaits(c) ==   \* mutant: Run waits until the client has room
  /\ c \in todo
  /\ Len(send[c]) < SendSize
  /\ todo' = todo \ {c}
  /\ Put(c)
  /\ UNCHANGED <<clients, queue, closes, pump, held, connected, history>>

(* The message goes to the clients in the order of a range over a map; one *)
(* whose queue is full is closed and forgotten.                            *)
Offer(c) ==
  /\ c \in todo
  /\ todo' = todo \ {c}
  /\ IF Len(send[c]) < SendSize
     THEN Put(c) /\ UNCHANGED <<clients, closes>>
     ELSE Close(c) /\ clients' = clients \ {c} /\ UNCHANGED send
  /\ UNCHANGED <<queue, pump, held, connected, history>>

-----------------------------------------------------------------------------
(* WritePump.                                                              *)

StartWrite(c) ==
  /\ pump[c]["writer"] = "run" /\ held[c] = << >>
  /\ send[c] # << >>
  /\ held' = [held EXCEPT ![c] = <<Head(send[c])>>]
  /\ send' = [send EXCEPT ![c] = Tail(@)]
  /\ UNCHANGED <<clients, queue, todo, closes, pump, connected, history>>

(* A write to a connection that is gone may still seem to succeed.         *)
FinishWrite(c) ==
  /\ held[c] # << >>
  /\ held' = [held EXCEPT ![c] = << >>]
  /\ \/ received' = [received EXCEPT ![c] = @ \o held[c]] /\ UNCHANGED pump
     \/ ~connected[c] /\ Goto(c, "writer", "leave") /\ UNCHANGED received
  /\ UNCHANGED <<clients, channels, todo, connected, issued, taken, joined>>

(* The range over send ends when send is closed and empty.                 *)
EndWrites(c) ==
  /\ pump[c]["writer"] = "run" /\ held[c] = << >>
  /\ send[c] = << >> /\ closes[c] > 0
  /\ Goto(c, "writer", "leave")
  /\ UNCHANGED <<clients, channels, todo, held, connected, history>>

-----------------------------------------------------------------------------
(* ReadPump, what both pumps do last, and the peer.                        *)

ReadFails(c) ==
  /\ pump[c]["reader"] = "run"
  /\ ~connected[c]
  /\ Goto(c, "reader", "leave")
  /\ UNCHANGED <<clients, channels, todo, held, connected, history>>

CloseConnection(c, p) ==
  /\ pump[c][p] = "close"
  /\ Goto(c, p, "done")
  /\ connected' = [connected EXCEPT ![c] = FALSE]
  /\ UNCHANGED <<clients, channels, todo, held, history>>

PeerLeaves(c) ==
  /\ connected[c]
  /\ connected' = [connected EXCEPT ![c] = FALSE]
  /\ UNCHANGED <<clients, channels, todo, pump, held, history>>

-----------------------------------------------------------------------------
Write(c) == StartWrite(c) \/ FinishWrite(c) \/ EndWrites(c)

Run == TakeMessage \/ \E c \in Clients : Offer(c)

Next ==
  \/ Broadcast
  \/ Run
  \/ \E c \in Clients : \/ Register(c) \/ PeerLeaves(c)
                        \/ Write(c) \/ ReadFails(c)
                        \/ \E p \in Pumps : Unregister(c, p) \/ CloseConnection(c, p)

Spec == Init /\ [][Next]_vars

(* Run never stops, and Go's select chooses at random among the channels   *)
(* that are ready, so that none is passed over for ever.  Nothing is asked *)
(* of the clients.                                                         *)
RunIsFair ==
  /\ \A c \in Clients : WF_vars(Offer(c))
  /\ SF_vars(TakeMessage)
  /\ \A c \in Clients, p \in Pumps : SF_vars(Unregister(c, p))

(* What NothingLeaks assumes besides: a pump goes on when it can.  A write  *)
(* returns once its connection is gone; while the peer is there and does   *)
(* not read, it may block for ever.                                        *)
PumpsAreFair ==
  \A c \in Clients :
    /\ WF_vars(StartWrite(c)) /\ WF_vars(EndWrites(c)) /\ WF_vars(ReadFails(c))
    /\ WF_vars(~connected[c] /\ FinishWrite(c))
    /\ \A p \in Pumps : WF_vars(CloseConnection(c, p))

FairSpec == Spec /\ RunIsFair

-----------------------------------------------------------------------------
(* Properties.                                                             *)

Message == 1..MaxMessages

TypeOK ==
  /\ clients \subseteq Clients /\ todo \subseteq clients
  /\ queue \in Seq(Message) /\ Len(queue) <= QueueSize
  /\ send \in [Clients -> Seq(Message)]
  /\ \A c \in Clients : Len(send[c]) <= SendSize
  /\ closes \in [Clients -> Nat]
  /\ pump \in [Clients -> [Pumps -> Stage]]
  /\ held \in [Clients -> Seq(Message)]
  /\ connected \in [Clients -> BOOLEAN]
  /\ issued \in 0..MaxMessages /\ taken \in Seq(Message)
  /\ joined \in [Clients -> Nat]
  /\ received \in [Clients -> Seq(Message)]

(* However the two pumps and Run race to be rid of a client, its channel   *)
(* is never closed twice and never sent on once closed: either would end   *)
(* the process.                                                            *)
ClosedOnce == \A c \in Clients : closes[c] <= IF c \in clients THEN 0 ELSE 1

From(c)   == SubSeq(taken, joined[c] + 1, Len(taken))
Stream(c) == received[c] \o held[c] \o send[c]

(* A dashboard sees the messages in the order in which Run took them, from *)
(* its registration on and without a gap, right up to the point where it   *)
(* is cut off; while it is registered and its writer works, every message  *)
(* offered to it has been written or is on its way.                        *)
NoGaps ==
  \A c \in Clients :
    /\ received[c] = SubSeq(From(c), 1, Len(received[c]))
    /\ c \in clients /\ pump[c]["writer"] = "run" =>
         Stream(c) = SubSeq(From(c), 1, Len(From(c)) - IF c \in todo THEN 1 ELSE 0)

(* No client, however slow, keeps Run from the messages that wait: the     *)
(* queue is emptied again and again, even if no pump ever moves.           *)
QueueIsEmptied == []<>(queue = << >> /\ todo = {})

(* When a connection is gone both goroutines end and the hub forgets the   *)
(* client, provided that the pumps are scheduled: nothing leaks.           *)
NothingLeaks ==
  PumpsAreFair =>
    \A c \in Clients :
      pump[c]["reader"] # "none" /\ ~connected[c]
        ~> c \notin clients /\ \A p \in Pumps : pump[c][p] = "done"
=============================================================================
