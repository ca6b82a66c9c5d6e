---------------------------- MODULE MCNotification ----------------------------
(* Instances of Notification for TLC: small numbers stand for minutes and  *)
(* hours.                                                                  *)
EXTENDS Notification

CONSTANTS m1, c1, c2, g1, g2

Morning == [days |-> {0}, from |-> 0, to |-> 1]
MCSchedules == {Morning}

On(global, remind) == [state |-> "stored", enabled |-> TRUE, global |-> global,
                       remind |-> remind]
Gone   == [state |-> "gone", enabled |-> FALSE, global |-> FALSE, remind |-> 0]
Absent == [state |-> "unborn", enabled |-> FALSE, global |-> FALSE, remind |-> 0]

Setup(first, second, t, ssl, bound) ==
  [channel  |-> [c \in Channels |-> IF c = c1 THEN first ELSE second],
   triggers |-> [m \in Monitors |-> [c \in Channels |-> IF c = c1 THEN t ELSE None]],
   expiring |-> ssl, events |-> bound]

Cooling == [cooldown |-> 2, schedule |-> None]
Mornings == [cooldown |-> 0, schedule |-> Morning]

MCSetups == {Setup(On(TRUE, 1), Absent, None, {}, 1),
             Setup(On(FALSE, 0), Gone, Cooling, {m1}, 1),
             Setup(On(FALSE, 0), Gone, Mornings, {}, 2),
             Setup(On(FALSE, 1), On(TRUE, 1), Cooling, {m1}, 0)}
===============================================================================
