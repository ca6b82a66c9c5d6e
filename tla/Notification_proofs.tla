------------------------ MODULE Notification_proofs ------------------------
(***************************************************************************)
(* What holds of the notifications for any monitors, channels, goroutines, *)
(* periods and set-ups, however often calls fail and the process restarts. *)
(***************************************************************************)
EXTENDS Notification, TLAPS

(* A worker that has begun has a monitor, and one that has come to the     *)
(* channels has an assignment in hand.                                     *)
Chosen == {"cooldown", "schedule", "monitor", "send", "log"}

Sound(r) ==
  /\ r \in Worker
  /\ r.pc # "idle" => r.monitor \in Monitors
  /\ r.pc \in Chosen => r.now \in Assignment

WorkersAreSound ==
  worker \in [Workers -> Worker] /\ \A w \in Workers : Sound(worker[w])

-----------------------------------------------------------------------------
LEMMA NoTriggersTyped == NoTriggers \in Triggers
  BY NotificationAssumption DEF NoTriggers, Triggers

LEMMA IdleIsSound == Sound(Idle)
  BY NotificationAssumption DEF Idle, Sound, Worker, Label, Event, Chosen

(* Giving a worker a sound record keeps all workers sound.                 *)
LEMMA BecomesSound ==
  ASSUME WorkersAreSound, NEW w \in Workers, NEW r, Sound(r), Becomes(w, r)
  PROVE  WorkersAreSound'
  BY DEF WorkersAreSound, Becomes, Sound

LEMMA GotoSound ==
  ASSUME WorkersAreSound, NEW w \in Workers, ~At(w, "idle"),
         NEW label \in Label, Goto(w, label),
         label \in Chosen => worker[w].pc \in Chosen
  PROVE  WorkersAreSound'
  <1>1. Sound([worker[w] EXCEPT !.pc = label])
    BY DEF WorkersAreSound, Sound, Worker, At
  <1> QED
    BY <1>1, BecomesSound DEF Goto

LEMMA BeginSound ==
  ASSUME WorkersAreSound, NEW w \in Workers, NEW targets \in SUBSET Target,
         Begin(w, targets)
  PROVE  WorkersAreSound'
  <1>1. CASE Becomes(w, Idle)
    BY <1>1, IdleIsSound, BecomesSound
  <1>2. ASSUME NEW t \in targets,
               Becomes(w, [Idle EXCEPT !.pc = IF w = "ssl" THEN "recent" ELSE "channels",
                                       !.event = IF w = "ssl" THEN "ssl_expiry" ELSE "down",
                                       !.monitor = t.monitor, !.only = t.channel,
                                       !.targets = targets \ {t}])
        PROVE  WorkersAreSound'
    <2> DEFINE r == [Idle EXCEPT !.pc = IF w = "ssl" THEN "recent" ELSE "channels",
                                 !.event = IF w = "ssl" THEN "ssl_expiry" ELSE "down",
                                 !.monitor = t.monitor, !.only = t.channel,
                                 !.targets = targets \ {t}]
    <2>1. t.monitor \in Monitors /\ t.channel \in Channels \cup {None}
      BY DEF Target
    <2>2. Sound(r)
      BY <2>1, IdleIsSound DEF Idle, Sound, Worker, Label, Event, Chosen
    <2> QED
      BY <1>2, <2>2, BecomesSound
  <1> QED
    BY <1>1, <1>2 DEF Begin

LEMMA LeaveSound ==
  ASSUME WorkersAreSound, NEW w \in Workers, Leave(w)
  PROVE  WorkersAreSound'
  <1>1. worker[w].targets \in SUBSET Target
    BY DEF WorkersAreSound, Sound, Worker
  <1> QED
    BY <1>1, BeginSound DEF Leave

LEMMA NotifyChannelsSound ==
  ASSUME WorkersAreSound, NEW w \in Workers, ~At(w, "idle"),
         NEW assignments \in SUBSET Assignment, NotifyChannels(w, assignments)
  PROVE  WorkersAreSound'
  <1>1. CASE Leave(w)
    BY <1>1, LeaveSound
  <1>2. ASSUME NEW a \in assignments,
               Becomes(w, [worker[w] EXCEPT
                             !.pc = IF a.triggers.cooldown > 0 THEN "cooldown" ELSE Checked(a),
                             !.todo = assignments \ {a}, !.now = a,
                             !.left = Attempts, !.ok = FALSE])
        PROVE  WorkersAreSound'
    <2> DEFINE label == IF a.triggers.cooldown > 0 THEN "cooldown" ELSE Checked(a)
               r == [worker[w] EXCEPT !.pc = label,
                                      !.todo = assignments \ {a}, !.now = a,
                                      !.left = Attempts, !.ok = FALSE]
    <2>1. label \in Label
      BY DEF Checked, Label
    <2>2. a \in Assignment /\ assignments \ {a} \in SUBSET Assignment
      OBVIOUS
    <2>3. Attempts \in 1..Attempts
      BY NotificationAssumption
    <2>4. worker[w] \in Worker /\ worker[w].monitor \in Monitors
      BY DEF WorkersAreSound, Sound, At
    <2> HIDE DEF label
    <2>5. Sound(r)
      BY <2>1, <2>2, <2>3, <2>4 DEF Sound, Worker
    <2> QED
      BY <1>2, <2>5, BecomesSound DEF label
  <1> QED
    BY <1>1, <1>2 DEF NotifyChannels

LEMMA NextChannelSound ==
  ASSUME WorkersAreSound, NEW w \in Workers, ~At(w, "idle"), NextChannel(w)
  PROVE  WorkersAreSound'
  <1>1. worker[w].todo \in SUBSET Assignment
    BY DEF WorkersAreSound, Sound, Worker
  <1> QED
    BY <1>1, NotifyChannelsSound DEF NextChannel

-----------------------------------------------------------------------------
(* Everything but the workers.                                             *)
RestIsTyped ==
  /\ status \in [Monitors -> Status]
  /\ channel \in [Channels -> Channel]
  /\ triggers \in [Monitors -> [Channels -> Triggers \cup {None}]]
  /\ logs \in [Monitors -> [Channels -> [Column -> Age]]]
  /\ told \in [Monitors -> [Channels -> [Heard -> Age]]]
  /\ hour \in 0..(Days * Hours - 1)
  /\ expiring \subseteq Monitors
  /\ events \in Nat /\ disturbed \in BOOLEAN

Typed == RestIsTyped /\ WorkersAreSound

LEMMA TypedIsTypeOK == Typed => TypeOK
  BY DEF Typed, RestIsTyped, WorkersAreSound, TypeOK

LEMMA WeekHasHours == Days * Hours \in Nat \ {0}
  BY NotificationAssumption

LEMMA InitTyped == Init => Typed
  <1> SUFFICES ASSUME Init PROVE Typed
    OBVIOUS
  <1>1. PICK setup \in Setups :
          /\ channel = setup.channel /\ triggers = setup.triggers
          /\ expiring = setup.expiring /\ events = setup.events
    BY DEF Init
  <1>2. WellFormed(setup)
    BY SetupAssumption
  <1>3. Never \in Age
    BY NotificationAssumption DEF Age
  <1>4. logs \in [Monitors -> [Channels -> [Column -> Age]]]
    BY <1>3 DEF Init
  <1>5. told \in [Monitors -> [Channels -> [Heard -> Age]]]
    BY <1>3 DEF Init
  <1>6. WorkersAreSound
    BY IdleIsSound DEF Init, WorkersAreSound, Sound
  <1>7. hour \in 0..(Days * Hours - 1)
    BY WeekHasHours DEF Init
  <1> QED
    BY <1>1, <1>2, <1>4, <1>5, <1>6, <1>7
    DEF Init, Typed, RestIsTyped, WellFormed, Status

(* What a failing or succeeding call may do to the bound.                  *)
LEMMA OutcomeTyped ==
  ASSUME RestIsTyped, Succeeds \/ Fails \/ Missed \/ Edit
  PROVE  events' \in Nat /\ disturbed' \in BOOLEAN
  <1>1. events' \in Nat
    BY DEF RestIsTyped, Succeeds, Fails, Missed, Edit, AnEvent
  <1>2. disturbed' \in BOOLEAN
    BY Zenon DEF RestIsTyped, Succeeds, Fails, Missed, Edit
  <1> QED
    BY <1>1, <1>2

LEMMA AssignmentsTyped ==
  ASSUME RestIsTyped, NEW m \in Monitors
  PROVE  Assignments(m) \subseteq Assignment /\ Fallback(m) \subseteq Assignment
  BY NoTriggersTyped
  DEF RestIsTyped, Assignments, Fallback, AssignedTo, Assignment

(* Workers that look something up, or move on.                             *)
LEMMA LookUpTyped ==
  ASSUME Typed, NEW w \in Workers,
         \/ CheckRecent(w) \/ GetChannels(w) \/ GetGlobalChannels(w)
         \/ CheckCooldown(w) \/ CheckSchedule(w) \/ FindMonitor(w)
  PROVE  Typed'
  <1>1. RestIsTyped'
    BY OutcomeTyped
    DEF Typed, RestIsTyped, CheckRecent, GetChannels, GetGlobalChannels,
        CheckCooldown, CheckSchedule, FindMonitor, config
  <1>2. ~At(w, "idle")
    BY DEF CheckRecent, GetChannels, GetGlobalChannels, CheckCooldown,
           CheckSchedule, FindMonitor, At
  <1>3. worker[w].monitor \in Monitors
    BY <1>2 DEF Typed, WorkersAreSound, Sound, At
  <1> DEFINE found == Assignments(worker[w].monitor)
             global == Fallback(worker[w].monitor)
  <1>4. Selected(w, found) \in SUBSET Assignment /\ Selected(w, global) \in SUBSET Assignment
    BY <1>3, AssignmentsTyped DEF Selected, Typed
  <1>5. \A a : Checked(a) \in Label
    BY DEF Checked, Label
  <1>11. "channels" \notin Chosen /\ "global" \notin Chosen
    BY DEF Chosen
  <1>6. CASE CheckRecent(w)
    <2>1. Leave(w) \/ Goto(w, "channels")
      BY <1>6 DEF CheckRecent
    <2> QED
      BY <1>1, <1>2, <1>11, <2>1, LeaveSound, GotoSound DEF Typed, Label
  <1>7. CASE GetChannels(w)
    <2>1. Goto(w, "global") \/ NotifyChannels(w, Selected(w, found)) \/ Leave(w)
      BY <1>7 DEF GetChannels
    <2> QED
      BY <1>1, <1>2, <1>4, <1>11, <2>1, LeaveSound, GotoSound, NotifyChannelsSound
      DEF Typed, Label
  <1>8. CASE GetGlobalChannels(w)
    <2>1. NotifyChannels(w, Selected(w, global)) \/ Leave(w)
      BY <1>8 DEF GetGlobalChannels
    <2> QED
      BY <1>1, <1>2, <1>4, <2>1, LeaveSound, NotifyChannelsSound DEF Typed
  <1>9. CASE CheckCooldown(w)
    <2>1. NextChannel(w) \/ Goto(w, Checked(worker[w].now))
      BY <1>9 DEF CheckCooldown
    <2>2. worker[w].pc \in Chosen
      BY <1>9 DEF CheckCooldown, At, Chosen
    <2> QED
      BY <1>1, <1>2, <1>5, <2>1, <2>2, NextChannelSound, GotoSound DEF Typed
  <1>10. CASE CheckSchedule(w) \/ FindMonitor(w)
    <2>1. NextChannel(w) \/ Goto(w, "monitor") \/ Goto(w, "send")
      BY <1>10 DEF CheckSchedule, FindMonitor
    <2>2. worker[w].pc \in Chosen
      BY <1>10 DEF CheckSchedule, FindMonitor, At, Chosen
    <2> QED
      BY <1>1, <1>2, <2>1, <2>2, NextChannelSound, GotoSound DEF Typed, Label
  <1> QED
    BY <1>6, <1>7, <1>8, <1>9, <1>10

(* One entry of a table of tables is replaced.                             *)
LEMMA ReplaceOne ==
  ASSUME NEW V, NEW f \in [Monitors -> [Channels -> V]],
         NEW m \in Monitors, NEW c \in Channels, NEW v \in V
  PROVE  [f EXCEPT ![m][c] = v] \in [Monitors -> [Channels -> V]]
  OBVIOUS

(* Zero is an age, and so is what a tick makes of an age.                  *)
LEMMA AgesTyped == 0 \in Age /\ \A a \in Age : Older(a) \in Age
  BY NotificationAssumption DEF Age, Older

LEMMA SendTyped ==
  ASSUME Typed, NEW w \in Workers, Send(w)
  PROVE  Typed'
  <1>1. /\ ~At(w, "idle") /\ worker[w] \in Worker /\ worker[w].monitor \in Monitors
        /\ worker[w].now \in Assignment
    BY DEF Send, At, Typed, WorkersAreSound, Sound, Chosen
  <1>2. CASE /\ Accepted(w)
             /\ Becomes(w, [worker[w] EXCEPT !.pc = "log", !.ok = TRUE])
    <2>1. Sound([worker[w] EXCEPT !.pc = "log", !.ok = TRUE])
      BY <1>1 DEF Sound, Worker, Label, Chosen
    <2>2. WorkersAreSound'
      BY <1>2, <2>1, BecomesSound DEF Typed
    <2> DEFINE m == worker[w].monitor
               c == worker[w].now.channel
               new == [k \in Heard |-> IF k \in {"any", IF w = "ssl" THEN "warning" ELSE w}
                                       THEN 0 ELSE told[m][c][k]]
    <2>3. told \in [Monitors -> [Channels -> [Heard -> Age]]]
      BY DEF Typed, RestIsTyped
    <2>4. m \in Monitors /\ c \in Channels
      BY <1>1 DEF Assignment
    <2>5. new \in [Heard -> Age]
      BY <2>3, <2>4, AgesTyped
    <2>6. told' = [told EXCEPT ![m][c] = new]
      BY <1>2 DEF Accepted
    <2> HIDE DEF m, c, new
    <2>7. told' \in [Monitors -> [Channels -> [Heard -> Age]]]
      BY <2>3, <2>4, <2>5, <2>6, ReplaceOne
    <2> QED
      BY <2>2, <2>7, OutcomeTyped DEF Send, Typed, RestIsTyped, config
  <1>3. CASE UNCHANGED told /\ Becomes(w, IF Again(w)
                                 THEN [worker[w] EXCEPT !.left = @ - 1]
                                 ELSE [worker[w] EXCEPT !.pc = "log"])
    <2>1. Again(w) => Sound([worker[w] EXCEPT !.left = @ - 1])
      BY <1>1, NotificationAssumption DEF Sound, Worker, Again, Chosen
    <2>2. Sound([worker[w] EXCEPT !.pc = "log"])
      BY <1>1 DEF Sound, Worker, Label, Chosen
    <2>3. WorkersAreSound'
      BY <1>3, <2>1, <2>2, BecomesSound DEF Typed
    <2> QED
      BY <1>3, <2>3, OutcomeTyped DEF Send, Typed, RestIsTyped, config
  <1> QED
    BY <1>2, <1>3 DEF Send

LEMMA LogTyped ==
  ASSUME Typed, NEW w \in Workers, LogNotification(w)
  PROVE  Typed'
  <1>1. ~At(w, "idle")
    BY DEF LogNotification, At
  <1>2. WorkersAreSound'
    BY <1>1, NextChannelSound DEF LogNotification, Typed
  <1> DEFINE m == worker[w].monitor
             c == worker[w].now.channel
             new == [k \in Column |-> IF k \in Columns(w) THEN 0 ELSE logs[m][c][k]]
  <1>3. \/ UNCHANGED logs
        \/ logs' = [logs EXCEPT ![m][c] = new]
    BY DEF LogNotification
  <1>4. logs \in [Monitors -> [Channels -> [Column -> Age]]]
    BY DEF Typed, RestIsTyped
  <1>5. m \in Monitors /\ c \in Channels
    BY DEF LogNotification, Typed, WorkersAreSound, Sound, At, Chosen, Assignment
  <1>7. new \in [Column -> Age]
    BY <1>4, <1>5, AgesTyped
  <1> HIDE DEF m, c, new
  <1>6. logs' \in [Monitors -> [Channels -> [Column -> Age]]]
    <2>1. CASE UNCHANGED logs
      BY <1>4, <2>1
    <2>2. CASE logs' = [logs EXCEPT ![m][c] = new]
      BY <1>4, <1>5, <1>7, <2>2, ReplaceOne
    <2> QED
      BY <1>3, <2>1, <2>2
  <1> QED
    BY <1>2, <1>6, OutcomeTyped DEF LogNotification, Typed, RestIsTyped, config

(* Workers that begin.                                                     *)
LEMMA StartTyped ==
  ASSUME Typed,
         \/ \E m \in Monitors, g \in Goroutines, new \in Status \ {"gone"} :
              RecordStatus(m, g, new)
         \/ StartReminders
         \/ StartWarnings
  PROVE  Typed'
  <1>1. ASSUME NEW m \in Monitors, NEW g \in Goroutines, NEW new \in Status \ {"gone"},
               RecordStatus(m, g, new)
        PROVE  Typed'
    <2>1. status' \in [Monitors -> Status]
      BY <1>1 DEF RecordStatus, Typed, RestIsTyped
    <2>2. new = "down" \/ new = "up" =>
            Sound([Idle EXCEPT !.pc = "channels", !.event = new, !.monitor = m])
      BY IdleIsSound DEF Idle, Sound, Worker, Label, Event, Chosen
    <2>3. WorkersAreSound'
      <3>1. CASE UNCHANGED worker
        BY <3>1 DEF Typed, WorkersAreSound
      <3>2. CASE /\ new = "down" \/ new = "up"
                 /\ Becomes(g, [Idle EXCEPT !.pc = "channels", !.event = new, !.monitor = m])
        <4>1. g \in Workers
          BY DEF Workers
        <4> QED
          BY <2>2, <3>2, <4>1, BecomesSound DEF Typed
      <3> QED
        BY <1>1, <3>1, <3>2 DEF RecordStatus
    <2> QED
      BY <1>1, <2>1, <2>3, OutcomeTyped DEF RecordStatus, Typed, RestIsTyped
  <1>2. CASE StartReminders
    <2> DEFINE due == {t \in [monitor : Monitors, channel : Channels] :
                         Due(t.monitor, t.channel)}
    <2>1. due \in SUBSET Target
      BY DEF Target
    <2>2. Begin("reminder", due)
      BY <1>2 DEF StartReminders
    <2> HIDE DEF due
    <2>3. WorkersAreSound'
      BY <2>1, <2>2, BeginSound DEF Typed, Workers
    <2> QED
      BY <1>2, <2>3 DEF StartReminders, Typed, RestIsTyped, config
  <1>3. CASE StartWarnings
    <2>1. PICK S \in SUBSET Monitors : Begin("ssl", [monitor : S, channel : {None}])
      BY <1>3 DEF StartWarnings, Typed, RestIsTyped
    <2>2. [monitor : S, channel : {None}] \in SUBSET Target
      BY DEF Target
    <2>3. WorkersAreSound'
      BY <2>1, <2>2, BeginSound DEF Typed, Workers
    <2> QED
      BY <1>3, <2>3 DEF StartWarnings, Typed, RestIsTyped, config
  <1> QED
    BY <1>1, <1>2, <1>3

(* The administrator's requests leave the workers alone.                   *)
LEMMA EditTyped ==
  ASSUME Typed, Edits
  PROVE  Typed'
  <1> USE DEF Typed, RestIsTyped
  <1>1. WorkersAreSound' <=> WorkersAreSound
    BY DEF Edits, EditChannel, EditAssignment, WriteChannel, DeleteChannel, AssignChannel, UnassignChannel,
           UpdateTriggers, DeleteMonitor, elsewhere, WorkersAreSound
  <1>2. ASSUME NEW c \in Channels, NEW e \in BOOLEAN, NEW g \in BOOLEAN,
               NEW r \in Intervals, WriteChannel(c, e, g, r)
        PROVE  Typed'
    <2>1. [state |-> "stored", enabled |-> e, global |-> g, remind |-> r] \in Channel
      BY DEF Channel
    <2>2. channel' \in [Channels -> Channel]
      BY <1>2, <2>1 DEF WriteChannel
    <2> QED
      BY <1>1, <1>2, <2>2, OutcomeTyped DEF WriteChannel, elsewhere
  <1>3. ASSUME NEW c \in Channels, DeleteChannel(c)
        PROVE  Typed'
    <2>1. [channel[c] EXCEPT !.state = "gone"] \in Channel
      BY DEF Channel
    <2>2. channel' \in [Channels -> Channel]
      BY <1>3, <2>1 DEF DeleteChannel
    <2>3. triggers' \in [Monitors -> [Channels -> Triggers \cup {None}]]
      BY <1>3 DEF DeleteChannel
    <2>4. [k \in Column |-> Never] \in [Column -> Age]
      BY NotificationAssumption DEF Age
    <2>5. logs' \in [Monitors -> [Channels -> [Column -> Age]]]
      BY <1>3, <2>4 DEF DeleteChannel
    <2> QED
      BY <1>1, <1>3, <2>2, <2>3, <2>5, OutcomeTyped DEF DeleteChannel, elsewhere
  <1>4. ASSUME NEW m \in Monitors, NEW c \in Channels, NEW t \in Triggers \cup {None},
               triggers' = [triggers EXCEPT ![m][c] = t],
               Edit, UNCHANGED <<status, channel, logs, elsewhere>>
        PROVE  Typed'
    <2>1. triggers' \in [Monitors -> [Channels -> Triggers \cup {None}]]
      BY <1>4, ReplaceOne
    <2> QED
      BY <1>1, <1>4, <2>1, OutcomeTyped DEF elsewhere
  <1>5. ASSUME NEW m \in Monitors, NEW c \in Channels,
               \/ AssignChannel(m, c) \/ UnassignChannel(m, c)
               \/ \E t \in Triggers : UpdateTriggers(m, c, t)
        PROVE  Typed'
    BY <1>4, <1>5, NoTriggersTyped DEF AssignChannel, UnassignChannel, UpdateTriggers
  <1>6. ASSUME NEW m \in Monitors, DeleteMonitor(m)
        PROVE  Typed'
    <2>1. status' \in [Monitors -> Status]
      BY <1>6 DEF DeleteMonitor, Status
    <2>2. triggers' \in [Monitors -> [Channels -> Triggers \cup {None}]]
      BY <1>6 DEF DeleteMonitor
    <2> QED
      BY <1>1, <1>6, <2>1, <2>2, OutcomeTyped DEF DeleteMonitor, elsewhere
  <1> QED
    BY <1>2, <1>3, <1>5, <1>6 DEF Edits, EditChannel, EditAssignment

LEMMA TickTyped ==
  ASSUME Typed, Tick
  PROVE  Typed'
  <1> USE DEF Typed, RestIsTyped
  <1>1. logs' \in [Monitors -> [Channels -> [Column -> Age]]]
    BY AgesTyped DEF Tick
  <1>2. told' \in [Monitors -> [Channels -> [Heard -> Age]]]
    BY AgesTyped DEF Tick
  <1> DEFINE week == Days * Hours
  <1>3. week \in Nat \ {0}
    BY WeekHasHours
  <1>4. hour' = (hour + 1) % week /\ hour \in 0..(week - 1)
    BY DEF Tick
  <1> HIDE DEF week
  <1>5. hour' \in 0..(week - 1)
    BY <1>3, <1>4
  <1>6. WorkersAreSound'
    BY DEF Tick, WorkersAreSound
  <1> QED
    BY <1>1, <1>2, <1>5, <1>6 DEF Tick, config, week

LEMMA TypedStep == Typed /\ [Next]_vars => Typed'
  <1> SUFFICES ASSUME Typed, [Next]_vars PROVE Typed'
    OBVIOUS
  <1>1. ASSUME NEW w \in Workers, Work(w)
        PROVE  Typed'
    BY <1>1, LookUpTyped, SendTyped, LogTyped DEF Work
  <1>2. CASE Restart
    <2>1. WorkersAreSound'
      BY <1>2, IdleIsSound DEF Restart, WorkersAreSound, Sound
    <2>2. events' \in Nat /\ disturbed' \in BOOLEAN
      BY <1>2 DEF Restart, AnEvent, Typed, RestIsTyped
    <2> QED
      BY <1>2, <2>1, <2>2 DEF Restart, Typed, RestIsTyped, config
  <1>3. CASE UNCHANGED vars
    BY <1>3 DEF vars, Typed, RestIsTyped, WorkersAreSound
  <1> QED
    BY <1>1, <1>2, <1>3, StartTyped, EditTyped, TickTyped DEF Next

(* Every variable holds what the schema, the Go types and the clock allow.  *)
THEOREM TypeCorrect == Spec => []TypeOK
  <1>1. Spec => []Typed
    BY InitTyped, TypedStep, PTL DEF Spec
  <1> QED
    BY <1>1, TypedIsTypeOK, PTL

(* The query for reminders and the query for a monitor's channels agree, in *)
(* every state: no reminder is due that could not be sent.                  *)
THEOREM RoutedReminders == Spec => []RemindersAreRouted
  <1>1. RemindersAreRouted
    <2> SUFFICES ASSUME NEW m \in Monitors, NEW c \in Channels, Remindable(m, c)
                 PROVE  \E a \in ListMonitorChannels(m) : a.channel = c
      BY DEF RemindersAreRouted
    <2>1. CASE c \in AssignedTo(m)
      <3>1. [channel |-> c, triggers |-> triggers[m][c]] \in Assignments(m)
        BY <2>1 DEF Remindable, Assignments
      <3> QED
        BY <3>1 DEF ListMonitorChannels
    <2>2. CASE c \notin AssignedTo(m)
      <3>1. Assignments(m) = {}
        BY <2>2 DEF Remindable, Assignments
      <3>2. [channel |-> c, triggers |-> NoTriggers] \in Fallback(m)
        BY <2>2 DEF Remindable, Fallback
      <3> QED
        BY <3>1, <3>2 DEF ListMonitorChannels
    <2> QED
      BY <2>1, <2>2
  <1> QED
    BY <1>1, PTL

-----------------------------------------------------------------------------
(* LogCoversMessages.  While nothing was disturbed, a message that the log *)
(* does not cover yet belongs to a worker about to write its row.  That a  *)
(* channel just created cannot have old messages is part of the invariant: *)
(* no worker knows of it and it was told nothing.                          *)
Mentions(r, c) ==
  (\E a \in r.todo : a.channel = c) \/ (r.pc \in Chosen /\ r.now.channel = c)

AboutToLog(r, m, c) ==
  r.pc = "log" /\ r.ok /\ r.monitor = m /\ r.now.channel = c

Covered(m, c) ==
  \/ ~Stored(c)
  \/ logs[m][c]["sent"] <= told[m][c]["any"]
  \/ \E w \in Workers : AboutToLog(worker[w], m, c)

Fresh(c) ==
  channel[c].state = "unborn" =>
    /\ \A m \in Monitors : told[m][c]["any"] = Never
    /\ \A w \in Workers : ~Mentions(worker[w], c)

CoverInv ==
  ~disturbed => \A c \in Channels : Fresh(c) /\ \A m \in Monitors : Covered(m, c)

(* Worker w takes up a record that mentions only channels of S.            *)
Moves(w, S) == \E r : Becomes(w, r) /\ \A c \in Channels : Mentions(r, c) => c \in S

Mentioned(w) == {c \in Channels : Mentions(worker[w], c)}

ChannelsOf(A) == {a.channel : a \in A}

LEMMA BeginMoves ==
  ASSUME NEW w \in Workers, NEW targets, Begin(w, targets)
  PROVE  Moves(w, {})
  <1>1. CASE Becomes(w, Idle)
    <2>1. \A c \in Channels : ~Mentions(Idle, c)
      BY DEF Idle, Mentions, Chosen
    <2> QED
      BY <1>1, <2>1 DEF Moves
  <1>2. ASSUME NEW t \in targets,
               Becomes(w, [Idle EXCEPT !.pc = IF w = "ssl" THEN "recent" ELSE "channels",
                                       !.event = IF w = "ssl" THEN "ssl_expiry" ELSE "down",
                                       !.monitor = t.monitor, !.only = t.channel,
                                       !.targets = targets \ {t}])
        PROVE  Moves(w, {})
    <2> DEFINE r == [Idle EXCEPT !.pc = IF w = "ssl" THEN "recent" ELSE "channels",
                                 !.event = IF w = "ssl" THEN "ssl_expiry" ELSE "down",
                                 !.monitor = t.monitor, !.only = t.channel,
                                 !.targets = targets \ {t}]
    <2>1. r.todo = {} /\ r.pc \in {"recent", "channels"}
      BY DEF Idle
    <2>2. \A c \in Channels : ~Mentions(r, c)
      BY <2>1 DEF Mentions, Chosen
    <2> QED
      BY <1>2, <2>2 DEF Moves
  <1> QED
    BY <1>1, <1>2 DEF Begin

LEMMA NotifyChannelsMoves ==
  ASSUME WorkersAreSound, NEW w \in Workers, NEW A, NotifyChannels(w, A)
  PROVE  Moves(w, ChannelsOf(A))
  <1>1. CASE Leave(w)
    BY <1>1, BeginMoves DEF Leave, Moves
  <1>2. ASSUME NEW a \in A,
               Becomes(w, [worker[w] EXCEPT
                             !.pc = IF a.triggers.cooldown > 0 THEN "cooldown" ELSE Checked(a),
                             !.todo = A \ {a}, !.now = a,
                             !.left = Attempts, !.ok = FALSE])
        PROVE  Moves(w, ChannelsOf(A))
    <2> DEFINE label == IF a.triggers.cooldown > 0 THEN "cooldown" ELSE Checked(a)
               r == [worker[w] EXCEPT !.pc = label,
                                      !.todo = A \ {a}, !.now = a,
                                      !.left = Attempts, !.ok = FALSE]
    <2> HIDE DEF label
    <2>1. r.todo = A \ {a} /\ r.now = a
      BY DEF WorkersAreSound, Sound, Worker
    <2> HIDE DEF r
    <2>2. \A c \in Channels : Mentions(r, c) => c \in ChannelsOf(A)
      BY <2>1 DEF Mentions, ChannelsOf
    <2> QED
      BY <1>2, <2>2 DEF Moves, label, r
  <1> QED
    BY <1>1, <1>2 DEF NotifyChannels

LEMMA NextChannelMoves ==
  ASSUME WorkersAreSound, NEW w \in Workers, NextChannel(w)
  PROVE  Moves(w, Mentioned(w))
  <1>1. Moves(w, ChannelsOf(worker[w].todo))
    BY NotifyChannelsMoves DEF NextChannel
  <1>2. \A c \in Channels : c \in ChannelsOf(worker[w].todo) => c \in Mentioned(w)
    BY DEF ChannelsOf, Mentioned, Mentions
  <1> QED
    BY <1>1, <1>2 DEF Moves

LEMMA GotoMoves ==
  ASSUME WorkersAreSound, NEW w \in Workers, NEW label, Goto(w, label),
         label \in Chosen => worker[w].pc \in Chosen
  PROVE  Moves(w, Mentioned(w))
  <1> DEFINE r == [worker[w] EXCEPT !.pc = label]
  <1>1. r.todo = worker[w].todo /\ r.now = worker[w].now /\ r.pc = label
    BY DEF WorkersAreSound, Sound, Worker
  <1>2. Becomes(w, r)
    BY DEF Goto
  <1> HIDE DEF r
  <1>3. \A c \in Channels : Mentions(r, c) => c \in Mentioned(w)
    BY <1>1 DEF Mentions, Mentioned
  <1> QED
    BY <1>2, <1>3 DEF Moves

(* A step of a worker that is not writing its row, and sends nothing.      *)
LEMMA MovesCover ==
  ASSUME Typed, CoverInv, NEW w \in Workers, worker[w].pc # "log",
         UNCHANGED <<channel, logs, told>>, ~disturbed' => ~disturbed,
         NEW S, Moves(w, S),
         \A c \in S : c \in Channels => c \in Mentioned(w) \/ Stored(c)
  PROVE  CoverInv'
  <1> SUFFICES ASSUME ~disturbed', NEW c \in Channels
               PROVE  Fresh(c)' /\ \A m \in Monitors : Covered(m, c)'
    BY DEF CoverInv
  <1>1. PICK r : Becomes(w, r) /\ \A d \in Channels : Mentions(r, d) => d \in S
    BY DEF Moves
  <1>2. worker' \in [Workers -> {r} \cup Worker]
        /\ worker'[w] = r /\ \A v \in Workers \ {w} : worker'[v] = worker[v]
    BY <1>1 DEF Becomes, Typed, WorkersAreSound
  <1>3. Fresh(c) /\ \A m \in Monitors : Covered(m, c)
    BY DEF CoverInv
  <1>4. Fresh(c)'
    BY <1>1, <1>2, <1>3 DEF Fresh, Mentioned, Stored
  <1>5. ASSUME NEW m \in Monitors
        PROVE  Covered(m, c)'
    BY <1>2, <1>3 DEF Covered, AboutToLog, Stored
  <1> QED
    BY <1>4, <1>5

LEMMA LookUpCovers ==
  ASSUME Typed, CoverInv, NEW w \in Workers,
         \/ CheckRecent(w) \/ GetChannels(w) \/ GetGlobalChannels(w)
         \/ CheckCooldown(w) \/ CheckSchedule(w) \/ FindMonitor(w)
  PROVE  CoverInv'
  <1> USE DEF CheckRecent, GetChannels, GetGlobalChannels,
              CheckCooldown, CheckSchedule, FindMonitor
  <1>1. UNCHANGED <<channel, logs, told>> /\ worker[w].pc # "log"
    BY DEF config, At
  <1>2. ~disturbed' => ~disturbed
    BY Zenon DEF Succeeds, Fails
  <1> DEFINE m == worker[w].monitor
             K == Mentioned(w)
             F == ChannelsOf(Selected(w, Assignments(m)))
             G == ChannelsOf(Selected(w, Fallback(m)))
  <1>3. \A c \in F \cup G : Stored(c)
    BY DEF ChannelsOf, Selected, Assignments, Fallback, Enabled
  <1>4. WorkersAreSound
    BY DEF Typed
  <1>5. Leave(w) => Moves(w, {})
    BY BeginMoves DEF Leave
  <1>6. CASE CheckRecent(w)
    <2>1. Leave(w) \/ Goto(w, "channels")
      BY <1>6
    <2>2. Moves(w, {}) \/ Moves(w, K)
      BY <1>4, <1>5, <2>1, GotoMoves DEF Chosen
    <2> QED
      BY <1>1, <1>2, <2>2, MovesCover
  <1>7. CASE GetChannels(w) \/ GetGlobalChannels(w)
    <2>1. \/ Leave(w) \/ Goto(w, "global")
          \/ NotifyChannels(w, Selected(w, Assignments(m)))
          \/ NotifyChannels(w, Selected(w, Fallback(m)))
      BY <1>7
    <2>2. Moves(w, {}) \/ Moves(w, K) \/ Moves(w, F) \/ Moves(w, G)
      BY <1>4, <1>5, <2>1, GotoMoves, NotifyChannelsMoves DEF Chosen
    <2> HIDE DEF F, G, K
    <2>3. Moves(w, F) => CoverInv'
      BY <1>1, <1>2, <1>3, MovesCover
    <2>4. Moves(w, G) => CoverInv'
      BY <1>1, <1>2, <1>3, MovesCover
    <2>5. Moves(w, K) \/ Moves(w, {}) => CoverInv'
      BY <1>1, <1>2, MovesCover DEF K
    <2> QED
      BY <2>2, <2>3, <2>4, <2>5
  <1>8. CASE CheckCooldown(w) \/ CheckSchedule(w) \/ FindMonitor(w)
    <2>1. \/ NextChannel(w) \/ Goto(w, Checked(worker[w].now))
          \/ Goto(w, "monitor") \/ Goto(w, "send")
      BY <1>8
    <2>2. worker[w].pc \in Chosen
      BY <1>8 DEF At, Chosen
    <2>3. Moves(w, K)
      BY <1>4, <2>1, <2>2, NextChannelMoves, GotoMoves
    <2> QED
      BY <1>1, <1>2, <2>3, MovesCover
  <1> QED
    BY <1>6, <1>7, <1>8

(* An accepted message is the worker's to log; a missed one changes         *)
(* nothing that the invariant is about.                                     *)
LEMMA SendCovers ==
  ASSUME Typed, CoverInv, NEW w \in Workers, Send(w)
  PROVE  CoverInv'
  <1> DEFINE m == worker[w].monitor
             c == worker[w].now.channel
  <1>1. /\ worker \in [Workers -> Worker] /\ worker[w].pc = "send"
        /\ m \in Monitors /\ c \in Channels
    BY DEF Send, At, Typed, WorkersAreSound, Sound, Chosen, Assignment
  <1>2. ~disturbed' => ~disturbed
    BY Zenon DEF Send, Succeeds, Missed
  <1>3. UNCHANGED <<channel, logs>>
    BY DEF Send, config
  <1>4. CASE /\ Accepted(w)
             /\ Becomes(w, [worker[w] EXCEPT !.pc = "log", !.ok = TRUE])
    <2> SUFFICES ASSUME ~disturbed', NEW d \in Channels
                 PROVE  Fresh(d)' /\ \A k \in Monitors : Covered(k, d)'
      BY DEF CoverInv
    <2> DEFINE r == [worker[w] EXCEPT !.pc = "log", !.ok = TRUE]
    <2>1. /\ r.pc = "log" /\ r.ok /\ r.monitor = m /\ r.now.channel = c
          /\ r.todo = worker[w].todo /\ r.now = worker[w].now
      BY <1>1 DEF Worker
    <2> HIDE DEF r
    <2>2. worker'[w] = r /\ \A v \in Workers \ {w} : worker'[v] = worker[v]
      BY <1>1, <1>4 DEF Becomes, r
    <2>3. told \in [Monitors -> [Channels -> [Heard -> Age]]]
      BY DEF Typed, RestIsTyped
    <2>4. \A k \in Monitors : k # m \/ d # c => told'[k][d] = told[k][d]
      BY <1>1, <1>4, <2>3 DEF Accepted
    <2>5. Fresh(d) /\ \A k \in Monitors : Covered(k, d)
      BY <1>2 DEF CoverInv
    <2>6. Mentions(worker[w], c)
      BY <1>1 DEF Mentions, Chosen
    <2>7. Mentions(r, d) => Mentions(worker[w], d)
      BY <1>1, <2>1 DEF Mentions, Chosen
    <2> HIDE DEF m, c
    <2>8. Fresh(d)'
      BY <1>3, <2>2, <2>4, <2>5, <2>6, <2>7 DEF Fresh
    <2>9. ASSUME NEW k \in Monitors
          PROVE  Covered(k, d)'
      <3>1. CASE k = m /\ d = c
        BY <2>1, <2>2, <3>1 DEF Covered, AboutToLog
      <3>2. CASE k # m \/ d # c
        BY <1>1, <1>3, <2>2, <2>4, <2>5, <3>2 DEF Covered, AboutToLog, Stored
      <3> QED
        BY <3>1, <3>2
    <2> QED
      BY <2>8, <2>9
  <1>5. CASE UNCHANGED told /\ Becomes(w, IF Again(w)
                                 THEN [worker[w] EXCEPT !.left = @ - 1]
                                 ELSE [worker[w] EXCEPT !.pc = "log"])
    <2> DEFINE r == IF Again(w) THEN [worker[w] EXCEPT !.left = @ - 1]
                                ELSE [worker[w] EXCEPT !.pc = "log"]
    <2>1. r.todo = worker[w].todo /\ r.now = worker[w].now
      BY <1>1 DEF Worker
    <2>2. Becomes(w, r)
      BY <1>5
    <2> HIDE DEF r
    <2>3. \A d \in Channels : Mentions(r, d) => d \in Mentioned(w)
      BY <1>1, <2>1 DEF Mentions, Mentioned, Chosen
    <2>4. Moves(w, Mentioned(w))
      BY <2>2, <2>3 DEF Moves
    <2> QED
      BY <1>1, <1>2, <1>3, <1>5, <2>4, MovesCover
  <1> QED
    BY <1>4, <1>5 DEF Send

(* The row a worker writes covers its message; the worker moves on.         *)
LEMMA LogCovers ==
  ASSUME Typed, CoverInv, NEW w \in Workers, LogNotification(w)
  PROVE  CoverInv'
  <1> DEFINE m == worker[w].monitor
             c == worker[w].now.channel
             new == [k \in Column |-> IF k \in Columns(w) THEN 0 ELSE logs[m][c][k]]
  <1> SUFFICES ASSUME ~disturbed', NEW d \in Channels
               PROVE  Fresh(d)' /\ \A k \in Monitors : Covered(k, d)'
    BY DEF CoverInv
  <1>1. /\ WorkersAreSound /\ worker \in [Workers -> Worker] /\ worker[w].pc = "log"
        /\ m \in Monitors /\ c \in Channels
    BY DEF LogNotification, At, Typed, WorkersAreSound, Sound, Chosen, Assignment
  <1>2. /\ ~disturbed
        /\ logs' = IF Stored(c) THEN [logs EXCEPT ![m][c] = new] ELSE logs
    BY DEF LogNotification, Succeeds, Fails
  <1>3. UNCHANGED <<channel, told>>
    BY DEF LogNotification, config
  <1>4. Moves(w, Mentioned(w))
    BY <1>1, NextChannelMoves DEF LogNotification
  <1>5. PICK r : Becomes(w, r) /\ \A e \in Channels : Mentions(r, e) => e \in Mentioned(w)
    BY <1>4 DEF Moves
  <1>6. worker'[w] = r /\ \A v \in Workers \ {w} : worker'[v] = worker[v]
    BY <1>1, <1>5 DEF Becomes
  <1>7. Fresh(d) /\ \A k \in Monitors : Covered(k, d)
    BY <1>2 DEF CoverInv
  <1>8. Fresh(d)'
    BY <1>3, <1>5, <1>6, <1>7 DEF Fresh, Mentioned
  <1>9. /\ logs \in [Monitors -> [Channels -> [Column -> Age]]]
        /\ told \in [Monitors -> [Channels -> [Heard -> Age]]]
    BY DEF Typed, RestIsTyped
  <1>10. \A a \in Age : a \in Nat
    BY NotificationAssumption DEF Age
  <1>11. new["sent"] = IF worker[w].ok THEN 0 ELSE logs[m][c]["sent"]
    BY DEF Columns, Column
  <1> HIDE DEF m, c, new
  <1>12. ASSUME NEW k \in Monitors
         PROVE  Covered(k, d)'
    <2>1. CASE ~Stored(d)
      BY <1>3, <2>1 DEF Covered, Stored
    <2>2. CASE Stored(d) /\ k = m /\ d = c
      <3>1. logs'[k][d] = new
        BY <1>1, <1>2, <1>9, <2>2
      <3>2. 0 <= told[k][d]["any"]
        BY <1>9, <1>10 DEF Heard
      <3>3. CASE worker[w].ok
        BY <1>3, <1>11, <3>1, <3>2, <3>3 DEF Covered
      <3>4. CASE ~worker[w].ok
        BY <1>3, <1>6, <1>7, <1>11, <2>2, <3>1, <3>4 DEF Covered, AboutToLog, Stored
      <3> QED
        BY <3>3, <3>4
    <2>3. CASE Stored(d) /\ (k # m \/ d # c)
      <3>1. logs'[k][d] = logs[k][d]
        BY <1>1, <1>2, <1>9, <2>3
      <3>2. ~AboutToLog(worker[w], k, d)
        BY <2>3 DEF AboutToLog, m, c
      <3> QED
        BY <1>3, <1>6, <1>7, <3>1, <3>2 DEF Covered, Stored
    <2> QED
      BY <2>1, <2>2, <2>3
  <1> QED
    BY <1>8, <1>12

LEMMA StartCovers ==
  ASSUME Typed, CoverInv,
         \/ \E m \in Monitors, g \in Goroutines, new \in Status \ {"gone"} :
              RecordStatus(m, g, new)
         \/ StartReminders
         \/ StartWarnings
  PROVE  CoverInv'
  <1>1. UNCHANGED <<channel, logs, told>>
    BY DEF RecordStatus, StartReminders, StartWarnings, config
  <1>2. ~disturbed' => ~disturbed
    BY Zenon DEF RecordStatus, StartReminders, StartWarnings, Succeeds, Fails
  <1>3. ASSUME NEW w \in Workers, At(w, "idle"), Moves(w, {})
        PROVE  CoverInv'
    BY <1>1, <1>2, <1>3, MovesCover DEF At
  <1>4. ASSUME NEW m \in Monitors, NEW g \in Goroutines, NEW new \in Status \ {"gone"},
               RecordStatus(m, g, new)
        PROVE  CoverInv'
    <2>1. g \in Workers /\ At(g, "idle")
      BY <1>4 DEF RecordStatus, Workers
    <2>2. CASE UNCHANGED worker
      <3>1. ~disturbed' => \A c \in Channels : Fresh(c)' <=> Fresh(c)
        BY <1>1, <2>2 DEF Fresh
      <3>2. ~disturbed' => \A c \in Channels, k \in Monitors : Covered(k, c)' <=> Covered(k, c)
        BY <1>1, <2>2 DEF Covered, Stored
      <3> QED
        BY <1>2, <3>1, <3>2 DEF CoverInv
    <2>3. CASE Becomes(g, [Idle EXCEPT !.pc = "channels", !.event = new, !.monitor = m])
      <3> DEFINE r == [Idle EXCEPT !.pc = "channels", !.event = new, !.monitor = m]
      <3>1. r.todo = {} /\ r.pc = "channels"
        BY DEF Idle
      <3>2. Moves(g, {})
        BY <2>3, <3>1 DEF Moves, Mentions, Chosen
      <3> QED
        BY <1>3, <2>1, <3>2
    <2> QED
      BY <1>4, <2>2, <2>3 DEF RecordStatus
  <1>5. CASE StartReminders \/ StartWarnings
    <2>1. \E targets : \E w \in Workers : At(w, "idle") /\ Begin(w, targets)
      BY <1>5 DEF StartReminders, StartWarnings, Workers
    <2> QED
      BY <1>3, <2>1, BeginMoves
  <1> QED
    BY <1>4, <1>5

(* A channel that is created was told nothing, a deleted one is not stored. *)
LEMMA EditCovers ==
  ASSUME Typed, CoverInv, Edits
  PROVE  CoverInv'
  <1> SUFFICES ASSUME ~disturbed', NEW d \in Channels
               PROVE  Fresh(d)' /\ \A k \in Monitors : Covered(k, d)'
    BY DEF CoverInv
  <1>1. ~disturbed /\ UNCHANGED <<told, worker>>
    BY DEF Edits, EditChannel, EditAssignment, WriteChannel, DeleteChannel, AssignChannel, UnassignChannel,
           UpdateTriggers, DeleteMonitor, elsewhere, Edit
  <1>2. Fresh(d) /\ \A k \in Monitors : Covered(k, d)
    BY <1>1 DEF CoverInv
  <1>3. /\ logs \in [Monitors -> [Channels -> [Column -> Age]]]
        /\ channel \in [Channels -> Channel]
    BY DEF Typed, RestIsTyped
  <1>4. CASE UNCHANGED <<channel, logs>>
    <2>1. Fresh(d)'
      BY <1>1, <1>2, <1>4 DEF Fresh
    <2>2. \A k \in Monitors : Covered(k, d)'
      BY <1>1, <1>2, <1>4 DEF Covered, Stored
    <2> QED
      BY <2>1, <2>2
  <1>5. ASSUME NEW c \in Channels, NEW e \in BOOLEAN, NEW g \in BOOLEAN,
               NEW r \in Intervals, WriteChannel(c, e, g, r)
        PROVE  Fresh(d)' /\ \A k \in Monitors : Covered(k, d)'
    <2>1. UNCHANGED logs /\ channel'[d].state \in {channel[d].state, "stored"}
      BY <1>3, <1>5 DEF WriteChannel
    <2>2. Fresh(d)'
      BY <1>1, <1>2, <2>1 DEF Fresh
    <2>3. ASSUME NEW k \in Monitors
          PROVE  Covered(k, d)'
      <3>1. CASE channel[d].state = "unborn"
        <4>1. told[k][d]["any"] = Never
          BY <1>2, <3>1 DEF Fresh
        <4>2. logs[k][d]["sent"] <= Never
          BY <1>3, NotificationAssumption DEF Age, Column
        <4> QED
          BY <1>1, <2>1, <4>1, <4>2 DEF Covered
      <3>2. CASE channel[d].state = "stored"
        BY <1>1, <1>2, <2>1, <3>2 DEF Covered, Stored
      <3>3. CASE channel[d].state = "gone"
        <4>1. d # c
          BY <1>5, <3>3 DEF WriteChannel
        <4>2. channel'[d] = channel[d]
          BY <1>3, <1>5, <4>1 DEF WriteChannel
        <4> QED
          BY <1>1, <1>2, <2>1, <4>2 DEF Covered, Stored
      <3> QED
        BY <1>3, <3>1, <3>2, <3>3 DEF Channel
    <2> QED
      BY <2>2, <2>3
  <1>6. ASSUME NEW c \in Channels, DeleteChannel(c)
        PROVE  Fresh(d)' /\ \A k \in Monitors : Covered(k, d)'
    <2>1. CASE d = c
      <3>1. channel'[d].state = "gone"
        BY <1>3, <1>6, <2>1 DEF DeleteChannel, Channel
      <3> QED
        BY <3>1 DEF Fresh, Covered, Stored
    <2>2. CASE d # c
      <3>1. channel'[d] = channel[d]
        BY <1>3, <1>6, <2>2 DEF DeleteChannel
      <3>2. \A k \in Monitors : logs'[k][d] = logs[k][d]
        BY <1>3, <1>6, <2>2 DEF DeleteChannel
      <3>3. Fresh(d)'
        BY <1>1, <1>2, <3>1 DEF Fresh
      <3>4. \A k \in Monitors : Covered(k, d)'
        BY <1>1, <1>2, <3>1, <3>2 DEF Covered, Stored
      <3> QED
        BY <3>3, <3>4
    <2> QED
      BY <2>1, <2>2
  <1> QED
    BY <1>4, <1>5, <1>6
    DEF Edits, EditChannel, EditAssignment, AssignChannel, UnassignChannel, UpdateTriggers, DeleteMonitor

(* Ages grow together.                                                     *)
LEMMA TickCovers ==
  ASSUME Typed, CoverInv, Tick
  PROVE  CoverInv'
  <1> SUFFICES ASSUME ~disturbed', NEW d \in Channels
               PROVE  Fresh(d)' /\ \A k \in Monitors : Covered(k, d)'
    BY DEF CoverInv
  <1>1. ~disturbed /\ UNCHANGED <<channel, worker>>
    BY DEF Tick, config
  <1>2. Fresh(d) /\ \A k \in Monitors : Covered(k, d)
    BY <1>1 DEF CoverInv
  <1>3. \A a, b \in Age : a <= b => Older(a) <= Older(b)
    BY NotificationAssumption DEF Age, Older
  <1>4. Older(Never) = Never
    BY NotificationAssumption DEF Older
  <1>5. ASSUME NEW k \in Monitors
        PROVE  /\ logs'[k][d]["sent"] = Older(logs[k][d]["sent"])
               /\ told'[k][d]["any"] = Older(told[k][d]["any"])
               /\ logs[k][d]["sent"] \in Age /\ told[k][d]["any"] \in Age
    BY DEF Tick, Typed, RestIsTyped, Column, Heard
  <1>6. Fresh(d)'
    BY <1>1, <1>2, <1>4, <1>5 DEF Fresh
  <1>7. ASSUME NEW k \in Monitors
        PROVE  Covered(k, d)'
    BY <1>1, <1>2, <1>3, <1>5 DEF Covered, Stored
  <1> QED
    BY <1>6, <1>7

LEMMA InitCovers == Init => CoverInv
  <1> SUFFICES ASSUME Init, NEW d \in Channels
               PROVE  Fresh(d) /\ \A k \in Monitors : Covered(k, d)
    BY DEF CoverInv
  <1>1. \A k \in Monitors : /\ told[k][d]["any"] = Never
                            /\ logs[k][d]["sent"] = Never
    BY DEF Init, Heard, Column
  <1>2. \A w \in Workers : ~Mentions(worker[w], d)
    BY DEF Init, Idle, Mentions, Chosen
  <1> QED
    BY <1>1, <1>2, NotificationAssumption DEF Fresh, Covered

LEMMA CoverStep == Typed /\ CoverInv /\ [Next]_vars => CoverInv'
  <1> SUFFICES ASSUME Typed, CoverInv, [Next]_vars PROVE CoverInv'
    OBVIOUS
  <1>1. ASSUME NEW w \in Workers, Work(w)
        PROVE  CoverInv'
    BY <1>1, LookUpCovers, SendCovers, LogCovers DEF Work
  <1>2. CASE Restart
    BY <1>2 DEF Restart, CoverInv
  <1>3. CASE UNCHANGED vars
    <2>1. \A d \in Channels : Fresh(d)' <=> Fresh(d)
      BY <1>3 DEF vars, Fresh
    <2>2. \A d \in Channels, k \in Monitors : Covered(k, d)' <=> Covered(k, d)
      BY <1>3 DEF vars, Covered, Stored
    <2> QED
      BY <1>3, <2>1, <2>2 DEF CoverInv, vars
  <1> QED
    BY <1>1, <1>2, <1>3, StartCovers, EditCovers, TickCovers DEF Next

LEMMA CoverIsEnough == CoverInv => LogCoversMessages
  BY DEF CoverInv, Covered, AboutToLog, LogCoversMessages, At

(* However workers, edits and the clock interleave, an accepted message     *)
(* counts for its channel's cooldown as soon as its worker has moved on.    *)
THEOREM MessagesAreCovered == Spec => []LogCoversMessages
  <1>1. Init => Typed /\ CoverInv
    BY InitTyped, InitCovers
  <1>2. (Typed /\ CoverInv) /\ [Next]_vars => (Typed /\ CoverInv)'
    BY TypedStep, CoverStep
  <1> QED
    BY <1>1, <1>2, CoverIsEnough, PTL DEF Spec
-----------------------------------------------------------------------------
(* Reminders and warnings.  While nothing was disturbed, the row of an      *)
(* earlier message is in the log before its sender looks again, so whoever  *)
(* it still has to send to has not heard of the monitor for long enough;    *)
(* and it sends only once to each.                                          *)

(* The two goroutines that send by themselves; what each looks for in the  *)
(* log, and what its messages are heard as.                                *)
Senders == {"reminder", "ssl"}
Row(w)  == IF w = "ssl" THEN "ssl" ELSE "down"
Ear(w)  == IF w = "ssl" THEN "warning" ELSE "reminder"

Enough(w, age) == IF w = "ssl" THEN age >= SslPeriod
                               ELSE \E i \in Intervals \ {0} : age > i

Apart(w, m, c) == Enough(w, told[m][c][Ear(w)])

Logging(r, m, c) == r.pc = "log" /\ r.monitor = m /\ r.now.channel = c

(* What was heard of w is no younger than its row.                         *)
Remembered(w, m, c) ==
  /\ channel[c].state = "unborn" => told[m][c][Ear(w)] = Never
  /\ Stored(c) => \/ logs[m][c][Row(w)] <= told[m][c][Ear(w)]
                  \/ Logging(worker[w], m, c)

(* Whom a worker may still get to, at a monitor                            *)
Aimed(w, r, c) == IF w = "ssl" THEN channel[c].state # "gone" ELSE c = r.only

Addressed(w, t) ==
  IF w = "ssl" THEN t.channel = None
               ELSE t.channel \in Channels /\ Apart(w, t.monitor, t.channel)

(* The channels a worker has in hand are different ones, and each is ready *)
(* to hear of the monitor, up to the message.                              *)
InHand(w, r) ==
  /\ r.now \notin r.todo
  /\ \A a, b \in r.todo \cup {r.now} : a.channel = b.channel => a = b
  /\ \A a \in r.todo \cup {r.now} : w = "reminder" => a.channel = r.only
  /\ \A a \in r.todo : Apart(w, r.monitor, a.channel)
  /\ r.pc # "log" => Apart(w, r.monitor, r.now.channel)

Ready(w, r) ==
  /\ \A t \in r.targets : Addressed(w, t)
  /\ r.pc = "recent" => w = "ssl"
  /\ r.pc # "idle" =>
       /\ r.event = IF w = "ssl" THEN "ssl_expiry" ELSE "down"
       /\ r.only \in IF w = "ssl" THEN {None} ELSE Channels
       /\ w = "reminder" => [monitor |-> r.monitor, channel |-> r.only] \notin r.targets
  /\ r.pc \in {"channels", "global"} =>
       \A c \in Channels : Aimed(w, r, c) => Apart(w, r.monitor, c)
  /\ r.pc \in Chosen => InHand(w, r)

Spaced(w) ==
  /\ \A m \in Monitors, c \in Channels : Remembered(w, m, c)
  /\ Ready(w, worker[w])

SpaceInv == ~disturbed => \A w \in Senders : Spaced(w)


(* What is enough stays enough when time passes.                           *)
LEMMA EnoughStays ==
  ASSUME NEW w \in Senders, NEW a \in Age, NEW b \in Age, Enough(w, a), a <= b
  PROVE  Enough(w, b)
  BY NotificationAssumption DEF Enough, Age

LEMMA EarsHear == \A w \in Senders : Ear(w) \in Heard /\ Row(w) \in Column
  BY DEF Senders, Ear, Row, Heard, Column

LEMMA AgesAre ==
  ASSUME Typed, NEW m \in Monitors, NEW c \in Channels, NEW w \in Senders
  PROVE  /\ told[m][c][Ear(w)] \in Age /\ logs[m][c][Row(w)] \in Age
  BY EarsHear DEF Typed, RestIsTyped

(* The queries for a monitor's channels name stored ones, each once.       *)
LEMMA AssignedOnce ==
  \A m : /\ \A a \in Assignments(m) : a.channel \in Channels /\ Stored(a.channel)
         /\ \A a, b \in Assignments(m) : a.channel = b.channel => a = b
  BY DEF Assignments, Enabled, AssignedTo

LEMMA GlobalOnce ==
  \A m : /\ \A a \in Fallback(m) : a.channel \in Channels /\ Stored(a.channel)
         /\ \A a, b \in Fallback(m) : a.channel = b.channel => a = b
  BY DEF Fallback, Enabled

(* A record stays ready while nobody who was ready hears anything.         *)
LEMMA ReadyStays ==
  ASSUME NEW w \in Senders, NEW r, Sound(r), Ready(w, r),
         \A m \in Monitors, c \in Channels : Apart(w, m, c) => Apart(w, m, c)',
         \A c \in Channels : channel'[c].state # "gone" => channel[c].state # "gone"
  PROVE  Ready(w, r)'
  <1>1. r \in Worker
    BY DEF Sound
  <1>2. \A t \in r.targets : Addressed(w, t)'
    BY <1>1 DEF Ready, Addressed, Worker, Target
  <1>3. r.pc \in {"channels", "global"} =>
          \A c \in Channels : Aimed(w, r, c)' => Apart(w, r.monitor, c)'
    BY DEF Ready, Aimed, Sound
  <1>4. r.pc \in Chosen => InHand(w, r)'
    <2> SUFFICES ASSUME r.pc \in Chosen PROVE InHand(w, r)'
      OBVIOUS
    <2>1. r.monitor \in Monitors /\ r.now \in Assignment /\ r.todo \subseteq Assignment
      BY <1>1 DEF Sound, Chosen, Worker
    <2> QED
      BY <2>1 DEF Ready, InHand, Assignment
  <1> QED
    BY <1>2, <1>3, <1>4 DEF Ready

(* A step that w takes no part in.                                         *)
LEMMA OthersSpace ==
  ASSUME Typed, NEW w \in Senders, Spaced(w), worker'[w] = worker[w], UNCHANGED channel,
         \A m \in Monitors, c \in Channels :
           /\ told'[m][c][Ear(w)] = told[m][c][Ear(w)]
           /\ logs'[m][c][Row(w)] \in {0, logs[m][c][Row(w)]}
  PROVE  Spaced(w)'
  <1>1. Sound(worker[w])
    BY DEF Typed, WorkersAreSound, Senders, Workers
  <1>2. \A m \in Monitors, c \in Channels : Apart(w, m, c) => Apart(w, m, c)'
    BY DEF Apart, Enough, Ear
  <1> PICK r : r = worker[w]
    OBVIOUS
  <1>3. Ready(w, r)'
    BY <1>1, <1>2, ReadyStays DEF Spaced
  <1>4. worker'[w] = r
    OBVIOUS
  <1>5. Ready(w, worker[w])'
    BY <1>3, <1>4 DEF Ready, Addressed, Aimed, InHand, Apart, Enough, Ear
  <1>6. ASSUME NEW m \in Monitors, NEW c \in Channels PROVE Remembered(w, m, c)'
    <2>1. told[m][c][Ear(w)] \in Nat
      BY AgesAre, NotificationAssumption DEF Age
    <2>2. Remembered(w, m, c)
      BY DEF Spaced
    <2>3. 0 <= told[m][c][Ear(w)]
      BY <2>1
    <2> QED
      BY <2>2, <2>3 DEF Remembered, Logging, Stored, Ear, Row
  <1> QED
    BY <1>5, <1>6 DEF Spaced

(* The sender itself takes up a record that is ready.                      *)
TakesUp(w) == \E r : Becomes(w, r) /\ Ready(w, r)

LEMMA BeginReady ==
  ASSUME NEW w \in Senders, NEW targets \in SUBSET Target,
         \A t \in targets : Addressed(w, t), Begin(w, targets)
  PROVE  TakesUp(w)
  <1>1. CASE Becomes(w, Idle)
    <2>1. Idle.pc = "idle" /\ Idle.targets = {}
      BY DEF Idle
    <2>2. Ready(w, Idle)
      BY <2>1 DEF Ready, Chosen
    <2> QED
      BY <1>1, <2>2 DEF TakesUp
  <1>2. ASSUME NEW t \in targets,
               Becomes(w, [Idle EXCEPT !.pc = IF w = "ssl" THEN "recent" ELSE "channels",
                                       !.event = IF w = "ssl" THEN "ssl_expiry" ELSE "down",
                                       !.monitor = t.monitor, !.only = t.channel,
                                       !.targets = targets \ {t}])
        PROVE  TakesUp(w)
    <2> DEFINE r == [Idle EXCEPT !.pc = IF w = "ssl" THEN "recent" ELSE "channels",
                                 !.event = IF w = "ssl" THEN "ssl_expiry" ELSE "down",
                                 !.monitor = t.monitor, !.only = t.channel,
                                 !.targets = targets \ {t}]
    <2>1. /\ r.pc = IF w = "ssl" THEN "recent" ELSE "channels"
          /\ r.event = IF w = "ssl" THEN "ssl_expiry" ELSE "down"
          /\ r.monitor = t.monitor /\ r.only = t.channel /\ r.targets = targets \ {t}
      BY DEF Idle
    <2> HIDE DEF r
    <2>2. t = [monitor |-> t.monitor, channel |-> t.channel]
      BY DEF Target
    <2>3. Addressed(w, t)
      OBVIOUS
    <2>4. ASSUME w = "ssl" PROVE Ready(w, r)
      <3>1. r.pc = "recent" /\ r.only = None /\ r.event = "ssl_expiry"
        BY <2>1, <2>3, <2>4 DEF Addressed
      <3> QED
        BY <2>1, <2>4, <3>1 DEF Ready, Chosen
    <2>5. ASSUME w = "reminder" PROVE Ready(w, r)
      <3>1. /\ r.pc = "channels" /\ r.only \in Channels /\ r.event = "down"
            /\ Apart(w, r.monitor, r.only)
        BY <2>1, <2>3, <2>5 DEF Addressed
      <3>2. [monitor |-> r.monitor, channel |-> r.only] \notin r.targets
        BY <2>1, <2>2
      <3> QED
        BY <2>1, <2>5, <3>1, <3>2 DEF Ready, Chosen, Aimed
    <2>6. Ready(w, r)
      BY <2>4, <2>5 DEF Senders
    <2> QED
      BY <1>2, <2>6 DEF TakesUp, r
  <1> QED
    BY <1>1, <1>2 DEF Begin

LEMMA LeaveReady ==
  ASSUME WorkersAreSound, NEW w \in Senders, Ready(w, worker[w]), Leave(w)
  PROVE  TakesUp(w)
  <1>1. worker[w].targets \in SUBSET Target
    BY DEF WorkersAreSound, Sound, Worker, Senders, Workers
  <1> QED
    BY <1>1, BeginReady DEF Leave, Ready

LEMMA NotifyChannelsReady ==
  ASSUME WorkersAreSound, NEW w \in Senders, ~At(w, "idle"), Ready(w, worker[w]),
         NEW A, NotifyChannels(w, A),
         \A a, b \in A : a.channel = b.channel => a = b,
         \A a \in A : /\ Apart(w, worker[w].monitor, a.channel)
                      /\ w = "reminder" => a.channel = worker[w].only
  PROVE  TakesUp(w)
  <1>1. CASE Leave(w)
    BY <1>1, LeaveReady
  <1>2. ASSUME NEW a \in A,
               Becomes(w, [worker[w] EXCEPT
                             !.pc = IF a.triggers.cooldown > 0 THEN "cooldown" ELSE Checked(a),
                             !.todo = A \ {a}, !.now = a,
                             !.left = Attempts, !.ok = FALSE])
        PROVE  TakesUp(w)
    <2> DEFINE label == IF a.triggers.cooldown > 0 THEN "cooldown" ELSE Checked(a)
               r == [worker[w] EXCEPT !.pc = label, !.todo = A \ {a}, !.now = a,
                                      !.left = Attempts, !.ok = FALSE]
    <2>1. label \in {"cooldown", "schedule", "monitor"}
      BY DEF Checked
    <2> HIDE DEF label
    <2>2. /\ r.pc = label /\ r.todo = A \ {a} /\ r.now = a
          /\ r.event = worker[w].event /\ r.monitor = worker[w].monitor
          /\ r.only = worker[w].only /\ r.targets = worker[w].targets
      BY DEF WorkersAreSound, Sound, Worker, Senders, Workers
    <2> HIDE DEF r
    <2>3. InHand(w, r)
      BY <2>1, <2>2 DEF InHand
    <2>4. Ready(w, r)
      BY <2>1, <2>2, <2>3 DEF Ready, At
    <2> QED
      BY <1>2, <2>4 DEF TakesUp, r, label
  <1> QED
    BY <1>1, <1>2 DEF NotifyChannels

LEMMA NextChannelReady ==
  ASSUME WorkersAreSound, NEW w \in Senders, worker[w].pc \in Chosen,
         Ready(w, worker[w]), NextChannel(w)
  PROVE  TakesUp(w)
  <1>1. ~At(w, "idle") /\ InHand(w, worker[w])
    BY DEF At, Chosen, Ready
  <1> QED
    BY <1>1, NotifyChannelsReady DEF NextChannel, InHand

LEMMA GotoReady ==
  ASSUME WorkersAreSound, NEW w \in Senders, ~At(w, "idle"), NEW label, Goto(w, label),
         Ready(w, worker[w]), worker[w].pc # "log", label # "recent",
         label \in Chosen => worker[w].pc \in Chosen,
         label \in {"channels", "global"} =>
           \A c \in Channels : Aimed(w, worker[w], c) => Apart(w, worker[w].monitor, c)
  PROVE  TakesUp(w)
  <1> DEFINE r == [worker[w] EXCEPT !.pc = label]
  <1>1. /\ r.pc = label /\ r.todo = worker[w].todo /\ r.now = worker[w].now
        /\ r.event = worker[w].event /\ r.monitor = worker[w].monitor
        /\ r.only = worker[w].only /\ r.targets = worker[w].targets
    BY DEF WorkersAreSound, Sound, Worker, Senders, Workers
  <1>2. Becomes(w, r)
    BY DEF Goto
  <1> HIDE DEF r
  <1>3. label \in Chosen => InHand(w, r)
    BY <1>1 DEF Ready, InHand
  <1>4. Ready(w, r)
    BY <1>1, <1>3 DEF Ready, At, Aimed
  <1> QED
    BY <1>2, <1>4 DEF TakesUp

(* A step of w that is not writing its row, and sends nothing.             *)
LEMMA TakesUpSpace ==
  ASSUME Typed, Typed', NEW w \in Senders, Spaced(w), worker[w].pc # "log", TakesUp(w),
         UNCHANGED <<channel, logs, told>>
  PROVE  Spaced(w)'
  <1>1. PICK r : Becomes(w, r) /\ Ready(w, r)
    BY DEF TakesUp
  <1>2. worker'[w] = r /\ Sound(r)
    BY <1>1 DEF Becomes, Typed, WorkersAreSound, Senders, Workers
  <1>3. Ready(w, r)'
    BY <1>1, <1>2, ReadyStays DEF Apart, Enough, Ear
  <1>4. Ready(w, worker[w])'
    BY <1>2, <1>3 DEF Ready, Addressed, Aimed, InHand, Apart, Enough, Ear
  <1>5. \A m \in Monitors, c \in Channels : Remembered(w, m, c)'
    BY DEF Spaced, Remembered, Logging, Stored, Ear, Row
  <1> QED
    BY <1>4, <1>5 DEF Spaced

(* What the sender looks up.                                               *)
LEMMA LookUpSpace ==
  ASSUME Typed, Typed', ~disturbed', NEW w \in Senders, Spaced(w),
         \/ CheckRecent(w) \/ GetChannels(w) \/ GetGlobalChannels(w)
         \/ CheckCooldown(w) \/ CheckSchedule(w) \/ FindMonitor(w)
  PROVE  Spaced(w)'
  <1> USE DEF CheckRecent, GetChannels, GetGlobalChannels,
              CheckCooldown, CheckSchedule, FindMonitor
  <1> DEFINE m == worker[w].monitor
  <1>1. UNCHANGED <<channel, logs, told>> /\ worker[w].pc # "log" /\ ~At(w, "idle")
    BY DEF config, At
  <1>2. /\ WorkersAreSound /\ Ready(w, worker[w]) /\ m \in Monitors
        /\ worker \in [Workers -> Worker] /\ w \in Workers
    BY <1>1 DEF Typed, Spaced, WorkersAreSound, Sound, Senders, Workers, At
  <1>3. ASSUME Leave(w) PROVE TakesUp(w)
    BY <1>2, <1>3, LeaveReady
  <1>4. CASE CheckRecent(w)
    <2>1. Leave(w) \/ (Goto(w, "channels") /\ ~HasRecentSSLLog(m))
      BY <1>4
    <2>2. ASSUME Goto(w, "channels"), ~HasRecentSSLLog(m), w = "ssl"
          PROVE  TakesUp(w)
      <3>1. ASSUME NEW c \in Channels, channel[c].state # "gone"
            PROVE  Apart(w, m, c)
        <4>1. /\ logs[m][c][Row(w)] >= SslPeriod /\ Remembered(w, m, c)
              /\ told[m][c][Ear(w)] \in Age /\ logs[m][c][Row(w)] \in Age
          <5>1. told[m][c][Ear(w)] \in Age /\ logs[m][c][Row(w)] \in Age
            BY <1>2, AgesAre
          <5>2. ~(logs[m][c][Row(w)] < SslPeriod)
            BY <2>2 DEF HasRecentSSLLog, Row
          <5>3. Remembered(w, m, c)
            BY <1>2 DEF Spaced
          <5> QED
            BY <5>1, <5>2, <5>3, NotificationAssumption DEF Age
        <4>2. told[m][c][Ear(w)] >= SslPeriod
          <5>1. CASE channel[c].state = "unborn"
            BY <4>1, <5>1, NotificationAssumption DEF Remembered
          <5>2. CASE Stored(c)
            BY <1>1, <4>1, <5>2, NotificationAssumption DEF Remembered, Logging, Age
          <5> QED
            BY <3>1, <5>1, <5>2 DEF Stored, Typed, RestIsTyped, Channel
        <4> QED
          BY <2>2, <4>2 DEF Apart, Enough
      <3>2. \A c \in Channels : Aimed(w, worker[w], c) => Apart(w, m, c)
        BY <2>2, <3>1 DEF Aimed
      <3> QED
        BY <1>1, <1>2, <2>2, <3>2, GotoReady DEF Chosen
    <2>3. w = "ssl"
      <3>1. At(w, "recent") => w = "ssl"
        BY <1>2 DEF Ready, At, Senders
      <3> QED
        BY <1>4, <3>1
    <2>4. TakesUp(w)
      BY <1>3, <2>1, <2>2, <2>3
    <2> QED
      BY <1>1, <2>4, TakesUpSpace
  <1>5. CASE GetChannels(w) \/ GetGlobalChannels(w)
    <2> DEFINE A == Selected(w, Assignments(m))
               G == Selected(w, Fallback(m))
    <2>1. worker[w].pc \in {"channels", "global"}
      BY <1>5 DEF At
    <2>2. /\ \A c \in Channels : Aimed(w, worker[w], c) => Apart(w, m, c)
          /\ worker[w].only \in IF w = "ssl" THEN {None} ELSE Channels
      BY <1>2, <2>1 DEF Ready
    <2>3. \A a \in A \cup G : /\ a.channel \in Channels /\ Stored(a.channel)
                              /\ worker[w].only \in {None, a.channel}
      BY AssignedOnce, GlobalOnce DEF Selected
    <2>4. /\ \A a, b \in A : a.channel = b.channel => a = b
          /\ \A a, b \in G : a.channel = b.channel => a = b
      BY AssignedOnce, GlobalOnce DEF Selected
    <2>5. ASSUME NEW a \in A \cup G
          PROVE  /\ Apart(w, m, a.channel)
                 /\ w = "reminder" => a.channel = worker[w].only
      <3>1. None \notin Channels
        BY NotificationAssumption
      <3>2. w = "reminder" => a.channel = worker[w].only
        BY <2>2, <2>3, <3>1
      <3>3. Aimed(w, worker[w], a.channel)
        BY <2>3, <3>2 DEF Aimed, Stored, Senders
      <3> QED
        BY <2>2, <2>3, <3>2, <3>3
    <2>6. Leave(w) \/ Goto(w, "global") \/ NotifyChannels(w, A) \/ NotifyChannels(w, G)
      BY <1>5
    <2> HIDE DEF A, G, m
    <2>7. ASSUME NotifyChannels(w, A) PROVE TakesUp(w)
      BY <1>1, <1>2, <2>4, <2>5, <2>7, NotifyChannelsReady DEF m
    <2>8. ASSUME NotifyChannels(w, G) PROVE TakesUp(w)
      BY <1>1, <1>2, <2>4, <2>5, <2>8, NotifyChannelsReady DEF m
    <2>9. ASSUME Goto(w, "global") PROVE TakesUp(w)
      BY <1>1, <1>2, <2>2, <2>9, GotoReady DEF m, Chosen
    <2>10. TakesUp(w)
      BY <1>3, <2>6, <2>7, <2>8, <2>9
    <2> QED
      BY <1>1, <2>10, TakesUpSpace
  <1>6. CASE CheckCooldown(w) \/ CheckSchedule(w) \/ FindMonitor(w)
    <2>1. \/ NextChannel(w) \/ Goto(w, Checked(worker[w].now))
          \/ Goto(w, "monitor") \/ Goto(w, "send")
      BY <1>6
    <2>2. worker[w].pc \in Chosen
      BY <1>6 DEF At, Chosen
    <2>3. \A a : Checked(a) \notin {"recent", "channels", "global"}
      BY DEF Checked
    <2>4. ASSUME NEW label, Goto(w, label), label \notin {"recent", "channels", "global"}
          PROVE  TakesUp(w)
      BY <1>1, <1>2, <2>2, <2>4, GotoReady
    <2>5. NextChannel(w) => TakesUp(w)
      BY <1>2, <2>2, NextChannelReady
    <2>6. TakesUp(w)
      BY <2>1, <2>3, <2>4, <2>5
    <2> QED
      BY <1>1, <2>6, TakesUpSpace
  <1> QED
    BY <1>4, <1>5, <1>6

(* The message is heard; only the one in hand has to wait again.           *)
LEMMA SendSpace ==
  ASSUME Typed, Typed', CoverInv, ~disturbed, NEW w \in Senders, Spaced(w), Send(w)
  PROVE  Spaced(w)'
  <1> DEFINE m == worker[w].monitor
             c == worker[w].now.channel
  <1>1. /\ worker \in [Workers -> Worker] /\ w \in Workers /\ worker[w].pc = "send"
        /\ m \in Monitors /\ c \in Channels /\ worker[w].now \in Assignment
        /\ worker[w].todo \subseteq Assignment /\ worker[w].targets \subseteq Target
    BY DEF Send, At, Typed, WorkersAreSound, Sound, Chosen, Assignment, Senders, Workers, Worker
  <1>2. UNCHANGED <<channel, logs>>
    BY DEF Send, config
  <1>3. Ready(w, worker[w]) /\ InHand(w, worker[w])
    BY <1>1 DEF Spaced, Ready, Chosen
  <1>4. CASE /\ Accepted(w)
             /\ Becomes(w, [worker[w] EXCEPT !.pc = "log", !.ok = TRUE])
    <2> PICK r : r = [worker[w] EXCEPT !.pc = "log", !.ok = TRUE]
      OBVIOUS
    <2>1. /\ r.pc = "log" /\ r.todo = worker[w].todo /\ r.now = worker[w].now
          /\ r.event = worker[w].event /\ r.monitor = m
          /\ r.only = worker[w].only /\ r.targets = worker[w].targets
      BY <1>1 DEF Worker
    <2>2. worker'[w] = r
      BY <1>1, <1>4 DEF Becomes
    <2>3. \A k \in Monitors, d \in Channels : k # m \/ d # c => told'[k][d] = told[k][d]
      <3>1. told \in [Monitors -> [Channels -> [Heard -> Age]]]
        BY DEF Typed, RestIsTyped
      <3> QED
        BY <1>1, <1>4, <3>1 DEF Accepted
    <2>4. channel[c].state # "unborn"
      <3>1. Mentions(worker[w], c)
        BY <1>1 DEF Mentions, Chosen
      <3> QED
        BY <1>1, <3>1 DEF CoverInv, Fresh
    <2> HIDE DEF m, c
    <2>5. ASSUME NEW k \in Monitors, NEW d \in Channels, k # m \/ d # c, Apart(w, k, d)
          PROVE  Apart(w, k, d)'
      BY <2>3, <2>5 DEF Apart, Enough, Ear
    <2>6. \A t \in r.targets : Addressed(w, t)'
      <3> SUFFICES ASSUME NEW t \in worker[w].targets, w = "reminder"
                   PROVE  t.channel \in Channels /\ Apart(w, t.monitor, t.channel)'
        BY <1>3, <2>1 DEF Ready, Addressed, Senders
      <3>1. t.channel \in Channels /\ Apart(w, t.monitor, t.channel) /\ t.monitor \in Monitors
        BY <1>1, <1>3 DEF Ready, Addressed, Target
      <3>2. t = [monitor |-> t.monitor, channel |-> t.channel]
        BY <1>1 DEF Target
      <3>3. [monitor |-> m, channel |-> c] \notin worker[w].targets
        BY <1>1, <1>3 DEF Ready, InHand, m, c
      <3> QED
        BY <2>5, <3>1, <3>2, <3>3
    <2>7. InHand(w, r)'
      <3>1. ASSUME NEW a \in r.todo PROVE Apart(w, r.monitor, a.channel)'
        <4>1. a.channel # c /\ a.channel \in Channels /\ Apart(w, m, a.channel)
          BY <1>1, <1>3, <2>1 DEF InHand, Assignment, c, m
        <4> QED
          BY <1>1, <2>1, <2>5, <4>1 DEF m
      <3> QED
        BY <1>3, <2>1, <3>1 DEF InHand
    <2>8. Ready(w, r)'
      BY <1>1, <1>3, <2>1, <2>6, <2>7 DEF Ready, m
    <2>9. Ready(w, worker[w])'
      BY <2>2, <2>8 DEF Ready, Addressed, Aimed, InHand, Apart, Enough, Ear
    <2>10. ASSUME NEW k \in Monitors, NEW d \in Channels
           PROVE  Remembered(w, k, d)'
      <3>1. CASE k = m /\ d = c
        BY <1>2, <2>1, <2>2, <2>4, <3>1 DEF Remembered, Logging, c
      <3>2. CASE k # m \/ d # c
        <4>1. told'[k][d] = told[k][d] /\ ~Logging(worker[w], k, d)
          BY <1>1, <2>3, <3>2 DEF Logging
        <4> QED
          BY <1>2, <4>1 DEF Spaced, Remembered, Stored, Ear, Row
      <3> QED
        BY <3>1, <3>2
    <2> QED
      BY <2>9, <2>10 DEF Spaced
  <1>5. CASE UNCHANGED told /\ Becomes(w, IF Again(w)
                                 THEN [worker[w] EXCEPT !.left = @ - 1]
                                 ELSE [worker[w] EXCEPT !.pc = "log"])
    <2> DEFINE r == IF Again(w) THEN [worker[w] EXCEPT !.left = @ - 1]
                                ELSE [worker[w] EXCEPT !.pc = "log"]
    <2>1. /\ r.pc \in {"send", "log"} /\ r.todo = worker[w].todo /\ r.now = worker[w].now
          /\ r.event = worker[w].event /\ r.monitor = m
          /\ r.only = worker[w].only /\ r.targets = worker[w].targets
      BY <1>1 DEF Worker
    <2>2. Becomes(w, r)
      BY <1>5
    <2> HIDE DEF r
    <2>3. InHand(w, r)
      BY <1>1, <1>3, <2>1 DEF InHand
    <2>4. Ready(w, r)
      BY <1>1, <1>3, <2>1, <2>3 DEF Ready
    <2>5. TakesUp(w)
      BY <2>2, <2>4 DEF TakesUp
    <2> QED
      BY <1>1, <1>2, <1>5, <2>5, TakesUpSpace
  <1> QED
    BY <1>4, <1>5 DEF Send

(* The row is written, whether the message was accepted or not.            *)
LEMMA LogSpace ==
  ASSUME Typed, Typed', ~disturbed', NEW w \in Senders, Spaced(w), LogNotification(w)
  PROVE  Spaced(w)'
  <1> DEFINE m == worker[w].monitor
             c == worker[w].now.channel
             new == [k \in Column |-> IF k \in Columns(w) THEN 0 ELSE logs[m][c][k]]
  <1>1. /\ WorkersAreSound /\ worker[w].pc = "log" /\ worker[w].pc \in Chosen /\ w \in Workers
        /\ m \in Monitors /\ c \in Channels /\ worker \in [Workers -> Worker]
    BY DEF LogNotification, At, Typed, WorkersAreSound, Sound, Chosen, Assignment, Senders, Workers
  <1>2. logs' = IF Stored(c) THEN [logs EXCEPT ![m][c] = new] ELSE logs
    BY DEF LogNotification, Succeeds, Fails
  <1>3. UNCHANGED <<channel, told>>
    BY DEF LogNotification, config
  <1>4. Ready(w, worker[w])
    BY DEF Spaced
  <1>5. PICK r : Becomes(w, r) /\ Ready(w, r)
    BY <1>1, <1>4, NextChannelReady DEF LogNotification, TakesUp
  <1>6. worker'[w] = r /\ Sound(r)
    BY <1>1, <1>5 DEF Becomes, Typed, WorkersAreSound
  <1>7. Ready(w, r)'
    BY <1>3, <1>5, <1>6, ReadyStays DEF Apart, Enough, Ear
  <1>8. Ready(w, worker[w])'
    BY <1>6, <1>7 DEF Ready, Addressed, Aimed, InHand, Apart, Enough, Ear
  <1>9. logs \in [Monitors -> [Channels -> [Column -> Age]]]
    BY DEF Typed, RestIsTyped
  <1>10. new[Row(w)] = 0
    <2>1. Row(w) \in Columns(w)
      BY <1>1, <1>4 DEF Columns, Ready, Row, Column, Senders
    <2> QED
      BY <2>1, EarsHear
  <1> HIDE DEF m, c, new
  <1>11. ASSUME NEW k \in Monitors, NEW d \in Channels
         PROVE  Remembered(w, k, d)'
    <2>1. Remembered(w, k, d)
      BY DEF Spaced
    <2>2. CASE Stored(d) /\ k = m /\ d = c
      <3>1. logs'[k][d][Row(w)] = 0
        BY <1>1, <1>2, <1>9, <1>10, <2>2
      <3>2. told[k][d][Ear(w)] \in Age
        BY AgesAre
      <3>3. 0 <= told[k][d][Ear(w)]
        BY <3>2, NotificationAssumption DEF Age
      <3> QED
        BY <1>3, <2>1, <3>1, <3>3 DEF Remembered, Stored, Ear, Row
    <2>3. CASE Stored(d) /\ (k # m \/ d # c)
      <3>1. logs'[k][d] = logs[k][d]
        BY <1>1, <1>2, <1>9, <2>3
      <3>2. ~Logging(worker[w], k, d)
        BY <2>3 DEF Logging, m, c
      <3> QED
        BY <1>3, <2>1, <3>1, <3>2 DEF Remembered, Stored, Ear, Row
    <2>4. CASE ~Stored(d)
      BY <1>3, <2>1, <2>4 DEF Remembered, Stored, Ear
    <2> QED
      BY <2>2, <2>3, <2>4
  <1> QED
    BY <1>8, <1>11 DEF Spaced

(* A step of another worker: whatever it sends is heard as something else,  *)
(* and its rows can only make the log younger.                              *)
LEMMA OtherWorks ==
  ASSUME Typed, Typed', NEW w \in Senders, Spaced(w), NEW v \in Workers, v # w, Work(v)
  PROVE  Spaced(w)'
  <1>1. UNCHANGED channel
    BY DEF Work, CheckRecent, GetChannels, GetGlobalChannels, CheckCooldown,
           CheckSchedule, FindMonitor, Send, LogNotification, config
  <1>2. w \in Workers /\ worker \in [Workers -> Worker]
    BY DEF Senders, Workers, Typed, WorkersAreSound
  <1>3. worker'[w] = worker[w]
    <2>1. \E r : Becomes(v, r)
      BY DEF Work, CheckRecent, GetChannels, GetGlobalChannels, CheckCooldown,
             CheckSchedule, FindMonitor, Send, LogNotification, Goto, NextChannel,
             NotifyChannels, Leave, Begin
    <2> QED
      BY <1>2, <2>1 DEF Becomes
  <1>4. ASSUME NEW m \in Monitors, NEW c \in Channels
        PROVE  told'[m][c][Ear(w)] = told[m][c][Ear(w)]
    <2>1. UNCHANGED told \/ Accepted(v)
      BY DEF Work, CheckRecent, GetChannels, GetGlobalChannels, CheckCooldown,
             CheckSchedule, FindMonitor, Send, LogNotification
    <2>2. CASE Accepted(v)
      <3> DEFINE n == worker[v].monitor
                 d == worker[v].now.channel
                 new == [k \in Heard |-> IF k \in {"any", IF v = "ssl" THEN "warning" ELSE v}
                                         THEN 0 ELSE told[n][d][k]]
      <3>1. told' = [told EXCEPT ![n][d] = new]
        BY <2>2 DEF Accepted
      <3>2. new[Ear(w)] = told[n][d][Ear(w)]
        <4>1. Ear(w) # IF v = "ssl" THEN "warning" ELSE v
          BY NotificationAssumption DEF Ear, Senders, Workers
        <4>2. Ear(w) # "any"
          BY DEF Ear
        <4> QED
          BY <4>1, <4>2, EarsHear
      <3>3. told \in [Monitors -> [Channels -> [Heard -> Age]]]
        BY DEF Typed, RestIsTyped
      <3> HIDE DEF n, d, new
      <3> QED
        BY <3>1, <3>2, <3>3
    <2> QED
      BY <2>1, <2>2
  <1>5. ASSUME NEW m \in Monitors, NEW c \in Channels
        PROVE  logs'[m][c][Row(w)] \in {0, logs[m][c][Row(w)]}
    <2> DEFINE n == worker[v].monitor
               d == worker[v].now.channel
               new == [k \in Column |-> IF k \in Columns(v) THEN 0 ELSE logs[n][d][k]]
    <2>1. UNCHANGED logs \/ logs' = [logs EXCEPT ![n][d] = new]
      BY DEF Work, CheckRecent, GetChannels, GetGlobalChannels, CheckCooldown,
             CheckSchedule, FindMonitor, Send, LogNotification
    <2>2. new[Row(w)] \in {0, logs[n][d][Row(w)]}
      BY EarsHear
    <2>3. logs \in [Monitors -> [Channels -> [Column -> Age]]]
      BY DEF Typed, RestIsTyped
    <2> HIDE DEF n, d, new
    <2> QED
      BY <2>1, <2>2, <2>3
  <1> QED
    BY <1>1, <1>3, <1>4, <1>5, OthersSpace

(* A status that is recorded starts another worker, if any; a tick sets its *)
(* sender going with what is due.                                           *)
LEMMA StartSpace ==
  ASSUME Typed, Typed', NEW w \in Senders, Spaced(w),
         \/ \E m \in Monitors, g \in Goroutines, new \in Status \ {"gone"} :
              RecordStatus(m, g, new)
         \/ StartReminders
         \/ StartWarnings
  PROVE  Spaced(w)'
  <1>1. UNCHANGED <<channel, logs, told>>
    BY DEF RecordStatus, StartReminders, StartWarnings, config
  <1>2. w \in Workers /\ worker \in [Workers -> Worker]
    BY DEF Senders, Workers, Typed, WorkersAreSound
  <1>3. ASSUME worker'[w] = worker[w] PROVE Spaced(w)'
    BY <1>1, <1>3, OthersSpace
  <1>4. ASSUME NEW v, v # w, NEW r, Becomes(v, r) PROVE worker'[w] = worker[w]
    BY <1>2, <1>4 DEF Becomes
  <1>5. ASSUME NEW targets, Begin(w, targets), At(w, "idle"), targets \subseteq Target,
               \A t \in targets : Addressed(w, t)
        PROVE  Spaced(w)'
    <2>1. TakesUp(w)
      BY <1>5, BeginReady
    <2> QED
      BY <1>1, <1>5, <2>1, TakesUpSpace DEF At
  <1>6. \A v, targets : Begin(v, targets) => \E r : Becomes(v, r)
    BY DEF Begin
  <1>7. ASSUME NEW m \in Monitors, NEW g \in Goroutines, NEW new \in Status \ {"gone"},
               RecordStatus(m, g, new)
        PROVE  Spaced(w)'
    <2>1. g # w
      BY NotificationAssumption DEF Senders
    <2>2. UNCHANGED worker \/ \E r : Becomes(g, r)
      BY <1>7 DEF RecordStatus
    <2> QED
      BY <1>3, <1>4, <2>1, <2>2
  <1>8. CASE StartReminders
    <2> DEFINE due == {t \in [monitor : Monitors, channel : Channels] :
                         Due(t.monitor, t.channel)}
    <2>1. Begin("reminder", due) /\ At("reminder", "idle")
      BY <1>8 DEF StartReminders
    <2>2. CASE w = "reminder"
      <3>1. due \subseteq Target
        BY DEF Target
      <3>2. ASSUME NEW t \in due PROVE Addressed(w, t)
        <4> DEFINE m == t.monitor
                   c == t.channel
        <4>1. m \in Monitors /\ c \in Channels /\ Due(m, c)
          OBVIOUS
        <4>2. /\ channel[c].remind \in Intervals \ {0} /\ Stored(c)
              /\ logs[m][c][Row(w)] > channel[c].remind
          BY <2>2, <4>1 DEF Due, Remindable, Enabled, Row, Typed, RestIsTyped, Channel
        <4>3. ~Logging(worker[w], m, c)
          BY <2>1, <2>2 DEF Logging, At
        <4>4. /\ told[m][c][Ear(w)] \in Nat /\ logs[m][c][Row(w)] \in Nat
              /\ channel[c].remind \in Nat
          BY <4>1, <4>2, AgesAre, NotificationAssumption DEF Age
        <4>5. logs[m][c][Row(w)] <= told[m][c][Ear(w)]
          BY <4>1, <4>2, <4>3 DEF Spaced, Remembered
        <4>6. told[m][c][Ear(w)] > channel[c].remind
          BY <4>2, <4>4, <4>5
        <4>7. Apart(w, m, c)
          BY <2>2, <4>2, <4>6 DEF Apart, Enough
        <4> QED
          BY <2>2, <4>1, <4>7 DEF Addressed
      <3> HIDE DEF due
      <3> QED
        BY <1>5, <2>1, <2>2, <3>1, <3>2
    <2>3. CASE w # "reminder"
      BY <1>3, <1>4, <1>6, <2>1, <2>3
    <2> QED
      BY <2>2, <2>3
  <1>9. CASE StartWarnings
    <2>1. PICK S \in SUBSET {m \in expiring : status[m] # "gone"} :
            Begin("ssl", [monitor : S, channel : {None}])
      BY <1>9 DEF StartWarnings
    <2> DEFINE targets == [monitor : S, channel : {None}]
    <2>2. targets \subseteq Target
      BY DEF Target, Typed, RestIsTyped
    <2>3. \A t \in targets : Addressed("ssl", t)
      BY DEF Addressed
    <2>4. Begin("ssl", targets) /\ At("ssl", "idle")
      BY <1>9, <2>1 DEF StartWarnings
    <2> HIDE DEF targets
    <2> QED
      BY <1>3, <1>4, <1>5, <1>6, <2>2, <2>3, <2>4
  <1> QED
    BY <1>7, <1>8, <1>9

(* A channel that is created has heard nothing; one that is deleted does    *)
(* not come back.                                                           *)
LEMMA EditSpace ==
  ASSUME Typed, Typed', NEW w \in Senders, Spaced(w), Edits
  PROVE  Spaced(w)'
  <1>1. UNCHANGED <<told, worker>>
    BY DEF Edits, EditChannel, EditAssignment, WriteChannel, DeleteChannel, AssignChannel,
           UnassignChannel, UpdateTriggers, DeleteMonitor, elsewhere
  <1>2. /\ logs \in [Monitors -> [Channels -> [Column -> Age]]]
        /\ channel \in [Channels -> Channel]
    BY DEF Typed, RestIsTyped
  <1>3. ASSUME NEW d \in Channels
        PROVE  \/ channel'[d].state = "gone"
               \/ /\ \A m \in Monitors : logs'[m][d] = logs[m][d]
                  /\ \/ channel'[d].state = channel[d].state
                     \/ channel[d].state = "unborn" /\ channel'[d].state = "stored"
    <2>1. CASE UNCHANGED <<channel, logs>>
      BY <2>1
    <2>2. ASSUME NEW c \in Channels, NEW e \in BOOLEAN, NEW g \in BOOLEAN,
                 NEW r \in Intervals, WriteChannel(c, e, g, r)
          PROVE  /\ UNCHANGED logs
                 /\ \/ channel'[d].state = channel[d].state
                    \/ channel[d].state = "unborn" /\ channel'[d].state = "stored"
      <3>1. CASE d = c
        BY <1>2, <2>2, <3>1 DEF WriteChannel, Channel
      <3>2. CASE d # c
        BY <1>2, <2>2, <3>2 DEF WriteChannel
      <3> QED
        BY <3>1, <3>2
    <2>3. ASSUME NEW c \in Channels, DeleteChannel(c)
          PROVE  \/ channel'[d].state = "gone"
                 \/ /\ \A m \in Monitors : logs'[m][d] = logs[m][d]
                    /\ channel'[d] = channel[d]
      <3>1. CASE d = c
        BY <1>2, <2>3, <3>1 DEF DeleteChannel, Channel
      <3>2. CASE d # c
        BY <1>2, <2>3, <3>2 DEF DeleteChannel
      <3> QED
        BY <3>1, <3>2
    <2> QED
      BY <2>1, <2>2, <2>3
      DEF Edits, EditChannel, EditAssignment, AssignChannel, UnassignChannel,
          UpdateTriggers, DeleteMonitor
  <1>4. ASSUME NEW d \in Channels, channel'[d].state # "gone"
        PROVE  channel[d].state # "gone"
    BY <1>3, <1>4
  <1> PICK r : r = worker[w]
    OBVIOUS
  <1>5. Sound(r) /\ Ready(w, r)
    BY DEF Typed, WorkersAreSound, Senders, Workers, Spaced
  <1>6. Ready(w, r)'
    BY <1>1, <1>4, <1>5, ReadyStays DEF Apart, Enough, Ear
  <1>7. worker'[w] = r
    BY <1>1
  <1>8. Ready(w, worker[w])'
    BY <1>6, <1>7 DEF Ready, Addressed, Aimed, InHand, Apart, Enough, Ear
  <1>9. ASSUME NEW m \in Monitors, NEW d \in Channels
        PROVE  Remembered(w, m, d)'
    <2>1. Remembered(w, m, d)
      BY DEF Spaced
    <2>2. CASE channel'[d].state = "gone"
      BY <2>2 DEF Remembered, Stored
    <2>3. CASE channel'[d].state = channel[d].state /\ logs'[m][d] = logs[m][d]
      BY <1>1, <2>1, <2>3 DEF Remembered, Stored, Logging, Ear, Row
    <2>4. CASE /\ channel[d].state = "unborn" /\ channel'[d].state = "stored"
               /\ logs'[m][d] = logs[m][d]
      <3>1. told[m][d][Ear(w)] = Never
        BY <2>1, <2>4 DEF Remembered
      <3>2. logs[m][d][Row(w)] <= Never
        BY AgesAre, NotificationAssumption DEF Age
      <3> QED
        BY <1>1, <2>4, <3>1, <3>2 DEF Remembered, Ear, Row
    <2> QED
      BY <1>3, <2>2, <2>3, <2>4
  <1> QED
    BY <1>8, <1>9 DEF Spaced

(* What was heard and what was written age together.                       *)
LEMMA TickSpace ==
  ASSUME Typed, Typed', NEW w \in Senders, Spaced(w), Tick
  PROVE  Spaced(w)'
  <1>1. UNCHANGED <<channel, worker>>
    BY DEF Tick, config
  <1>2. \A a, b \in Age : a <= b => Older(a) <= Older(b)
    BY NotificationAssumption DEF Age, Older
  <1>3. \A a \in Age : a <= Older(a) /\ Older(a) \in Age
    BY NotificationAssumption DEF Age, Older
  <1>4. Older(Never) = Never
    BY NotificationAssumption DEF Older
  <1>5. ASSUME NEW m \in Monitors, NEW d \in Channels
        PROVE  /\ logs'[m][d][Row(w)] = Older(logs[m][d][Row(w)])
               /\ told'[m][d][Ear(w)] = Older(told[m][d][Ear(w)])
    BY EarsHear DEF Tick
  <1>6. ASSUME NEW m \in Monitors, NEW d \in Channels, Apart(w, m, d)
        PROVE  Apart(w, m, d)'
    <2>1. told[m][d][Ear(w)] \in Age
      BY AgesAre
    <2>2. Enough(w, Older(told[m][d][Ear(w)]))
      BY <1>3, <1>6, <2>1, EnoughStays DEF Apart
    <2>3. Enough(w, told'[m][d][Ear(w)])
      BY <1>5, <2>2
    <2> QED
      BY <2>3 DEF Apart, Enough, Ear
  <1> PICK r : r = worker[w]
    OBVIOUS
  <1>7. Sound(r) /\ Ready(w, r)
    BY DEF Typed, WorkersAreSound, Senders, Workers, Spaced
  <1>8. Ready(w, r)'
    BY <1>1, <1>6, <1>7, ReadyStays
  <1>9. worker'[w] = r
    BY <1>1
  <1>10. Ready(w, worker[w])'
    BY <1>8, <1>9 DEF Ready, Addressed, Aimed, InHand, Apart, Enough, Ear
  <1>11. ASSUME NEW m \in Monitors, NEW d \in Channels
         PROVE  Remembered(w, m, d)'
    <2>1. Remembered(w, m, d)
      BY DEF Spaced
    <2>2. told[m][d][Ear(w)] \in Age /\ logs[m][d][Row(w)] \in Age
      BY AgesAre
    <2>3. channel[d].state = "unborn" => told'[m][d][Ear(w)] = Never
      BY <1>4, <1>5, <2>1 DEF Remembered
    <2>4. Stored(d) => \/ logs'[m][d][Row(w)] <= told'[m][d][Ear(w)]
                       \/ Logging(worker[w], m, d)
      BY <1>2, <1>5, <2>1, <2>2 DEF Remembered
    <2> QED
      BY <1>1, <2>3, <2>4 DEF Remembered, Stored, Logging, Ear, Row
  <1> QED
    BY <1>10, <1>11 DEF Spaced

LEMMA InitSpace == Init => SpaceInv
  <1> SUFFICES ASSUME Init, NEW w \in Senders
               PROVE  Spaced(w)
    BY DEF SpaceInv
  <1>1. \A m \in Monitors, c \in Channels : told[m][c][Ear(w)] = Never
                                           /\ logs[m][c][Row(w)] = Never
    BY EarsHear DEF Init
  <1>2. \A m \in Monitors, c \in Channels : Remembered(w, m, c)
    BY <1>1, NotificationAssumption DEF Remembered
  <1>3. worker[w] = Idle
    BY DEF Init, Senders, Workers
  <1>4. Idle.pc = "idle" /\ Idle.targets = {}
    BY DEF Idle
  <1> QED
    BY <1>2, <1>3, <1>4 DEF Spaced, Ready, Chosen

LEMMA SpaceStep == Typed /\ CoverInv /\ SpaceInv /\ [Next]_vars => SpaceInv'
  <1> SUFFICES ASSUME Typed, CoverInv, SpaceInv, [Next]_vars, ~disturbed', NEW w \in Senders
               PROVE  Spaced(w)'
    BY DEF SpaceInv
  <1>1. Typed'
    BY TypedStep
  <1>2. ~disturbed
    <2>1. \/ \E v \in Workers : Work(v)
          \/ \E m \in Monitors, g \in Goroutines, new \in Status \ {"gone"} :
               RecordStatus(m, g, new)
          \/ StartReminders \/ StartWarnings \/ Edits \/ Tick \/ Restart \/ UNCHANGED vars
      BY DEF Next
    <2>2. ASSUME NEW v \in Workers, Work(v) PROVE ~disturbed
      BY Zenon, <2>2
      DEF Work, CheckRecent, GetChannels, GetGlobalChannels, CheckCooldown,
          CheckSchedule, FindMonitor, Send, LogNotification, Succeeds, Fails, Missed
    <2>3. ASSUME NEW m \in Monitors, NEW g \in Goroutines, NEW new \in Status \ {"gone"},
                 RecordStatus(m, g, new)
          PROVE  ~disturbed
      BY Zenon, <2>3 DEF RecordStatus, Succeeds, Fails
    <2>4. Edits => ~disturbed
      BY DEF Edits, EditChannel, EditAssignment, WriteChannel, DeleteChannel, AssignChannel,
             UnassignChannel, UpdateTriggers, DeleteMonitor, Edit
    <2> QED
      BY <2>1, <2>2, <2>3, <2>4 DEF StartReminders, StartWarnings, Tick, Restart, vars
  <1>3. Spaced(w)
    BY <1>2 DEF SpaceInv
  <1>4. ASSUME NEW v \in Workers, Work(v)
        PROVE  Spaced(w)'
    <2>1. CASE v # w
      BY <1>1, <1>3, <1>4, <2>1, OtherWorks
    <2>2. CASE v = w
      BY <1>1, <1>2, <1>3, <1>4, <2>2, LookUpSpace, SendSpace, LogSpace DEF Work
    <2> QED
      BY <2>1, <2>2
  <1>5. CASE UNCHANGED vars
    BY <1>1, <1>3, <1>5, OthersSpace DEF vars
  <1>6. CASE Restart
    BY <1>6 DEF Restart
  <1> QED
    BY <1>1, <1>3, <1>4, <1>5, <1>6, StartSpace, EditSpace, TickSpace DEF Next

(* What is sent goes to who is ready for it.                               *)
LEMMA ReadyToSend ==
  ASSUME Typed, SpaceInv, ~disturbed, NEW w \in Senders, At(w, "send")
  PROVE  Apart(w, worker[w].monitor, worker[w].now.channel)
  BY DEF SpaceInv, Spaced, Ready, InHand, At, Chosen

LEMMA StaysSpaced == Spec => [](Typed /\ SpaceInv)
  <1>1. Init => Typed /\ CoverInv /\ SpaceInv
    BY InitTyped, InitCovers, InitSpace
  <1>2. (Typed /\ CoverInv /\ SpaceInv) /\ [Next]_vars => (Typed /\ CoverInv /\ SpaceInv)'
    BY TypedStep, CoverStep, SpaceStep
  <1> QED
    BY <1>1, <1>2, PTL DEF Spec

(* Whatever else is sent, edited or deleted between a tick's look at the    *)
(* log and its messages, a channel is not reminded of a monitor again       *)
(* within the smallest interval in use.                                     *)
THEOREM SpacedReminders == Spec => RemindersAreSpaced
  <1>1. Typed /\ SpaceInv /\ [Next]_vars
          => [\A m \in Monitors, c \in Channels :
                /\ ~disturbed /\ Delivers("reminder")
                /\ worker["reminder"].monitor = m /\ worker["reminder"].now.channel = c
                => \E i \in Intervals \ {0} : told[m][c]["reminder"] > i]_vars
    BY ReadyToSend DEF Delivers, Senders, Apart, Enough, Ear
  <1> QED
    BY <1>1, StaysSpaced, PTL DEF Spec, RemindersAreSpaced

(* A channel is warned of a monitor's certificate once in a period, though  *)
(* the check for a recent warning and its row are many steps apart.         *)
THEOREM SpacedWarnings == Spec => WarningsAreSpaced
  <1>1. Typed /\ SpaceInv /\ [Next]_vars
          => [\A m \in Monitors, c \in Channels :
                /\ ~disturbed /\ Delivers("ssl")
                /\ worker["ssl"].monitor = m /\ worker["ssl"].now.channel = c
                => told[m][c]["warning"] >= SslPeriod]_vars
    BY ReadyToSend DEF Delivers, Senders, Apart, Enough, Ear
  <1> QED
    BY <1>1, StaysSpaced, PTL DEF Spec, WarningsAreSpaced
=============================================================================
