----------------------------- MODULE Notification -----------------------------
(***************************************************************************)
(* Who is told what, and how often.  A change of a monitor's status starts *)
(* Notify in a goroutine of its own; the aggregator's tick sends reminders *)
(* while a monitor is down; the certificate checker warns of certificates  *)
(* that expire.  The last two are one goroutine each.  All go through      *)
(* notifyChannel, whose only memory is the notification log: it is read    *)
(* before a message is sent and written after, with up to three attempts   *)
(* in between.                                                             *)
(*                                                                         *)
(* The log is never read except for how long ago the newest row of a kind  *)
(* was written, so that is what the model keeps of it: ages, which grow    *)
(* with the clock up to Never.                                             *)
(***************************************************************************)
EXTENDS Integers

CONSTANTS Monitors, Channels,
          Goroutines,  \* Notify calls that may be under way at once
          Attempts,    \* attempts to send a message (3)
          Intervals,   \* remind_interval_min: 0 is off
          Cooldowns,   \* cooldown_minutes of an assignment: 0 is off
          Schedules,   \* schedules of assignments: days of the week, hours
          Days, Hours, \* days of a week, hours of a day
          SslPeriod,   \* a warning is not repeated for this long (24 hours)
          Never,       \* the age from which ages are not told apart
          None,        \* no value
          Setups       \* what there may be to begin with: channels and
                       \* assignments; the monitors whose certificate has
                       \* less than 30 days; and a bound on edits, failing
                       \* calls and attempts, and restarts taken together

ASSUME NotificationAssumption ==
  /\ {Attempts, Days, Hours} \subseteq Nat \ {0}
  /\ Intervals \cup Cooldowns \cup {SslPeriod} \subseteq Nat
  /\ 0 \in Cooldowns
  /\ Never \in Nat \ {0}
  /\ \A i \in Intervals : i < Never
  /\ \A i \in Cooldowns \cup {SslPeriod} : i <= Never
  /\ Schedules \subseteq [days : SUBSET Nat, from : Nat, to : Nat]
  /\ None \notin Monitors \cup Channels \cup Schedules
  /\ Goroutines \cap {"reminder", "ssl", "warning"} = {}

VARIABLES
  status,     \* monitors.last_status; "gone" when the monitor is deleted
  channel,    \* the notification_channels table
  triggers,   \* triggers[m][c]: the assignment of c to m, None if there is none
  logs,       \* logs[m][c]: ages of the newest log rows of each kind
  told,       \* told[m][c]: ages of the newest messages that were accepted
  worker,     \* what each goroutine is about
  hour,       \* hour of the week
  expiring,   \* monitors whose certificate is about to expire
  events,     \* what is left of the bound
  disturbed   \* there was a restart, or a call to the database failed

vars == <<status, channel, triggers, logs, told, worker, hour, expiring,
          events, disturbed>>

Workers == Goroutines \cup {"reminder", "ssl"}

Age      == 0..Never
Status   == {"up", "down", "maintenance", "gone"}
Event    == {"down", "up", "ssl_expiry"}
Column   == {"sent", "down", "ssl"}       \* what the queries on the log look for
Heard    == {"any", "reminder", "warning"}
Channel  == [state : {"unborn", "stored", "gone"}, enabled : BOOLEAN,
             global : BOOLEAN, remind : Intervals]
Triggers == [cooldown : Cooldowns, schedule : Schedules \cup {None}]
Assignment == [channel : Channels, triggers : Triggers]
Label    == {"idle", "recent", "channels", "global", "cooldown",
             "schedule", "monitor", "send", "log"}
Target   == [monitor : Monitors, channel : Channels \cup {None}]
Worker   == [pc : Label, event : Event, monitor : Monitors \cup {None},
             only : Channels \cup {None}, todo : SUBSET Assignment,
             now : Assignment \cup {None}, left : 1..Attempts, ok : BOOLEAN,
             targets : SUBSET Target]

NoTriggers == [cooldown |-> 0, schedule |-> None]

Idle == [pc |-> "idle", event |-> "down", monitor |-> None, only |-> None,
         todo |-> {}, now |-> None, left |-> Attempts, ok |-> FALSE,
         targets |-> {}]

WellFormed(setup) ==
  /\ setup.channel \in [Channels -> Channel]
  /\ setup.triggers \in [Monitors -> [Channels -> Triggers \cup {None}]]
  /\ \A m \in Monitors, c \in Channels :
       setup.triggers[m][c] # None => setup.channel[c].state = "stored"
  /\ setup.expiring \subseteq Monitors
  /\ setup.events \in Nat

ASSUME SetupAssumption == \A setup \in Setups : WellFormed(setup)

Stored(c)     == channel[c].state = "stored"
Enabled(c)    == Stored(c) /\ channel[c].enabled
AssignedTo(m) == {c \in Channels : triggers[m][c] # None}

Init ==
  /\ status = [m \in Monitors |-> "up"]
  /\ \E setup \in Setups :
       /\ channel = setup.channel /\ triggers = setup.triggers
       /\ expiring = setup.expiring /\ events = setup.events
  /\ logs = [m \in Monitors |-> [c \in Channels |-> [k \in Column |-> Never]]]
  /\ told = [m \in Monitors |-> [c \in Channels |-> [k \in Heard |-> Never]]]
  /\ worker = [w \in Workers |-> Idle]
  /\ hour = 0
  /\ disturbed = FALSE

-----------------------------------------------------------------------------
AnEvent == events > 0 /\ events' = events - 1

Succeeds == UNCHANGED <<events, disturbed>>
Fails    == AnEvent /\ disturbed' = TRUE
Missed   == AnEvent /\ UNCHANGED disturbed

At(w, label)   == worker[w].pc = label
Becomes(w, r)  == worker' = [worker EXCEPT ![w] = r]
Goto(w, label) == Becomes(w, [worker[w] EXCEPT !.pc = label])

(* What a worker turns to next needs no call of its own: the next target   *)
(* of its tick, if it has one; the next assignment of its target.          *)
Begin(w, targets) ==
  \/ targets = {} /\ Becomes(w, Idle)
  \/ \E t \in targets :
       Becomes(w, [Idle EXCEPT !.pc = IF w = "ssl" THEN "recent" ELSE "channels",
                               !.event = IF w = "ssl" THEN "ssl_expiry" ELSE "down",
                               !.monitor = t.monitor, !.only = t.channel,
                               !.targets = targets \ {t}])

Leave(w) == Begin(w, worker[w].targets)

Checked(a) == IF a.triggers.schedule = None THEN "monitor" ELSE "schedule"

NotifyChannels(w, assignments) ==
  \/ assignments = {} /\ Leave(w)
  \/ \E a \in assignments :
       Becomes(w, [worker[w] EXCEPT
                     !.pc = IF a.triggers.cooldown > 0 THEN "cooldown" ELSE Checked(a),
                     !.todo = assignments \ {a}, !.now = a,
                     !.left = Attempts, !.ok = FALSE])

NextChannel(w) == NotifyChannels(w, worker[w].todo)

config == <<status, channel, triggers, expiring>>

(* The two queries that say which channels a monitor's messages go to.     *)
Assignments(m) ==
  {[channel |-> c, triggers |-> triggers[m][c]] :
     c \in {d \in AssignedTo(m) : Enabled(d)}}

FallbackForgotten(m) == {}   \* mutant: no global channels

Fallback(m) ==
  {[channel |-> c, triggers |-> NoTriggers] :
     c \in {d \in Channels : /\ Enabled(d) /\ channel[d].global
                             /\ AssignedTo(m) = {}}}

(* What an administrator is shown of a monitor                             *)
ListMonitorChannels(m) ==
  IF Assignments(m) # {} THEN Assignments(m) ELSE Fallback(m)

(* The third, which says of which channels a reminder may be due.          *)
RemindableGlobal(m, c) ==   \* mutant: global channels for every monitor
  /\ Enabled(c)
  /\ channel[c].remind > 0
  /\ c \in AssignedTo(m) \/ channel[c].global

Remindable(m, c) ==
  /\ Enabled(c)
  /\ channel[c].remind > 0
  /\ c \in AssignedTo(m) \/ (channel[c].global /\ AssignedTo(m) = {})

Due(m, c) ==
  /\ status[m] = "down"
  /\ Remindable(m, c)
  /\ logs[m][c]["down"] > channel[c].remind

HasRecentEverywhere(m) ==   \* mutant: one warning per channel, not per monitor
  \A c \in Channels : logs[m][c]["ssl"] < SslPeriod

HasRecentSSLLog(m) == \E c \in Channels : logs[m][c]["ssl"] < SslPeriod

-----------------------------------------------------------------------------
(* What sets a worker going.                                               *)

(* RunCheck records a status, though the write may fail, and starts Notify *)
(* when it becomes down, or up after down; the goroutine may begin any     *)
(* time after.                                                             *)
RecordStatus(m, g, new) ==
  /\ status[m] \notin {"gone", new}
  /\ At(g, "idle")
  /\ \/ Succeeds /\ status' = [status EXCEPT ![m] = new]
     \/ Fails /\ UNCHANGED status
  /\ IF new = "down" \/ (new = "up" /\ status[m] = "down")
     THEN Becomes(g, [Idle EXCEPT !.pc = "channels", !.event = new, !.monitor = m])
     ELSE UNCHANGED worker
  /\ UNCHANGED <<channel, triggers, expiring, logs, told, hour>>

(* NotifyReminders, at the end of the aggregator's tick: all targets are   *)
(* read at once.  If that fails, the tick ends.                            *)
StartReminders ==
  /\ At("reminder", "idle")
  /\ LET due == {t \in [monitor : Monitors, channel : Channels] :
                   Due(t.monitor, t.channel)}
     IN  /\ due # {}
         /\ Begin("reminder", due)
  /\ UNCHANGED <<config, logs, told, hour, events, disturbed>>

(* The certificate checker's tick: the monitors whose certificate could be *)
(* read and is about to expire.                                            *)
StartWarnings ==
  /\ At("ssl", "idle")
  /\ \E S \in SUBSET {m \in expiring : status[m] # "gone"} :
       /\ S # {}
       /\ Begin("ssl", [monitor : S, channel : {None}])
  /\ UNCHANGED <<config, logs, told, hour, events, disturbed>>

(* A warning is left out if the log has a recent one for the monitor, or   *)
(* cannot be read.                                                         *)
CheckRecent(w) ==
  /\ At(w, "recent")
  /\ \/ Succeeds /\ IF HasRecentSSLLog(worker[w].monitor)
                     THEN Leave(w) ELSE Goto(w, "channels")
     \/ Fails /\ Leave(w)
  /\ UNCHANGED <<config, logs, told, hour>>

-----------------------------------------------------------------------------
(* Notify.                                                                 *)

(* A reminder goes only to the channel it is due for.                      *)
Selected(w, S) ==
  {a \in S : worker[w].only \in {None, a.channel}}

(* GetChannelsForMonitor: the assignments, or else a second query for the  *)
(* global channels.                                                        *)
GetChannels(w) ==
  /\ At(w, "channels")
  /\ \/ /\ Succeeds
        /\ LET found == Assignments(worker[w].monitor) IN
           IF found = {} THEN Goto(w, "global")
                         ELSE NotifyChannels(w, Selected(w, found))
     \/ Fails /\ Leave(w)
  /\ UNCHANGED <<config, logs, told, hour>>

GetGlobalChannels(w) ==
  /\ At(w, "global")
  /\ \/ /\ Succeeds
        /\ NotifyChannels(w, Selected(w, Fallback(worker[w].monitor)))
     \/ Fails /\ Leave(w)
  /\ UNCHANGED <<config, logs, told, hour>>

(* LastSentAt: anything sent to this channel about this monitor counts; an *)
(* error counts as nothing.                                                *)
CheckCooldown(w) ==
  LET a == worker[w].now IN
  /\ At(w, "cooldown")
  /\ \/ /\ Succeeds
        /\ IF logs[worker[w].monitor][a.channel]["sent"] < a.triggers.cooldown
           THEN NextChannel(w) ELSE Goto(w, Checked(a))
     \/ Fails /\ Goto(w, Checked(a))
  /\ UNCHANGED <<config, logs, told, hour>>

IsWithinSchedule(h, s) ==
  h \div Hours \in s.days /\ s.from <= h % Hours /\ h % Hours < s.to

(* The schedule is read in the time zone of the settings; whatever goes    *)
(* wrong counts as within.                                                 *)
CheckSchedule(w) ==
  /\ At(w, "schedule")
  /\ \/ /\ Succeeds
        /\ IF IsWithinSchedule(hour, worker[w].now.triggers.schedule)
           THEN Goto(w, "monitor") ELSE NextChannel(w)
     \/ Fails /\ Goto(w, "monitor")
  /\ UNCHANGED <<config, logs, told, hour>>

FindMonitor(w) ==
  /\ At(w, "monitor")
  /\ \/ status[worker[w].monitor] # "gone" /\ Succeeds
        /\ Goto(w, "send")
     \/ status[worker[w].monitor] = "gone" /\ Succeeds /\ NextChannel(w)
     \/ Fails /\ NextChannel(w)
  /\ UNCHANGED <<config, logs, told, hour>>

Accepted(w) ==
  LET m == worker[w].monitor  c == worker[w].now.channel IN
  told' = [told EXCEPT ![m][c] =
             [k \in Heard |-> IF k \in {"any", IF w = "ssl" THEN "warning" ELSE w}
                              THEN 0 ELSE told[m][c][k]]]

Again(w) == worker[w].left > 1

SendRemembers(w) ==   \* mutant: an error is not cleared by a later success
  /\ At(w, "send")
  /\ \/ /\ Accepted(w)
        /\ Becomes(w, [worker[w] EXCEPT !.pc = "log", !.ok = @ \/ worker[w].left = Attempts])
        /\ Succeeds
     \/ /\ Missed
        /\ Becomes(w, IF Again(w) THEN [worker[w] EXCEPT !.left = @ - 1]
                                  ELSE [worker[w] EXCEPT !.pc = "log"])
        /\ UNCHANGED told
  /\ UNCHANGED <<config, logs, hour>>

(* One attempt: the transport accepts the message, or reports an error.    *)
Send(w) ==
  /\ At(w, "send")
  /\ \/ /\ Accepted(w)
        /\ Becomes(w, [worker[w] EXCEPT !.pc = "log", !.ok = TRUE])
        /\ Succeeds
     \/ /\ Missed
        /\ Becomes(w, IF Again(w) THEN [worker[w] EXCEPT !.left = @ - 1]
                                  ELSE [worker[w] EXCEPT !.pc = "log"])
        /\ UNCHANGED told
  /\ UNCHANGED <<config, logs, hour>>

ColumnsOfNotify(w) ==   \* mutant: reminders have an event of their own
  {k \in Column : \/ k = "sent" /\ worker[w].ok
                  \/ k = "down" /\ worker[w].event = "down" /\ w # "reminder"
                  \/ k = "ssl"  /\ worker[w].event = "ssl_expiry"}

Columns(w) ==
  {k \in Column : \/ k = "sent" /\ worker[w].ok
                  \/ k = "down" /\ worker[w].event = "down"
                  \/ k = "ssl"  /\ worker[w].event = "ssl_expiry"}

(* LogNotification, sent or failed; refused when the channel is gone.      *)
LogNotification(w) ==
  LET m == worker[w].monitor  c == worker[w].now.channel IN
  /\ At(w, "log")
  /\ \/ /\ Succeeds
        /\ logs' = IF Stored(c)
                   THEN [logs EXCEPT ![m][c] =
                           [k \in Column |-> IF k \in Columns(w) THEN 0 ELSE logs[m][c][k]]]
                   ELSE logs
     \/ Fails /\ UNCHANGED logs
  /\ NextChannel(w)
  /\ UNCHANGED <<config, told, hour>>

Work(w) ==
  \/ CheckRecent(w) \/ GetChannels(w) \/ GetGlobalChannels(w)
  \/ CheckCooldown(w) \/ CheckSchedule(w) \/ FindMonitor(w)
  \/ Send(w) \/ LogNotification(w)

-----------------------------------------------------------------------------
(* The administrator's requests.                                           *)

Edit == AnEvent /\ UNCHANGED disturbed
elsewhere == <<told, worker, hour, expiring>>

(* Create and Update write every column.                                   *)
WriteChannel(c, enabled, global, remind) ==
  /\ Edit
  /\ channel[c].state # "gone"
  /\ channel' = [channel EXCEPT ![c] = [state |-> "stored", enabled |-> enabled,
                                        global |-> global, remind |-> remind]]
  /\ UNCHANGED <<status, triggers, logs, elsewhere>>

(* The assignments and the log rows of a channel go with it.               *)
DeleteChannel(c) ==
  /\ Edit
  /\ Stored(c)
  /\ channel' = [channel EXCEPT ![c].state = "gone"]
  /\ triggers' = [m \in Monitors |-> [triggers[m] EXCEPT ![c] = None]]
  /\ logs' = [m \in Monitors |-> [logs[m] EXCEPT ![c] = [k \in Column |-> Never]]]
  /\ UNCHANGED <<status, elsewhere>>

AssignChannel(m, c) ==
  /\ Edit
  /\ status[m] # "gone" /\ Stored(c)
  /\ triggers[m][c] = None
  /\ triggers' = [triggers EXCEPT ![m][c] = NoTriggers]
  /\ UNCHANGED <<status, channel, logs, elsewhere>>

UpdateTriggers(m, c, t) ==
  /\ Edit
  /\ triggers[m][c] # None
  /\ triggers' = [triggers EXCEPT ![m][c] = t]
  /\ UNCHANGED <<status, channel, logs, elsewhere>>

UnassignChannel(m, c) ==
  /\ Edit
  /\ triggers[m][c] # None
  /\ triggers' = [triggers EXCEPT ![m][c] = None]
  /\ UNCHANGED <<status, channel, logs, elsewhere>>

(* The log has no foreign key to the monitor.                              *)
DeleteMonitor(m) ==
  /\ Edit
  /\ status[m] # "gone"
  /\ status' = [status EXCEPT ![m] = "gone"]
  /\ triggers' = [triggers EXCEPT ![m] = [c \in Channels |-> None]]
  /\ UNCHANGED <<channel, logs, elsewhere>>

(* The requests about channels, and about a monitor's assignments          *)
EditChannel(c) ==
  \/ \E e, g \in BOOLEAN, r \in Intervals : WriteChannel(c, e, g, r)
  \/ DeleteChannel(c)

EditAssignment(m, c) ==
  \/ AssignChannel(m, c) \/ UnassignChannel(m, c)
  \/ \E t \in Triggers : UpdateTriggers(m, c, t)

Edits ==
  \/ \E c \in Channels : EditChannel(c)
  \/ \E m \in Monitors, c \in Channels : EditAssignment(m, c)
  \/ \E m \in Monitors : DeleteMonitor(m)

-----------------------------------------------------------------------------
Older(age) == IF age < Never THEN age + 1 ELSE Never

Tick ==
  /\ logs' = [m \in Monitors |-> [c \in Channels |->
                [k \in Column |-> Older(logs[m][c][k])]]]
  /\ told' = [m \in Monitors |-> [c \in Channels |->
                [k \in Heard |-> Older(told[m][c][k])]]]
  /\ hour' = (hour + 1) % (Days * Hours)
  /\ UNCHANGED <<config, worker, events, disturbed>>

Restart ==
  /\ AnEvent /\ disturbed' = TRUE
  /\ worker' = [w \in Workers |-> Idle]
  /\ UNCHANGED <<config, logs, told, hour>>

Next ==
  \/ \E m \in Monitors, g \in Goroutines, new \in Status \ {"gone"} :
       RecordStatus(m, g, new)
  \/ StartReminders \/ StartWarnings
  \/ \E w \in Workers : Work(w)
  \/ Edits
  \/ Tick \/ Restart

Spec == Init /\ [][Next]_vars

(* The aggregator's ticker goes on, every call returns in the end, time    *)
(* passes.                                                                 *)
Fairness ==
  /\ WF_vars(StartReminders) /\ WF_vars(Work("reminder"))
  /\ WF_vars(Tick)

FairSpec == Spec /\ Fairness

-----------------------------------------------------------------------------
(* Properties.                                                             *)

TypeOK ==
  /\ status \in [Monitors -> Status]
  /\ channel \in [Channels -> Channel]
  /\ triggers \in [Monitors -> [Channels -> Triggers \cup {None}]]
  /\ logs \in [Monitors -> [Channels -> [Column -> Age]]]
  /\ told \in [Monitors -> [Channels -> [Heard -> Age]]]
  /\ worker \in [Workers -> Worker]
  /\ hour \in 0..(Days * Hours - 1)
  /\ expiring \subseteq Monitors
  /\ events \in Nat /\ disturbed \in BOOLEAN

(* Two queries written apart agree: a channel that FindReminders names for  *)
(* a monitor is one that GetChannelsForMonitor finds for it.  If it were    *)
(* not, the reminder would be due at every tick and never sent.             *)
RemindersAreRouted ==
  \A m \in Monitors, c \in Channels :
    Remindable(m, c) =>
      \E a \in ListMonitorChannels(m) : a.channel = c

Delivers(w) ==
  At(w, "send") /\ worker'[w].pc = "log" /\ worker'[w].ok

(* Two reminders for a monitor over one channel are further apart than the  *)
(* smallest interval in use, whatever else is sent between a tick's look at *)
(* the log and its messages, and however its channels are edited.           *)
RemindersAreSpaced ==
  [][\A m \in Monitors, c \in Channels :
       /\ ~disturbed /\ Delivers("reminder")
       /\ worker["reminder"].monitor = m /\ worker["reminder"].now.channel = c
       => \E i \in Intervals \ {0} : told[m][c]["reminder"] > i]_vars

(* A channel is warned of a monitor's certificate at most once in a period. *)
WarningsAreSpaced ==
  [][\A m \in Monitors, c \in Channels :
       /\ ~disturbed /\ Delivers("ssl")
       /\ worker["ssl"].monitor = m /\ worker["ssl"].now.channel = c
       => told[m][c]["warning"] >= SslPeriod]_vars

(* Once the worker that sent it is past its log row, a message counts for   *)
(* the cooldown of its channel: no accepted message is younger than the     *)
(* newest row the cooldown looks at.                                        *)
LogCoversMessages ==
  ~disturbed =>
    \A m \in Monitors, c \in Channels :
      \/ ~Stored(c)
      \/ logs[m][c]["sent"] <= told[m][c]["any"]
      \/ \E w \in Workers : /\ At(w, "log") /\ worker[w].monitor = m
                            /\ worker[w].now.channel = c

(* While a monitor stays down, a channel that is set to be reminded, without *)
(* cooldown or schedule, is reminded again and again.                       *)
KeepsReminding ==
  \A m \in Monitors, c \in Channels :
    <>[](status[m] = "down" /\ Remindable(m, c) /\ triggers[m][c] \in {None, NoTriggers})
      => []<>(told[m][c]["reminder"] = 0)
=============================================================================
