---------------------------- MODULE MonitorCheck ----------------------------
(***************************************************************************)
(* CheckerUsecase.RunCheck and the rows it reads and writes.  The cron     *)
(* library starts RunCheck in a goroutine of its own at every tick of a    *)
(* monitor's entry and does not wait for the previous one, so several runs *)
(* of one monitor may be under way: Slots bounds how many.  A run is a     *)
(* record labelled with the call it makes next; every database call, the   *)
(* spawning of the notifier and the broadcast are steps of their own, so   *)
(* that other runs, the REST handlers, failures and a restart of the       *)
(* process come between any two of them.                                   *)
(***************************************************************************)
EXTENDS Integers, Sequences, FiniteSets

CONSTANTS Monitors,     \* monitor ids
          Slots,        \* runs of one monitor that may be under way at once
          Retries,      \* Retries[m]: the retries column of monitor m
          Retention,    \* age at which the daily job deletes a window (a month)
          Global,       \* scope of a window whose monitor_id IS NULL
          None,         \* resolved_at IS NULL
          MaxTime,      \* bound: the clock runs from 0 to MaxTime
          MaxFlips,     \* bound: changes of the targets' condition
          MaxFaults,    \* bound: database calls that fail
          MaxCrashes,   \* bound: restarts of the process
          MaxWindows    \* bound: maintenance windows stored at once

ASSUME CheckAssumption ==
  /\ Retries \in [Monitors -> Nat]
  /\ Retention \in Nat
  /\ Global \notin Monitors
  /\ None \notin Nat
  /\ {MaxTime, MaxFlips, MaxFaults, MaxCrashes, MaxWindows} \subseteq Nat

VARIABLES
  row,        \* monitors table: exists, enabled and last_status of every monitor
  incidents,  \* incidents table: the rows of every monitor, in the order of their ids
  windows,    \* maintenance_windows table
  run,        \* run[m][s]: the RunCheck of monitor m in slot s
  announced,  \* the last event RunCheck started the notifier with
  shown,      \* the last status broadcast to the dashboards
  target,     \* what a check of the monitored service finds now
  clock, flips, faults, crashes

vars == <<row, incidents, windows, run, announced, shown, target,
          clock, flips, faults, crashes>>

Time      == 0..MaxTime
Result    == {"up", "down"}
Status    == Result \cup {"unknown", "maintenance"}
Row       == [exists : BOOLEAN, enabled : BOOLEAN, lastStatus : Status]
Incident  == [startedAt : Time, resolvedAt : Time \cup {None}]
Window    == [scope : Monitors \cup {Global}, startsAt : Time, endsAt : Time,
              createdAt : Time]
Label     == {"idle", "check", "probe", "save", "maintenance", "suppress",
              "status", "open", "resolve", "notify", "broadcast"}
Run       == [pc : Label, prev : Status, left : Nat, checkedAt : Time,
              result : Result \cup {"maintenance"}]

Idle == [pc |-> "idle", prev |-> "unknown", left |-> 0, checkedAt |-> 0,
         result |-> "down"]

IsOpen(inc)   == inc.resolvedAt = None
SomeOpen(log) == \E i \in DOMAIN log : IsOpen(log[i])
HasOpen(m)    == SomeOpen(incidents[m])

Init ==
  /\ row = [m \in Monitors |->
              [exists |-> TRUE, enabled |-> TRUE, lastStatus |-> "unknown"]]
  /\ incidents = [m \in Monitors |-> << >>]
  /\ windows = {}
  /\ run = [m \in Monitors |-> [s \in Slots |-> Idle]]
  /\ announced = [m \in Monitors |-> "none"]
  /\ shown = [m \in Monitors |-> "none"]
  /\ target = [m \in Monitors |-> "up"]
  /\ clock = 0 /\ flips = 0 /\ faults = 0 /\ crashes = 0

-----------------------------------------------------------------------------
(* A call to the database succeeds, or fails with an error.                *)
Succeeds == UNCHANGED faults
Fails    == faults < MaxFaults /\ faults' = faults + 1

At(m, s, label)   == run[m][s].pc = label
Becomes(m, s, r)  == run' = [run EXCEPT ![m][s] = r]
Goto(m, s, label) == Becomes(m, s, [run[m][s] EXCEPT !.pc = label])
Return(m, s)      == Becomes(m, s, Idle)

tables  == <<row, incidents, windows>>
world   == <<target, clock, flips, crashes>>
outside == <<announced, shown>>

(* FindByID; a disabled or missing monitor ends the run at once.  The      *)
(* status read here is the one compared with the result much later.        *)
LoadMonitor(m, s) ==
  /\ At(m, s, "idle")
  /\ row[m].exists /\ row[m].enabled
  /\ Becomes(m, s, [pc |-> "check", prev |-> row[m].lastStatus,
                    left |-> Retries[m], checkedAt |-> 0, result |-> "down"])
  /\ UNCHANGED <<tables, outside, world, faults>>

(* A checker stamps the heartbeat when it begins and asks the target.      *)
BeginCheck(m, s) ==
  /\ At(m, s, "check")
  /\ Becomes(m, s, [run[m][s] EXCEPT !.pc = "probe", !.checkedAt = clock])
  /\ UNCHANGED <<tables, outside, world, faults>>

Retried(m, s) == target[m] = "down" /\ run[m][s].left > 0

(* The attempt ends: up ends the loop, down is retried while retries are   *)
(* left, with any delay in between.                                        *)
EndCheck(m, s) ==
  /\ At(m, s, "probe")
  /\ IF Retried(m, s)
     THEN Becomes(m, s, [run[m][s] EXCEPT !.pc = "check", !.left = @ - 1])
     ELSE Becomes(m, s, [run[m][s] EXCEPT !.pc = "save", !.left = 0,
                                          !.result = target[m]])
  /\ UNCHANGED <<tables, outside, world, faults>>

(* heartbeats.Create: the foreign key refuses a deleted monitor; on any    *)
(* error the run returns.                                                  *)
SaveHeartbeat(m, s) ==
  /\ At(m, s, "save")
  /\ \/ row[m].exists /\ Succeeds /\ Goto(m, s, "maintenance")
     \/ ~row[m].exists /\ Succeeds /\ Return(m, s)
     \/ Fails /\ Return(m, s)
  /\ UNCHANGED <<tables, outside, world>>

Covers(w, m, at) == w.scope \in {m, Global} /\ w.startsAt <= at /\ at < w.endsAt

InMaintenance(m, at) == \E w \in windows : Covers(w, m, at)

AskedNow(m, s) == clock   \* mutant: the time of the query

AskedAt(m, s) == run[m][s].checkedAt

(* IsMonitorInMaintenance at the time of the check, not of the query; an   *)
(* error counts as "not in maintenance".                                   *)
QueryMaintenance(m, s) ==
  /\ At(m, s, "maintenance")
  /\ \/ /\ Succeeds
        /\ Goto(m, s, IF InMaintenance(m, AskedAt(m, s))
                      THEN "suppress" ELSE "status")
     \/ Fails /\ Goto(m, s, "status")
  /\ UNCHANGED <<tables, outside, world>>

(* UpdateLastStatus touches no row when the monitor is gone, and its error *)
(* is only logged.                                                         *)
UpdateLastStatus(m, status) ==
  \/ Succeeds /\ row' = IF row[m].exists
                        THEN [row EXCEPT ![m].lastStatus = status] ELSE row
  \/ Fails /\ UNCHANGED row

SuppressQuietly(m, s) ==   \* mutant: broadcasts the result all the same
  /\ At(m, s, "suppress")
  /\ UpdateLastStatus(m, "maintenance")
  /\ Goto(m, s, "broadcast")
  /\ UNCHANGED <<incidents, windows, outside, world>>

Suppress(m, s) ==
  /\ At(m, s, "suppress")
  /\ UpdateLastStatus(m, "maintenance")
  /\ Becomes(m, s, [run[m][s] EXCEPT !.pc = "broadcast",
                                     !.result = "maintenance"])
  /\ UNCHANGED <<incidents, windows, outside, world>>

BranchFromUpOnly(r) ==   \* mutant: unknown and maintenance do not count
  CASE r.prev = "up" /\ r.result = "down" -> "open"
    [] r.prev = "down" /\ r.result = "up" -> "resolve"
    [] OTHER                              -> "broadcast"

BranchNeverResolves(r) ==   \* mutant: the second case is missing
  IF r.prev # "down" /\ r.result = "down" THEN "open" ELSE "broadcast"

(* Which branch of the switch a run takes, from the status read at load.   *)
Branch(r) ==
  CASE r.prev # "down" /\ r.result = "down" -> "open"
    [] r.prev = "down" /\ r.result = "up"   -> "resolve"
    [] OTHER                                -> "broadcast"

WriteStatus(m, s) ==
  /\ At(m, s, "status")
  /\ UpdateLastStatus(m, run[m][s].result)
  /\ Goto(m, s, Branch(run[m][s]))
  /\ UNCHANGED <<incidents, windows, outside, world>>

InsertableTwice(m)  == row[m].exists      \* mutant: no unique index
InsertableOrphan(m) == ~HasOpen(m)        \* mutant: no foreign key
InsertableOnce(m)   == row[m].exists /\ incidents[m] = << >>
                                          \* mutant: an index over closed ones too

(* incidents.Create: refused by the foreign key or by the unique index on  *)
(* the open incident of a monitor; the error is logged and the run goes on. *)
Insertable(m) == row[m].exists /\ ~HasOpen(m)

OpenIncident(m, s) ==
  /\ At(m, s, "open")
  /\ \/ /\ Succeeds
        /\ incidents' = IF Insertable(m)
             THEN [incidents EXCEPT ![m] =
                     Append(@, [startedAt  |-> run[m][s].checkedAt,
                                resolvedAt |-> None])]
             ELSE incidents
     \/ Fails /\ UNCHANGED incidents
  /\ Goto(m, s, "notify")
  /\ UNCHANGED <<row, windows, outside, world>>

ResolvedAll(log, t) ==      \* mutant: no "resolved_at IS NULL"
  [i \in DOMAIN log |-> [log[i] EXCEPT !.resolvedAt = t]]

(* incidents.Resolve closes whatever incident of the monitor is open.      *)
Resolved(log, t) ==
  [i \in DOMAIN log |->
     IF IsOpen(log[i]) THEN [log[i] EXCEPT !.resolvedAt = t] ELSE log[i]]

ResolveIncident(m, s) ==
  /\ At(m, s, "resolve")
  /\ \/ /\ Succeeds
        /\ incidents' = [incidents EXCEPT
                           ![m] = Resolved(@, run[m][s].checkedAt)]
     \/ Fails /\ UNCHANGED incidents
  /\ Goto(m, s, "notify")
  /\ UNCHANGED <<row, windows, outside, world>>

(* go notifier.Notify(EventDown or EventUp)                                *)
SpawnNotify(m, s) ==
  /\ At(m, s, "notify")
  /\ announced' = [announced EXCEPT ![m] = run[m][s].result]
  /\ Goto(m, s, "broadcast")
  /\ UNCHANGED <<tables, shown, world, faults>>

(* hub.Broadcast of the heartbeat, or of "maintenance", ends the run.      *)
BroadcastStatus(m, s) ==
  /\ At(m, s, "broadcast")
  /\ shown' = [shown EXCEPT ![m] = run[m][s].result]
  /\ Return(m, s)
  /\ UNCHANGED <<tables, announced, world, faults>>

-----------------------------------------------------------------------------
(* The REST handlers and the daily job.                                    *)

(* monitorRepo.Update writes every editable column, and not last_status.   *)
UpdateMonitor(m) ==
  /\ row[m].exists
  /\ row' = [row EXCEPT ![m].enabled = ~@]
  /\ UNCHANGED <<incidents, windows, run, outside, world, faults>>

(* The rows that reference a monitor go with it (ON DELETE CASCADE).       *)
DeleteMonitor(m) ==
  /\ row[m].exists
  /\ row' = [row EXCEPT ![m] =
               [exists |-> FALSE, enabled |-> FALSE, lastStatus |-> "unknown"]]
  /\ incidents' = [incidents EXCEPT ![m] = << >>]
  /\ windows' = {w \in windows : w.scope # m}
  /\ UNCHANGED <<run, outside, world, faults>>

(* The table's CHECK wants ends_at after starts_at; nothing forbids a      *)
(* window that began in the past.                                          *)
CreateWindow ==
  /\ Cardinality(windows) < MaxWindows
  /\ \E w \in Window :
       /\ w.startsAt < w.endsAt
       /\ w.createdAt = clock
       /\ w.scope # Global => row[w.scope].exists
       /\ windows' = windows \cup {w}
  /\ UNCHANGED <<row, incidents, run, outside, world, faults>>

DeleteWindow ==
  /\ \E w \in windows : windows' = windows \ {w}
  /\ UNCHANGED <<row, incidents, run, outside, world, faults>>

(* DeleteExpiredBefore(now - one month), once a day.                       *)
DeleteExpiredWindows ==
  /\ windows' = {w \in windows : w.endsAt >= clock - Retention}
  /\ UNCHANGED <<row, incidents, run, outside, world, faults>>

-----------------------------------------------------------------------------
(* The world: time passes, a target fails or recovers, the process dies    *)
(* and is started again.                                                   *)
Tick ==
  /\ clock < MaxTime
  /\ clock' = clock + 1
  /\ UNCHANGED <<tables, run, outside, target, flips, faults, crashes>>

Flip(m) ==
  /\ flips < MaxFlips
  /\ flips' = flips + 1
  /\ target' = [target EXCEPT ![m] = IF @ = "up" THEN "down" ELSE "up"]
  /\ UNCHANGED <<tables, run, outside, clock, faults, crashes>>

Restart ==
  /\ crashes < MaxCrashes
  /\ crashes' = crashes + 1
  /\ run' = [m \in Monitors |-> [s \in Slots |-> Idle]]
  /\ UNCHANGED <<tables, outside, target, clock, flips, faults>>

-----------------------------------------------------------------------------
(* The rest of a run once its monitor is loaded.                           *)
Continue(m, s) ==
  \/ BeginCheck(m, s)
  \/ EndCheck(m, s)
  \/ SaveHeartbeat(m, s)
  \/ QueryMaintenance(m, s)
  \/ Suppress(m, s)
  \/ WriteStatus(m, s)
  \/ OpenIncident(m, s)
  \/ ResolveIncident(m, s)
  \/ SpawnNotify(m, s)
  \/ BroadcastStatus(m, s)

RunCheck == \E m \in Monitors, s \in Slots : LoadMonitor(m, s) \/ Continue(m, s)

Handlers ==
  \/ \E m \in Monitors : UpdateMonitor(m) \/ DeleteMonitor(m)
  \/ CreateWindow
  \/ DeleteWindow
  \/ DeleteExpiredWindows

Environment == Tick \/ Restart \/ \E m \in Monitors : Flip(m)

Next == RunCheck \/ Handlers \/ Environment

Spec == Init /\ [][Next]_vars

(* Cron goes on ticking and a call that was made returns: every run goes   *)
(* on to its end and a new one begins.  Time passes.  Nothing else is fair. *)
Fairness ==
  /\ \A m \in Monitors, s \in Slots :
       WF_vars(LoadMonitor(m, s)) /\ WF_vars(Continue(m, s))
  /\ WF_vars(Tick)

FairSpec == Spec /\ Fairness
-----------------------------------------------------------------------------
(* Properties.                                                             *)

(* Every variable holds what the schema and the Go types allow; a run      *)
(* never has fewer than no retries left.                                   *)
TypeOK ==
  /\ row \in [Monitors -> Row]
  /\ incidents \in [Monitors -> Seq(Incident)]
  /\ windows \subseteq Window
  /\ run \in [Monitors -> [Slots -> Run]]
  /\ announced \in [Monitors -> Result \cup {"none", "maintenance"}]
  /\ shown \in [Monitors -> Status \cup {"none"}]
  /\ target \in [Monitors -> Result]
  /\ clock \in Time
  /\ flips \in 0..MaxFlips /\ faults \in 0..MaxFaults /\ crashes \in 0..MaxCrashes

Quiet(m) == \A s \in Slots : At(m, s, "idle")

(* However runs, handlers, failures and restarts interleave, a monitor has *)
(* at most one open incident, and it is the newest: what FindActive and    *)
(* the open-incident lookups of the statistics rely on.                    *)
OneOpenIncident ==
  \A m \in Monitors : \A i \in DOMAIN incidents[m] :
    IsOpen(incidents[m][i]) => i = Len(incidents[m])

(* A run that was under way when its monitor was deleted leaves no row     *)
(* behind that names the monitor.                                          *)
NoOrphans ==
  \A m \in Monitors :
    ~row[m].exists => incidents[m] = << >> /\ \A w \in windows : w.scope # m

(* Between runs, a monitor recorded as down has an open incident: the      *)
(* switch of RunCheck opens one exactly when last_status becomes down.     *)
DownHasIncident ==
  \A m \in Monitors :
    Quiet(m) /\ row[m].lastStatus = "down" => HasOpen(m)

(* Between runs, a monitor recorded as up has no open incident.            *)
UpHasNoIncident ==
  \A m \in Monitors :
    Quiet(m) /\ row[m].lastStatus = "up" => ~HasOpen(m)

(* What makes DownHasIncident inductive when the runs of a monitor follow   *)
(* one another: the status a run compares with is still the one recorded,  *)
(* and only a run about to open the incident may see "down" without one.   *)
Compares == {"check", "probe", "save", "maintenance", "status"}

DownConsistent(r, w, log) ==
  /\ r.pc = "resolve" => w.lastStatus # "down"
  /\ r.pc \in Compares /\ w.exists => r.prev = w.lastStatus
  /\ w.lastStatus = "down" => w.exists /\ (r.pc = "open" \/ SomeOpen(log))

SerialInv ==
  \A m \in Monitors, s \in Slots :
    DownConsistent(run[m][s], row[m], incidents[m])

(* The same for UpHasNoIncident, where there is no maintenance: only a run  *)
(* about to close the incident may see it open under another status.       *)
UpConsistent(r, w, log) ==
  /\ r.pc # "suppress"
  /\ r.pc \in Compares => r.result \in Result
  /\ r.pc \in Compares /\ w.exists => r.prev = w.lastStatus
  /\ r.pc = "open" /\ w.exists => w.lastStatus = "down"
  /\ SomeOpen(log) => r.pc = "resolve" \/ w.lastStatus = "down"

NoWindowInv ==
  /\ windows = {}
  /\ \A m \in Monitors, s \in Slots :
       UpConsistent(run[m][s], row[m], incidents[m])

(* Between runs, the last thing the notifier was told agrees with the      *)
(* incident log: "down" exactly while an incident is open.                 *)
AnnouncedMatchesIncident ==
  \A m \in Monitors :
    Quiet(m) /\ row[m].exists => (announced[m] = "down" <=> HasOpen(m))

(* Between runs, the dashboards show what the monitors table records.      *)
DashboardIsCurrent ==
  \A m \in Monitors :
    Quiet(m) /\ row[m].exists /\ shown[m] # "none"
      => shown[m] = row[m].lastStatus

(* The rows of the outages that the statistics of a monitor draw for a     *)
(* range, in the order of their beginnings.                                *)
FindByMonitorAndTimeRange(m, since) ==
  {i \in DOMAIN incidents[m] : incidents[m][i].startedAt >= since}

(* Whatever range is asked for, the outages that are drawn do not overlap  *)
(* in time and none ends before it begins: durations are never negative.   *)
OutagesInOrder ==
  \A m \in Monitors, since \in Time :
    LET log   == incidents[m]
        drawn == FindByMonitorAndTimeRange(m, since)
    IN  /\ \A i \in drawn : ~IsOpen(log[i]) => log[i].startedAt <= log[i].resolvedAt
        /\ \A i, j \in drawn :
             i < j => ~IsOpen(log[i]) /\ log[i].resolvedAt <= log[j].startedAt

(* No outage is recorded as beginning inside a maintenance window that was *)
(* announced before it began, even when the query for the windows is made  *)
(* after the window ended or another window came and went meanwhile.       *)
NoIncidentInsideWindow ==
  \A m \in Monitors : \A i \in DOMAIN incidents[m] : \A w \in windows :
    LET inc == incidents[m][i]
    IN  w.createdAt < inc.startedAt => ~Covers(w, m, inc.startedAt)

(* The incidents table is a log of outages, as IncidentLedger has it.      *)
Ledger == INSTANCE IncidentLedger WITH Monitors <- Monitors, Time <- Time,
                                        None <- None, incidents <- incidents
LedgerSpec == Ledger!Spec

Watched(m)     == row[m].exists /\ row[m].enabled
InWindowNow(m) == InMaintenance(m, clock)

(* A target that goes down for good, outside maintenance and watched, ends *)
(* up with an open incident.                                               *)
OutageIsRecorded ==
  \A m \in Monitors :
    <>[](Watched(m) /\ target[m] = "down" /\ ~InWindowNow(m)) => <>[]HasOpen(m)

(* A target that comes back for good ends up with no open incident.        *)
RecoveryIsRecorded ==
  \A m \in Monitors :
    <>[](Watched(m) /\ target[m] = "up" /\ ~InWindowNow(m)) => <>[]~HasOpen(m)
=============================================================================
