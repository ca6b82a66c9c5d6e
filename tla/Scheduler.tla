------------------------------ MODULE Scheduler ------------------------------
(***************************************************************************)
(* The scheduler and the monitor use cases that drive it.  A REST request  *)
(* changes the monitors table and then the cron entries, or the other way  *)
(* round, with nothing held across the two; jobs maps a monitor to the     *)
(* entry that Remove will take away.  Remove holds the scheduler's mutex   *)
(* throughout, so it is one step; Add takes the mutex only to write jobs,  *)
(* after cron has the entry, so it is two.  The entries and jobs live in   *)
(* memory: a restart rebuilds them from the table before it serves.        *)
(***************************************************************************)
EXTENDS Integers, FiniteSets

CONSTANTS Monitors,      \* monitor ids; one is never used again
          Handlers,      \* requests that may be served at once
          Intervals,     \* check intervals a request may ask for
          MaxRequests,   \* bound: requests of one process
          MaxFaults,     \* bound: failing database calls
          MaxRestarts    \* bound: restarts of the process

ASSUME SchedulerAssumption ==
  /\ Intervals # {}
  /\ IsFiniteSet(Monitors)
  /\ {MaxRequests, MaxFaults, MaxRestarts} \subseteq Nat

VARIABLES
  table,      \* the monitors table: whether a monitor is stored, its settings
  entries,    \* the entries of the cron library
  nextId,     \* the id cron gives to the next entry, from 1
  jobs,       \* Scheduler.jobs; 0 where the map has no key
  request,    \* request[h]: what handler h has still to do
  checked,    \* flips at each check of the monitor, to see that it happens
  disturbed,  \* history: the monitors with requests that overlapped or failed,
              \* or all after a start that could not read the table; until a
              \* request that meets no other, or a start that can
  leaky,      \* history: those with requests that overlapped, until a start
  requests, faults, restarts

vars == <<table, entries, nextId, jobs, request, checked, disturbed, leaky,
          requests, faults, restarts>>

Setting == [enabled : BOOLEAN, interval : Intervals]
Row     == [state : {"unborn", "stored", "gone"}, setting : Setting]
Entry   == [id : Nat \ {0}, monitor : Monitors, interval : Intervals]
Label   == {"remove", "addfunc", "setjob", "delete"}
Pending == [pc : Label, monitor : Monitors, setting : Setting, entry : Nat]

Idle == [pc |-> "idle"]

NoSetting == [enabled |-> FALSE, interval |-> CHOOSE i \in Intervals : TRUE]
Blank(state) == [state |-> state, setting |-> NoSetting]

Stored(m)    == table[m].state = "stored"
Enabled(m)   == Stored(m) /\ table[m].setting.enabled
EntriesOf(m) == {e \in entries : e.monitor = m}

Init ==
  /\ table = [m \in Monitors |-> Blank("unborn")]
  /\ entries = {} /\ nextId = 1
  /\ jobs = [m \in Monitors |-> 0]
  /\ request = [h \in Handlers |-> Idle]
  /\ checked = [m \in Monitors |-> FALSE]
  /\ disturbed = {} /\ leaky = {}
  /\ requests = 0 /\ faults = 0 /\ restarts = 0

-----------------------------------------------------------------------------
(* Requests.                                                               *)

Busy(m) == \E h \in Handlers : request[h] # Idle /\ request[h].monitor = m

(* A request sets right what others have left, or meets them.              *)
Accept(h, m) ==
  /\ request[h] = Idle
  /\ disturbed' = IF Busy(m) THEN disturbed \cup {m} ELSE disturbed \ {m}
  /\ leaky' = IF Busy(m) THEN leaky \cup {m} ELSE leaky
  /\ requests < MaxRequests /\ requests' = requests + 1

Continue(h, label, m, setting, id) ==
  request' = [request EXCEPT ![h] =
                [pc |-> label, monitor |-> m, setting |-> setting, entry |-> id]]

Done(h) == request' = [request EXCEPT ![h] = Idle]

Store(m, setting) ==
  table' = [table EXCEPT ![m] = [state |-> "stored", setting |-> setting]]

(* CreateMonitor: repo.Create; an enabled monitor is then added.           *)
CreateMonitor(h, m, setting) ==
  /\ Accept(h, m)
  /\ table[m].state = "unborn"
  /\ Store(m, setting)
  /\ IF setting.enabled THEN Continue(h, "addfunc", m, setting, 0)
                        ELSE UNCHANGED request
  /\ UNCHANGED <<entries, nextId, jobs, checked, faults, restarts>>

(* UpdateMonitor: repo.Update, then scheduler.Update.  A failing call or a *)
(* missing row ends the request before anything changes.                   *)
UpdateMonitor(h, m, setting) ==
  /\ Accept(h, m)
  /\ Stored(m)
  /\ Store(m, setting)
  /\ Continue(h, "remove", m, setting, 0)
  /\ UNCHANGED <<entries, nextId, jobs, checked, faults, restarts>>

(* Remove takes away the one entry that jobs names, and the key.           *)
RemoveKeepsKey(m) ==   \* mutant: the key stays
  /\ entries' = {e \in entries : e.id # jobs[m]}
  /\ UNCHANGED jobs

Remove(m) ==
  /\ entries' = {e \in entries : e.id # jobs[m]}
  /\ jobs' = [jobs EXCEPT ![m] = 0]

(* DeleteMonitor: scheduler.Remove, for any id that was ever given out,     *)
(* then repo.Delete.                                                       *)
DeleteMonitor(h, m) ==
  /\ Accept(h, m)
  /\ table[m].state # "unborn"
  /\ Remove(m)
  /\ Continue(h, "delete", m, NoSetting, 0)
  /\ UNCHANGED <<table, nextId, checked, faults, restarts>>

(* repo.Delete, which may find no row any more, or fail.                   *)
DeleteRow(h) ==
  LET m == request[h].monitor IN
  /\ request[h].pc = "delete"
  /\ \/ /\ table' = [table EXCEPT ![m] = Blank("gone")]
        /\ UNCHANGED <<faults, disturbed>>
     \/ /\ faults < MaxFaults /\ faults' = faults + 1
        /\ disturbed' = disturbed \cup {m}
        /\ UNCHANGED table
  /\ Done(h)
  /\ UNCHANGED <<entries, nextId, jobs, checked, leaky, requests, restarts>>

(* scheduler.Update: Remove, then Add if the monitor is to be enabled.     *)
UpdateWithoutRemove(h) ==   \* mutant: the old entry stays
  /\ request[h].pc = "remove"
  /\ IF request[h].setting.enabled
     THEN Continue(h, "addfunc", request[h].monitor, request[h].setting, 0)
     ELSE Done(h)
  /\ UNCHANGED <<table, entries, jobs, nextId, checked, disturbed, leaky, requests,
                 faults, restarts>>

UpdateNeverAdds(h) ==   \* mutant: Add is forgotten
  /\ request[h].pc = "remove"
  /\ Remove(request[h].monitor)
  /\ Done(h)
  /\ UNCHANGED <<table, nextId, checked, disturbed, leaky, requests, faults,
                 restarts>>

UpdateRemove(h) ==
  /\ request[h].pc = "remove"
  /\ Remove(request[h].monitor)
  /\ IF request[h].setting.enabled
     THEN Continue(h, "addfunc", request[h].monitor, request[h].setting, 0)
     ELSE Done(h)
  /\ UNCHANGED <<table, nextId, checked, disturbed, leaky, requests, faults,
                 restarts>>

(* Add, first half: cron.AddFunc, outside the mutex.                       *)
AddFunc(h) ==
  LET r == request[h] IN
  /\ r.pc = "addfunc"
  /\ entries' = entries \cup {[id |-> nextId, monitor |-> r.monitor,
                               interval |-> r.setting.interval]}
  /\ nextId' = nextId + 1
  /\ Continue(h, "setjob", r.monitor, r.setting, nextId)
  /\ UNCHANGED <<table, jobs, checked, disturbed, leaky, requests, faults,
                 restarts>>

(* Add, second half: jobs[m.ID] = id, whatever it held.                    *)
SetJob(h) ==
  /\ request[h].pc = "setjob"
  /\ jobs' = [jobs EXCEPT ![request[h].monitor] = request[h].entry]
  /\ Done(h)
  /\ UNCHANGED <<table, entries, nextId, checked, disturbed, leaky, requests, faults,
                 restarts>>

-----------------------------------------------------------------------------
(* The rest of the program.                                                *)

(* Deleting a user deletes the user's monitors (ON DELETE CASCADE) in the  *)
(* database, and only there.                                               *)
DeleteUser(owned) ==
  /\ \A m \in owned : Stored(m)
  /\ table' = [m \in Monitors |-> IF m \in owned THEN Blank("gone") ELSE table[m]]
  /\ UNCHANGED <<entries, nextId, jobs, request, checked, disturbed, leaky, requests,
                 faults, restarts>>

(* An entry of m is due: RunCheck reads the row and goes on if the monitor *)
(* is there and enabled.                                                   *)
Fire(m) ==
  /\ EntriesOf(m) # {}
  /\ Enabled(m)
  /\ checked' = [checked EXCEPT ![m] = ~@]
  /\ UNCHANGED <<table, entries, nextId, jobs, request, disturbed, leaky, requests,
                 faults, restarts>>

FindAll == {m \in Monitors : Stored(m)}   \* mutant: the disabled ones too

FindAllEnabled == {m \in Monitors : Enabled(m)}

(* The process ends, with whatever it was doing, and starts: one entry for *)
(* every monitor that FindAllEnabled returns, or none if that call fails.  *)
Restart ==
  /\ restarts < MaxRestarts /\ restarts' = restarts + 1
  /\ request' = [h \in Handlers |-> Idle]
  /\ requests' = 0
  /\ \/ \E id \in [FindAllEnabled -> 1..Cardinality(Monitors)] :
          /\ \A m, k \in DOMAIN id : id[m] = id[k] => m = k
          /\ entries' = {[id |-> id[m], monitor |-> m,
                          interval |-> table[m].setting.interval] : m \in DOMAIN id}
          /\ jobs' = [m \in Monitors |-> IF m \in DOMAIN id THEN id[m] ELSE 0]
          /\ nextId' = Cardinality(Monitors) + 1
          /\ disturbed' = {}
          /\ UNCHANGED faults
     \/ /\ faults < MaxFaults /\ faults' = faults + 1
        /\ entries' = {} /\ nextId' = 1
        /\ jobs' = [m \in Monitors |-> 0]
        /\ disturbed' = Monitors
  /\ leaky' = {}
  /\ UNCHANGED <<table, checked>>

Serve(h) == DeleteRow(h) \/ UpdateRemove(h) \/ AddFunc(h) \/ SetJob(h)

Receive(h, m) ==
  \/ \E setting \in Setting : CreateMonitor(h, m, setting)
                           \/ UpdateMonitor(h, m, setting)
  \/ DeleteMonitor(h, m)

Next ==
  \/ \E h \in Handlers : Serve(h) \/ \E m \in Monitors : Receive(h, m)
  \/ \E owned \in SUBSET Monitors : DeleteUser(owned)
  \/ \E m \in Monitors : Fire(m)
  \/ Restart

Spec == Init /\ [][Next]_vars

(* A request that was accepted is served to its end, and cron fires.       *)
Fairness ==
  /\ \A h \in Handlers : WF_vars(Serve(h))
  /\ \A m \in Monitors : WF_vars(Fire(m))

FairSpec == Spec /\ Fairness

-----------------------------------------------------------------------------
(* Properties.                                                             *)

TypeOK ==
  /\ table \in [Monitors -> Row]
  /\ entries \subseteq Entry
  /\ nextId \in Nat \ {0}
  /\ jobs \in [Monitors -> Nat]
  /\ request \in [Handlers -> Pending \cup {Idle}]
  /\ checked \in [Monitors -> BOOLEAN]
  /\ disturbed \subseteq Monitors /\ leaky \subseteq Monitors
  /\ requests \in Nat /\ faults \in Nat /\ restarts \in Nat

(* Whatever requests overlap, a key of jobs names an entry that cron still *)
(* has, of that very monitor: Remove never takes away an entry of another  *)
(* monitor, and never misses the one it goes for.                          *)
JobsAreLive ==
  \A m \in Monitors :
    jobs[m] # 0 => \E e \in entries : e.id = jobs[m] /\ e.monitor = m

(* The entry that jobs names is as the table has it.                       *)
Follows(m) ==
  /\ Enabled(m) => \E e \in EntriesOf(m) : /\ e.id = jobs[m]
                                           /\ e.interval = table[m].setting.interval
  /\ Stored(m) /\ ~Enabled(m) => jobs[m] = 0

(* No other entry fires for the monitor, where Remove could not reach it.  *)
InReach(m) == \A e \in EntriesOf(m) : EntriesOf(m) = {e} /\ e.id = jobs[m]

InStep == \A m \in Monitors : Follows(m) /\ InReach(m)

(* Between its requests a monitor's schedule follows the table, whatever   *)
(* happens to other monitors and users.  Requests for it that overlap may  *)
(* leave it at another setting, a call that fails may leave it without an  *)
(* entry, but no longer than until the next request that meets no other.   *)
(* Only a second entry, which requests that overlap may leave, stays until *)
(* the process restarts; nothing else leaves one, no failing call either.  *)
ScheduleMatchesTable ==
  \A m \in Monitors :
    ~Busy(m) => /\ m \notin disturbed => Follows(m)
                /\ m \notin leaky => InReach(m)

(* However far they were apart, a restart that can read the table brings   *)
(* the schedule and the table in step.                                     *)
RestartRepairs == [][restarts' # restarts /\ faults' = faults => InStep']_vars

(* A monitor that stays enabled is checked again and again, unless what    *)
(* its requests left is repaired neither by another one nor by a restart.  *)
EnabledIsChecked ==
  \A m \in Monitors :
    <>[](Enabled(m) /\ m \notin disturbed) => []<><<Fire(m)>>_vars
=============================================================================
