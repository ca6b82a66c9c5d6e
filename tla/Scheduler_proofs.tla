-------------------------- MODULE Scheduler_proofs --------------------------
(***************************************************************************)
(* What the scheduler's mutex is enough for, for any number of monitors,   *)
(* requests, failures and restarts: a key of jobs never dangles; where no  *)
(* overlap or failure disturbed a monitor, or a request that met no other  *)
(* came since, its entry follows the table; and only overlaps leave more   *)
(* entries than one.                                                       *)
(***************************************************************************)
EXTENDS Scheduler, FiniteSetTheorems, TLAPS

(* The id that AddFunc returned and SetJob will write names an entry of    *)
(* the same monitor, and nobody else knows that id yet.                    *)
Holds(r) == r.pc = "setjob"

PendingIsLive ==
  \A h \in Handlers :
    Holds(request[h]) =>
      /\ \E e \in entries : e.id = request[h].entry /\ e.monitor = request[h].monitor
      /\ \A m \in Monitors : jobs[m] # request[h].entry
      /\ \A k \in Handlers : Holds(request[k]) /\ request[k].entry = request[h].entry
                               => k = h

(* Two keys never name the same entry.                                     *)
JobsAreDistinct ==
  \A m, k \in Monitors : jobs[m] # 0 /\ jobs[m] = jobs[k] => m = k

(* Cron's ids only grow.                                                   *)
IdsAreOld == \A e \in entries : e.id < nextId

Safe == JobsAreLive /\ PendingIsLive /\ JobsAreDistinct /\ IdsAreOld
-----------------------------------------------------------------------------
(* A handler is idle, or has a request in one of the four states.          *)
LEMMA IdleIsNotPending == Idle.pc = "idle" /\ Idle \notin Pending
  BY DEF Idle, Pending, Label

LEMMA NoSettingIsSetting == NoSetting \in Setting
  BY SchedulerAssumption DEF NoSetting, Setting

LEMMA BlankIsRow ==
  ASSUME NEW state \in {"unborn", "stored", "gone"}
  PROVE  Blank(state) \in Row
  BY NoSettingIsSetting DEF Blank, Row

(* The primed variables of a restart are typed: the ids it hands out are   *)
(* the first numbers.                                                      *)
LEMMA RestartTyped ==
  ASSUME TypeOK, Restart
  PROVE  /\ entries' \subseteq Entry
         /\ nextId' \in Nat \ {0}
         /\ jobs' \in [Monitors -> Nat]
  <1>1. Cardinality(Monitors) \in Nat
    BY SchedulerAssumption, FS_CardinalityType
  <1>2. CASE entries' = {} /\ nextId' = 1 /\ jobs' = [m \in Monitors |-> 0]
    BY <1>2
  <1>3. ASSUME NEW id \in [FindAllEnabled -> 1..Cardinality(Monitors)],
               entries' = {[id |-> id[m], monitor |-> m,
                            interval |-> table[m].setting.interval] : m \in DOMAIN id},
               jobs' = [m \in Monitors |-> IF m \in DOMAIN id THEN id[m] ELSE 0],
               nextId' = Cardinality(Monitors) + 1
        PROVE  /\ entries' \subseteq Entry
               /\ nextId' \in Nat \ {0}
               /\ jobs' \in [Monitors -> Nat]
    <2>1. \A m \in DOMAIN id : /\ m \in Monitors
                               /\ id[m] \in Nat \ {0}
                               /\ table[m].setting.interval \in Intervals
      BY <1>1 DEF FindAllEnabled, TypeOK, Row, Setting
    <2>2. entries' \subseteq Entry
      BY <1>3, <2>1 DEF Entry
    <2>3. jobs' \in [Monitors -> Nat]
      BY <1>3, <2>1
    <2> QED
      BY <1>1, <1>3, <2>2, <2>3
  <1> QED
    BY <1>2, <1>3 DEF Restart

(* Accepting a request keeps the counters and the history typed.           *)
LEMMA AcceptTyped ==
  ASSUME TypeOK, NEW h \in Handlers, NEW m \in Monitors, Accept(h, m)
  PROVE  disturbed' \subseteq Monitors /\ leaky' \subseteq Monitors /\ requests' \in Nat
  BY DEF Accept, TypeOK

LEMMA TypeStep == TypeOK /\ [Next]_vars => TypeOK'
  <1> SUFFICES ASSUME TypeOK, [Next]_vars PROVE TypeOK'
    OBVIOUS
  <1> USE IdleIsNotPending, NoSettingIsSetting, BlankIsRow
  <1>1. ASSUME NEW h \in Handlers, NEW m \in Monitors, NEW setting \in Setting,
               CreateMonitor(h, m, setting) \/ UpdateMonitor(h, m, setting)
        PROVE  TypeOK'
    <2>1. [state |-> "stored", setting |-> setting] \in Row
      BY DEF Row
    <2>2. \A label \in Label :
            [pc |-> label, monitor |-> m, setting |-> setting, entry |-> 0] \in Pending
      BY DEF Pending
    <2>3. disturbed' \subseteq Monitors /\ leaky' \subseteq Monitors /\ requests' \in Nat
      BY <1>1, AcceptTyped DEF CreateMonitor, UpdateMonitor
    <2> QED
      BY <1>1, <2>1, <2>2, <2>3
      DEF TypeOK, CreateMonitor, UpdateMonitor, Store, Continue, Label
  <1>2. ASSUME NEW h \in Handlers, NEW m \in Monitors, DeleteMonitor(h, m)
        PROVE  TypeOK'
    <2>1. [pc |-> "delete", monitor |-> m, setting |-> NoSetting, entry |-> 0] \in Pending
      BY DEF Pending, Label
    <2>2. disturbed' \subseteq Monitors /\ leaky' \subseteq Monitors /\ requests' \in Nat
      BY <1>2, AcceptTyped DEF DeleteMonitor
    <2> QED
      BY <1>2, <2>1, <2>2 DEF TypeOK, DeleteMonitor, Remove, Continue
  <1>3. ASSUME NEW h \in Handlers, DeleteRow(h)
        PROVE  TypeOK'
    <2>1. request[h].monitor \in Monitors
      BY <1>3 DEF TypeOK, DeleteRow, Pending
    <2> QED
      BY <1>3, <2>1 DEF TypeOK, DeleteRow, Done
  <1>4. ASSUME NEW h \in Handlers, UpdateRemove(h)
        PROVE  TypeOK'
    <2>1. request[h] \in Pending
      BY <1>4 DEF TypeOK, UpdateRemove
    <2>2. [pc |-> "addfunc", monitor |-> request[h].monitor,
           setting |-> request[h].setting, entry |-> 0] \in Pending
      BY <2>1 DEF Pending, Label
    <2> QED
      BY <1>4, <2>1, <2>2 DEF TypeOK, UpdateRemove, Remove, Continue, Done
  <1>5. ASSUME NEW h \in Handlers, AddFunc(h)
        PROVE  TypeOK'
    <2>1. request[h] \in Pending
      BY <1>5 DEF TypeOK, AddFunc
    <2>2. [pc |-> "setjob", monitor |-> request[h].monitor,
           setting |-> request[h].setting, entry |-> nextId] \in Pending
      BY <2>1 DEF Pending, Label, TypeOK
    <2>3. [id |-> nextId, monitor |-> request[h].monitor,
           interval |-> request[h].setting.interval] \in Entry
      BY <2>1 DEF Pending, Setting, Entry, TypeOK
    <2> QED
      BY <1>5, <2>2, <2>3 DEF TypeOK, AddFunc, Continue
  <1>6. ASSUME NEW h \in Handlers, SetJob(h)
        PROVE  TypeOK'
    <2>1. request[h] \in Pending
      BY <1>6 DEF TypeOK, SetJob
    <2>2. request[h].entry \in Nat
      BY <2>1 DEF Pending
    <2> QED
      BY <1>6, <2>2 DEF TypeOK, SetJob, Done
  <1>7. ASSUME NEW owned \in SUBSET Monitors, DeleteUser(owned)
        PROVE  TypeOK'
    BY <1>7 DEF TypeOK, DeleteUser
  <1>8. ASSUME NEW m \in Monitors, Fire(m)
        PROVE  TypeOK'
    BY <1>8 DEF TypeOK, Fire
  <1>9. CASE Restart
    <2>2. disturbed' \subseteq Monitors /\ leaky' \subseteq Monitors
      BY <1>9 DEF Restart
    <2>3. faults' = faults \/ faults' = faults + 1
      BY <1>9, Zenon DEF Restart
    <2>4. /\ request' = [h \in Handlers |-> Idle]
          /\ requests' = 0 /\ restarts' = restarts + 1
          /\ table' = table /\ checked' = checked
      BY <1>9 DEF Restart
    <2> QED
      BY <1>9, <2>2, <2>3, <2>4, RestartTyped DEF TypeOK
  <1>10. CASE UNCHANGED vars
    BY <1>10 DEF TypeOK, vars
  <1> QED
    BY <1>1, <1>2, <1>3, <1>4, <1>5, <1>6, <1>7, <1>8, <1>9, <1>10
    DEF Next, Serve, Receive

-----------------------------------------------------------------------------
(* A step that leaves the cron entries and jobs alone, and does not bring  *)
(* a request to the point of writing jobs, keeps everything.               *)
LEMMA FrameStep ==
  ASSUME TypeOK, Safe, UNCHANGED <<entries, jobs, nextId>>,
         \A h \in Handlers : Holds(request'[h]) => request'[h] = request[h]
  PROVE  Safe'
  <1>1. JobsAreLive' /\ JobsAreDistinct' /\ IdsAreOld'
    BY DEF Safe, JobsAreLive, JobsAreDistinct, IdsAreOld
  <1>2. PendingIsLive'
    <2> SUFFICES ASSUME NEW h \in Handlers, Holds(request'[h])
                 PROVE  /\ \E e \in entries : /\ e.id = request[h].entry
                                              /\ e.monitor = request[h].monitor
                        /\ \A m \in Monitors : jobs[m] # request[h].entry
                        /\ \A k \in Handlers :
                             Holds(request'[k]) /\ request'[k].entry = request[h].entry
                               => k = h
      BY DEF PendingIsLive, Holds
    <2>1. Holds(request[h])
      OBVIOUS
    <2> QED
      BY <2>1 DEF Safe, PendingIsLive
  <1> QED
    BY <1>1, <1>2 DEF Safe

(* Remove takes away the entry of one key only: another key, or a request  *)
(* about to write jobs, names another id.                                  *)
LEMMA RemoveStep ==
  ASSUME TypeOK, Safe, NEW m \in Monitors, Remove(m), UNCHANGED nextId,
         \A h \in Handlers : Holds(request'[h]) => request'[h] = request[h]
  PROVE  Safe'
  <1>1. \A k \in Monitors : jobs'[k] # 0 => k # m /\ jobs'[k] = jobs[k]
    BY DEF Remove, TypeOK
  <1>2. \A e \in entries : e.id # jobs[m] => e \in entries'
    BY DEF Remove
  <1>3. JobsAreLive'
    <2> SUFFICES ASSUME NEW k \in Monitors, jobs'[k] # 0
                 PROVE  \E e \in entries' : e.id = jobs'[k] /\ e.monitor = k
      BY DEF JobsAreLive
    <2>1. PICK e \in entries : e.id = jobs[k] /\ e.monitor = k
      BY <1>1 DEF Safe, JobsAreLive
    <2>2. e.id # jobs[m]
      BY <1>1, <2>1 DEF Safe, JobsAreDistinct
    <2> QED
      BY <1>1, <1>2, <2>1, <2>2
  <1>4. PendingIsLive'
    <2> SUFFICES ASSUME NEW h \in Handlers, Holds(request'[h])
                 PROVE  /\ \E e \in entries' : /\ e.id = request[h].entry
                                               /\ e.monitor = request[h].monitor
                        /\ \A k \in Monitors : jobs'[k] # request[h].entry
                        /\ \A k \in Handlers :
                             Holds(request'[k]) /\ request'[k].entry = request[h].entry
                               => k = h
      BY DEF PendingIsLive, Holds
    <2>1. Holds(request[h])
      OBVIOUS
    <2>2. PICK e \in entries : /\ e.id = request[h].entry
                               /\ e.monitor = request[h].monitor
      BY <2>1 DEF Safe, PendingIsLive
    <2>3. e \in entries'
      BY <1>2, <2>1, <2>2 DEF Safe, PendingIsLive
    <2>4. e.id # 0
      BY <2>2 DEF TypeOK, Entry
    <2>5. \A k \in Monitors : jobs'[k] # request[h].entry
      BY <1>1, <2>1, <2>2, <2>4 DEF Safe, PendingIsLive
    <2> QED
      BY <2>1, <2>2, <2>3, <2>5 DEF Safe, PendingIsLive
  <1>5. JobsAreDistinct'
    BY <1>1 DEF Safe, JobsAreDistinct
  <1>6. IdsAreOld'
    BY DEF Safe, IdsAreOld, Remove
  <1> QED
    BY <1>3, <1>4, <1>5, <1>6 DEF Safe

(* AddFunc uses an id that nothing names yet.                              *)
LEMMA AddFuncStep ==
  ASSUME TypeOK, Safe, NEW h \in Handlers, AddFunc(h)
  PROVE  Safe'
  <1> DEFINE new == [id |-> nextId, monitor |-> request[h].monitor,
                     interval |-> request[h].setting.interval]
             mine == [pc |-> "setjob", monitor |-> request[h].monitor,
                      setting |-> request[h].setting, entry |-> nextId]
  <1>1. /\ entries' = entries \cup {new} /\ nextId' = nextId + 1
        /\ jobs' = jobs /\ request' = [request EXCEPT ![h] = mine]
        /\ nextId \in Nat \ {0} /\ jobs \in [Monitors -> Nat]
        /\ \A e \in entries : e.id \in Nat
    BY DEF AddFunc, Continue, TypeOK, Entry
  <1>2. /\ new.id = nextId /\ new.monitor = request[h].monitor
        /\ mine.entry = nextId /\ mine.monitor = request[h].monitor
    OBVIOUS
  <1>3. request'[h] = mine /\ \A k \in Handlers : k # h => request'[k] = request[k]
    BY <1>1 DEF TypeOK
  <1> HIDE DEF new, mine
  <1>4. \A e \in entries : e.id < nextId
    BY DEF Safe, IdsAreOld
  <1>5. \A m \in Monitors : jobs[m] # nextId
    BY <1>1, <1>4 DEF Safe, JobsAreLive
  <1>6. JobsAreLive' /\ JobsAreDistinct'
    BY <1>1 DEF Safe, JobsAreLive, JobsAreDistinct
  <1>7. IdsAreOld'
    BY <1>1, <1>2, <1>4 DEF IdsAreOld
  <1>8. \A k \in Handlers : Holds(request[k]) => request[k].entry # nextId
    BY <1>1, <1>4 DEF Safe, PendingIsLive
  <1>9. PendingIsLive'
    <2> SUFFICES ASSUME NEW g \in Handlers, Holds(request'[g])
                 PROVE  /\ \E e \in entries' : /\ e.id = request'[g].entry
                                               /\ e.monitor = request'[g].monitor
                        /\ \A m \in Monitors : jobs'[m] # request'[g].entry
                        /\ \A k \in Handlers :
                             Holds(request'[k]) /\ request'[k].entry = request'[g].entry
                               => k = g
      BY DEF PendingIsLive, Holds
    <2>1. CASE g = h
      BY <2>1, <1>1, <1>2, <1>3, <1>5, <1>8
    <2>2. CASE g # h
      BY <2>2, <1>1, <1>2, <1>3, <1>8 DEF Safe, PendingIsLive
    <2> QED
      BY <2>1, <2>2
  <1> QED
    BY <1>6, <1>7, <1>9 DEF Safe

(* SetJob hands the id over from the request to jobs.                      *)
LEMMA SetJobStep ==
  ASSUME TypeOK, Safe, NEW h \in Handlers, SetJob(h)
  PROVE  Safe'
  <1> DEFINE r == request[h]
  <1>1. /\ r \in Pending /\ Holds(r) /\ r.monitor \in Monitors
        /\ jobs' = [jobs EXCEPT ![r.monitor] = r.entry]
        /\ request' = [request EXCEPT ![h] = Idle]
        /\ entries' = entries /\ nextId' = nextId
    BY IdleIsNotPending DEF SetJob, Done, TypeOK, Holds, Pending
  <1>2. /\ jobs'[r.monitor] = r.entry
        /\ \A m \in Monitors : m # r.monitor => jobs'[m] = jobs[m]
    BY <1>1 DEF TypeOK
  <1>3. \A k \in Handlers : Holds(request'[k]) => k # h /\ request'[k] = request[k]
    BY <1>1, IdleIsNotPending DEF TypeOK, Holds
  <1> HIDE DEF r
  <1>4. /\ \E e \in entries : e.id = r.entry /\ e.monitor = r.monitor
        /\ \A m \in Monitors : jobs[m] # r.entry
        /\ \A k \in Handlers : Holds(request[k]) /\ request[k].entry = r.entry => k = h
    BY <1>1 DEF Safe, PendingIsLive, r
  <1>5. JobsAreLive'
    BY <1>1, <1>2, <1>4 DEF Safe, JobsAreLive
  <1>6. JobsAreDistinct'
    BY <1>1, <1>2, <1>4 DEF Safe, JobsAreDistinct
  <1>7. IdsAreOld'
    BY <1>1 DEF Safe, IdsAreOld
  <1>8. PendingIsLive'
    <2> SUFFICES ASSUME NEW g \in Handlers, Holds(request'[g])
                 PROVE  /\ \E e \in entries : /\ e.id = request'[g].entry
                                              /\ e.monitor = request'[g].monitor
                        /\ \A m \in Monitors : jobs'[m] # request'[g].entry
                        /\ \A k \in Handlers :
                             Holds(request'[k]) /\ request'[k].entry = request'[g].entry
                               => k = g
      BY <1>1 DEF PendingIsLive, Holds
    <2>1. g # h /\ request'[g] = request[g]
      BY <1>3
    <2>2. request[g].entry # r.entry
      BY <1>4, <2>1
    <2> QED
      BY <1>1, <1>2, <1>3, <2>1, <2>2 DEF Safe, PendingIsLive
  <1> QED
    BY <1>5, <1>6, <1>7, <1>8 DEF Safe

(* A restart forgets the requests and gives every entry an id of its own.  *)
LEMMA RestartStep ==
  ASSUME TypeOK, Restart
  PROVE  Safe'
  <1>1. Cardinality(Monitors) \in Nat
    BY SchedulerAssumption, FS_CardinalityType
  <1>2. PendingIsLive'
    BY IdleIsNotPending DEF Restart, PendingIsLive, Holds
  <1>3. CASE entries' = {} /\ nextId' = 1 /\ jobs' = [m \in Monitors |-> 0]
    BY <1>2, <1>3 DEF Safe, JobsAreLive, JobsAreDistinct, IdsAreOld
  <1>4. ASSUME NEW id \in [FindAllEnabled -> 1..Cardinality(Monitors)],
               \A m, k \in DOMAIN id : id[m] = id[k] => m = k,
               entries' = {[id |-> id[m], monitor |-> m,
                            interval |-> table[m].setting.interval] : m \in DOMAIN id},
               jobs' = [m \in Monitors |-> IF m \in DOMAIN id THEN id[m] ELSE 0],
               nextId' = Cardinality(Monitors) + 1
        PROVE  Safe'
    <2>1. \A m \in Monitors : jobs'[m] # 0 => m \in DOMAIN id /\ jobs'[m] = id[m]
      BY <1>4
    <2>2. JobsAreLive'
      <3> SUFFICES ASSUME NEW m \in Monitors, jobs'[m] # 0
                   PROVE  \E e \in entries' : e.id = jobs'[m] /\ e.monitor = m
        BY DEF JobsAreLive
      <3> DEFINE e == [id |-> id[m], monitor |-> m,
                       interval |-> table[m].setting.interval]
      <3>1. e \in entries' /\ e.id = jobs'[m] /\ e.monitor = m
        BY <1>4, <2>1
      <3> HIDE DEF e
      <3> QED
        BY <3>1
    <2>3. JobsAreDistinct'
      BY <1>4, <2>1 DEF JobsAreDistinct
    <2>4. IdsAreOld'
      BY <1>1, <1>4 DEF IdsAreOld
    <2> QED
      BY <1>2, <2>2, <2>3, <2>4 DEF Safe
  <1> QED
    BY <1>3, <1>4 DEF Restart

LEMMA SafeStep == TypeOK /\ Safe /\ [Next]_vars => Safe'
  <1> SUFFICES ASSUME TypeOK, Safe, [Next]_vars PROVE Safe'
    OBVIOUS
  <1> USE IdleIsNotPending
  <1>1. ASSUME NEW h \in Handlers, NEW m \in Monitors, NEW setting \in Setting,
               CreateMonitor(h, m, setting) \/ UpdateMonitor(h, m, setting)
        PROVE  Safe'
    BY <1>1, FrameStep
    DEF TypeOK, CreateMonitor, UpdateMonitor, Continue, Holds
  <1>2. ASSUME NEW h \in Handlers, NEW m \in Monitors, DeleteMonitor(h, m)
        PROVE  Safe'
    BY <1>2, RemoveStep DEF TypeOK, DeleteMonitor, Continue, Holds
  <1>3. ASSUME NEW h \in Handlers, DeleteRow(h)
        PROVE  Safe'
    BY <1>3, FrameStep DEF TypeOK, DeleteRow, Done, Holds
  <1>4. ASSUME NEW h \in Handlers, UpdateRemove(h)
        PROVE  Safe'
    <2>1. request[h].monitor \in Monitors /\ Remove(request[h].monitor)
      BY <1>4 DEF TypeOK, UpdateRemove, Pending
    <2>2. \A k \in Handlers : Holds(request'[k]) => request'[k] = request[k]
      BY <1>4 DEF TypeOK, UpdateRemove, Continue, Done, Holds
    <2> QED
      BY <1>4, <2>1, <2>2, RemoveStep DEF UpdateRemove
  <1>5. ASSUME NEW h \in Handlers, AddFunc(h)
        PROVE  Safe'
    BY <1>5, AddFuncStep
  <1>6. ASSUME NEW h \in Handlers, SetJob(h)
        PROVE  Safe'
    BY <1>6, SetJobStep
  <1>7. ASSUME NEW owned \in SUBSET Monitors, DeleteUser(owned)
        PROVE  Safe'
    BY <1>7, FrameStep DEF DeleteUser
  <1>8. ASSUME NEW m \in Monitors, Fire(m)
        PROVE  Safe'
    BY <1>8, FrameStep DEF Fire
  <1>9. CASE Restart
    BY <1>9, RestartStep
  <1>10. CASE UNCHANGED vars
    BY <1>10, FrameStep DEF vars
  <1> QED
    BY <1>1, <1>2, <1>3, <1>4, <1>5, <1>6, <1>7, <1>8, <1>9, <1>10
    DEF Next, Serve, Receive

LEMMA InitSafe == Init => TypeOK /\ Safe
  <1> SUFFICES ASSUME Init PROVE TypeOK /\ Safe
    OBVIOUS
  <1>1. TypeOK
    BY BlankIsRow DEF Init, TypeOK
  <1>2. Safe
    BY IdleIsNotPending
    DEF Init, Safe, JobsAreLive, PendingIsLive, JobsAreDistinct, IdsAreOld, Holds
  <1> QED
    BY <1>1, <1>2

-----------------------------------------------------------------------------
(* The table, the cron entries, jobs and the requests always hold what the *)
(* Go types allow; a request under way has all that its next call needs.   *)
THEOREM TypeCorrect == Spec => []TypeOK
  <1>1. Init => TypeOK
    BY InitSafe
  <1> QED
    BY <1>1, TypeStep, PTL DEF Spec

(* Requests for one monitor may overlap in any way, fail, or be cut off by *)
(* a restart: a key of jobs always names a live entry of its own monitor,  *)
(* so Remove never takes away another monitor's entry and never misses.    *)
THEOREM KeysNeverDangle == Spec => []JobsAreLive
  <1>1. Safe => JobsAreLive
    BY DEF Safe
  <1> QED
    BY <1>1, InitSafe, TypeStep, SafeStep, PTL DEF Spec

(* One entry for every enabled monitor and none for the others, as         *)
(* FindAllEnabled returns each of them once.                               *)
LEMMA RestartInStep ==
  ASSUME TypeOK, Restart, faults' = faults
  PROVE  InStep'
  <1>1. faults + 1 # faults
    BY DEF TypeOK
  <1>2. PICK id \in [FindAllEnabled -> 1..Cardinality(Monitors)] :
          /\ entries' = {[id |-> id[m], monitor |-> m,
                          interval |-> table[m].setting.interval] : m \in DOMAIN id}
          /\ jobs' = [m \in Monitors |-> IF m \in DOMAIN id THEN id[m] ELSE 0]
    BY <1>1 DEF Restart
  <1>3. table' = table /\ DOMAIN id = FindAllEnabled
    BY DEF Restart
  <1>4. \A e \in entries' : Enabled(e.monitor)
    BY <1>2, <1>3 DEF FindAllEnabled
  <1> SUFFICES ASSUME NEW m \in Monitors PROVE Follows(m)' /\ InReach(m)'
    BY DEF InStep
  <1>5. CASE Enabled(m)
    <2> DEFINE e == [id |-> id[m], monitor |-> m,
                     interval |-> table[m].setting.interval]
    <2>1. m \in DOMAIN id
      BY <1>3, <1>5 DEF FindAllEnabled
    <2>2. /\ e \in entries' /\ e.interval = table[m].setting.interval /\ e.id = jobs'[m]
          /\ e.monitor = m
      BY <1>2, <2>1
    <2>3. EntriesOf(m)' = {e}
      BY <1>2, <2>1 DEF EntriesOf
    <2> HIDE DEF e
    <2> QED
      BY <1>3, <1>5, <2>2, <2>3 DEF Follows, InReach, Enabled, Stored
  <1>6. CASE ~Enabled(m)
    <2>1. EntriesOf(m)' = {} /\ jobs'[m] = 0
      BY <1>2, <1>3, <1>4, <1>6 DEF EntriesOf, FindAllEnabled
    <2> QED
      BY <1>3, <1>6, <2>1 DEF Follows, InReach, Enabled, Stored
  <1> QED
    BY <1>5, <1>6

(* A restart that can read the monitors table brings schedule and table in *)
(* step, whatever they were before.                                        *)
THEOREM RestartRepairsTheSchedule == Spec => RestartRepairs
  <1>1. TypeOK /\ [Next]_vars => [restarts' # restarts /\ faults' = faults => InStep']_vars
    <2> SUFFICES ASSUME TypeOK, Next, restarts' # restarts, faults' = faults
                 PROVE  InStep'
      BY DEF vars
    <2>1. Restart
      BY DEF Next, Serve, Receive, CreateMonitor, UpdateMonitor, DeleteMonitor,
             DeleteRow, UpdateRemove, AddFunc, SetJob, DeleteUser, Fire
    <2> QED
      BY <2>1, RestartInStep
  <1> QED
    BY <1>1, TypeCorrect, PTL DEF Spec, RestartRepairs

-----------------------------------------------------------------------------
(* Between requests the schedule follows the table.  What has to hold on   *)
(* the way there: a monitor that is not disturbed has one request at most, *)
(* follows the table when it has none, and its request has left what it    *)
(* needs; likewise, by itself, for the entries of one that is not leaky.   *)

IdsAreUnique == \A e, f \in entries : e.id = f.id => e = f

Asks(h, m) == request[h] # Idle /\ request[h].monitor = m

Sole(h, m) == \A g \in Handlers \ {h} : ~Asks(g, m)

AloneOn(m) == \A h \in Handlers : Asks(h, m) => Sole(h, m)

OnlyEntry(m, id) == \A e \in entries : e.monitor = m => e.id = id

NoEntry(m) == \A e \in entries : e.monitor # m

Served(r) ==
  /\ r.pc # "delete" /\ Stored(r.monitor) => table[r.monitor].setting = r.setting
  /\ r.pc \in {"addfunc", "setjob"} => r.setting.enabled
  /\ r.pc = "setjob" => \E e \in entries : /\ e.id = r.entry /\ e.monitor = r.monitor
                                           /\ e.interval = r.setting.interval

Clear(r) ==
  /\ r.pc = "remove" => OnlyEntry(r.monitor, jobs[r.monitor])
  /\ r.pc \in {"addfunc", "delete"} => NoEntry(r.monitor)
  /\ r.pc = "setjob" => OnlyEntry(r.monitor, r.entry)

Orderly(m) ==
  /\ AloneOn(m)
  /\ ~Busy(m) => Follows(m)
  /\ \A h \in Handlers : Asks(h, m) => Served(request[h])

Tight(m) ==
  /\ AloneOn(m)
  /\ ~Busy(m) => OnlyEntry(m, jobs[m])
  /\ \A h \in Handlers : Asks(h, m) => Clear(request[h])

Untouched(m) ==
  table[m].state = "unborn" => NoEntry(m) /\ jobs[m] = 0 /\ ~Busy(m)

Tidy ==
  /\ IdsAreUnique
  /\ \A m \in Monitors : Untouched(m)
  /\ \A m \in Monitors \ disturbed : Orderly(m)
  /\ \A m \in Monitors \ leaky : Tight(m)

(* A step for one monitor, by one request.                                 *)
LEMMA TidyStep ==
  ASSUME TypeOK, Tidy, NEW h \in Handlers, NEW m \in Monitors,
         IdsAreUnique', Untouched(m)',
         \A g \in Handlers : g # h => request'[g] = request[g],
         request'[h] # Idle => request'[h].monitor = m,
         request[h] # Idle => request[h].monitor = m,
         \A k \in Monitors : k # m =>
           /\ table'[k] = table[k] /\ jobs'[k] = jobs[k]
           /\ \A e \in entries' : e.monitor = k => e \in entries
           /\ \A e \in entries : e.monitor = k => e \in entries',
         disturbed \ {m} \subseteq disturbed', leaky \ {m} \subseteq leaky',
         m \notin disturbed' => /\ Sole(h, m)
                                /\ request'[h] = Idle => Follows(m)'
                                /\ request'[h] # Idle => Served(request[h])',
         m \notin leaky' => /\ Sole(h, m)
                            /\ request'[h] = Idle => OnlyEntry(m, jobs[m])'
                            /\ request'[h] # Idle => Clear(request[h])'
  PROVE  Tidy'
  <1>1. ASSUME NEW k \in Monitors, k # m
        PROVE  /\ \A g \in Handlers : Asks(g, k)' <=> Asks(g, k)
               /\ \A g \in Handlers : Asks(g, k) => request'[g] = request[g]
               /\ Busy(k)' <=> Busy(k)
    <2>1. /\ \A g \in Handlers : Asks(g, k)' <=> Asks(g, k)
          /\ \A g \in Handlers : Asks(g, k) => request'[g] = request[g]
      BY <1>1 DEF Asks
    <2> QED
      BY <2>1 DEF Busy, Asks
  <1>2. ASSUME Sole(h, m)
        PROVE  /\ AloneOn(m)'
               /\ \A g \in Handlers : Asks(g, m)' => g = h /\ request'[h] # Idle
               /\ request'[h] # Idle => Busy(m)'
    BY <1>2 DEF Sole, AloneOn, Asks, Busy
  <1>3. ASSUME NEW k \in Monitors \ disturbed' PROVE Orderly(k)'
    <2>1. CASE k = m
      BY <1>2, <1>3, <2>1 DEF Orderly
    <2>2. CASE k # m
      <3>1. Orderly(k)
        BY <1>3, <2>2 DEF Tidy
      <3>2. AloneOn(k)'
        BY <1>1, <2>2, <3>1 DEF Orderly, AloneOn, Sole
      <3>3. ASSUME ~Busy(k)' PROVE Follows(k)'
        <4>1. Follows(k)
          BY <1>1, <2>2, <3>1, <3>3 DEF Orderly
        <4> QED
          BY <2>2, <4>1 DEF Follows, EntriesOf, Enabled, Stored
      <3>4. ASSUME NEW g \in Handlers, Asks(g, k)' PROVE Served(request[g])'
        <4>1. Served(request[g]) /\ request'[g] = request[g] /\ request[g].monitor = k
          BY <1>1, <2>2, <3>1, <3>4 DEF Orderly, Asks
        <4> QED
          BY <2>2, <4>1 DEF Served, Stored
      <3> QED
        BY <3>2, <3>3, <3>4 DEF Orderly
    <2> QED
      BY <2>1, <2>2
  <1>4. ASSUME NEW k \in Monitors \ leaky' PROVE Tight(k)'
    <2>1. CASE k = m
      BY <1>2, <1>4, <2>1 DEF Tight
    <2>2. CASE k # m
      <3>1. Tight(k)
        BY <1>4, <2>2 DEF Tidy
      <3>2. AloneOn(k)'
        BY <1>1, <2>2, <3>1 DEF Tight, AloneOn, Sole
      <3>3. ASSUME ~Busy(k)' PROVE OnlyEntry(k, jobs[k])'
        BY <1>1, <2>2, <3>1, <3>3 DEF Tight, OnlyEntry
      <3>4. ASSUME NEW g \in Handlers, Asks(g, k)' PROVE Clear(request[g])'
        <4>1. Clear(request[g]) /\ request'[g] = request[g] /\ request[g].monitor = k
          BY <1>1, <2>2, <3>1, <3>4 DEF Tight, Asks
        <4> QED
          BY <2>2, <4>1 DEF Clear, OnlyEntry, NoEntry
      <3> QED
        BY <3>2, <3>3, <3>4 DEF Tight
    <2> QED
      BY <2>1, <2>2
  <1>5. ASSUME NEW k \in Monitors PROVE Untouched(k)'
    <2>1. CASE k # m
      BY <1>1, <2>1 DEF Tidy, Untouched, NoEntry
    <2> QED
      BY <2>1
  <1> QED
    BY <1>3, <1>4, <1>5 DEF Tidy

(* A request that is accepted is the only one for its monitor, unless that *)
(* disturbs; and it changes what is known of its monitor only.             *)
LEMMA AcceptAlone ==
  ASSUME TypeOK, Tidy, NEW h \in Handlers, NEW m \in Monitors, Accept(h, m)
  PROVE  /\ request[h] = Idle
         /\ disturbed \ {m} \subseteq disturbed' /\ leaky \ {m} \subseteq leaky'
         /\ m \notin disturbed' => Sole(h, m)
         /\ m \notin leaky' => Sole(h, m) /\ OnlyEntry(m, jobs[m])
  BY DEF Accept, Busy, Sole, Asks, Tidy, Tight

(* The request that is being served is the only one for its monitor.       *)
LEMMA ServeAlone ==
  ASSUME TypeOK, Tidy, NEW h \in Handlers, request[h].pc # "idle"
  PROVE  /\ request[h] \in Pending /\ request[h].monitor \in Monitors
         /\ table[request[h].monitor].state # "unborn"
         /\ request[h].monitor \notin disturbed =>
              Sole(h, request[h].monitor) /\ Served(request[h])
         /\ request[h].monitor \notin leaky =>
              Sole(h, request[h].monitor) /\ Clear(request[h])
  <1>1. request[h] # Idle
    BY IdleIsNotPending
  <1>2. request[h] \in Pending /\ request[h].monitor \in Monitors
    BY <1>1 DEF TypeOK, Pending
  <1>3. PICK m \in Monitors : m = request[h].monitor
    BY <1>2
  <1>4. Asks(h, m) /\ Busy(m)
    BY <1>1, <1>3 DEF Asks, Busy
  <1>5. table[m].state # "unborn"
    BY <1>4 DEF Tidy, Untouched
  <1>6. m \notin disturbed => Sole(h, m) /\ Served(request[h])
    BY <1>4 DEF Tidy, Orderly, AloneOn
  <1>7. m \notin leaky => Sole(h, m) /\ Clear(request[h])
    BY <1>4 DEF Tidy, Tight, AloneOn
  <1> QED
    BY <1>2, <1>3, <1>5, <1>6, <1>7

(* Remove leaves a monitor without entries if jobs names all it has, and   *)
(* takes nothing from the others.                                          *)
LEMMA RemoveClears ==
  ASSUME TypeOK, Safe, Tidy, NEW m \in Monitors, Remove(m)
  PROVE  /\ entries' \subseteq entries
         /\ OnlyEntry(m, jobs[m]) => NoEntry(m)'
         /\ \A k \in Monitors : k # m =>
              /\ jobs'[k] = jobs[k]
              /\ \A e \in entries : e.monitor = k => e \in entries'
         /\ jobs'[m] = 0 /\ IdsAreUnique'
  <1>1. /\ entries' \subseteq entries /\ jobs'[m] = 0
        /\ \A k \in Monitors : k # m => jobs'[k] = jobs[k]
        /\ OnlyEntry(m, jobs[m]) => NoEntry(m)'
    BY DEF Remove, OnlyEntry, NoEntry, TypeOK
  <1>2. IdsAreUnique'
    BY <1>1 DEF Tidy, IdsAreUnique
  <1>3. ASSUME NEW e \in entries, e.monitor # m PROVE e \in entries'
    <2>1. CASE e.id = jobs[m]
      <3>1. jobs[m] # 0
        BY <2>1 DEF TypeOK, Entry
      <3>2. PICK f \in entries : f.id = jobs[m] /\ f.monitor = m
        BY <3>1 DEF Safe, JobsAreLive
      <3> QED
        BY <1>3, <2>1, <3>2 DEF Tidy, IdsAreUnique
    <2> QED
      BY <2>1 DEF Remove
  <1> QED
    BY <1>1, <1>2, <1>3

(* One lemma for each operation on a monitor.                              *)
LEMMA TidyCreate ==
  ASSUME TypeOK, Safe, Tidy, NEW h \in Handlers, NEW m \in Monitors,
         NEW setting \in Setting, CreateMonitor(h, m, setting)
  PROVE  Tidy'
  <1>1. entries' = entries /\ jobs' = jobs /\ IdsAreUnique'
    BY DEF CreateMonitor, Tidy, IdsAreUnique
  <1>2. /\ request[h] = Idle
        /\ disturbed \ {m} \subseteq disturbed' /\ leaky \ {m} \subseteq leaky'
        /\ m \notin disturbed' => Sole(h, m)
        /\ m \notin leaky' => Sole(h, m)
    BY AcceptAlone DEF CreateMonitor
  <1>3. /\ \A k \in Monitors : k # m => table'[k] = table[k]
        /\ table'[m] = [state |-> "stored", setting |-> setting]
    BY DEF CreateMonitor, Store, TypeOK
  <1>4. NoEntry(m) /\ jobs[m] = 0
    BY DEF CreateMonitor, Tidy, Untouched
  <1>5. Untouched(m)'
    BY <1>3 DEF Untouched
  <1>6. /\ \A g \in Handlers : g # h => request'[g] = request[g]
        /\ setting.enabled =>
             request'[h] = [pc |-> "addfunc", monitor |-> m, setting |-> setting,
                            entry |-> 0]
        /\ ~setting.enabled => request'[h] = Idle
    BY <1>2 DEF CreateMonitor, Continue, TypeOK
  <1>7. CASE setting.enabled
    <2>1. Served(request[h])' /\ Clear(request[h])'
      BY <1>1, <1>3, <1>4, <1>6, <1>7 DEF Served, Clear, NoEntry, Stored
    <2>2. request'[h] # Idle /\ request'[h].monitor = m
      BY <1>6, <1>7, IdleIsNotPending
    <2> QED
      BY <1>1, <1>2, <1>3, <1>5, <1>6, <2>1, <2>2, TidyStep
  <1>8. CASE ~setting.enabled
    <2>1. Follows(m)' /\ OnlyEntry(m, jobs[m])'
      BY <1>1, <1>3, <1>4, <1>8 DEF Follows, NoEntry, OnlyEntry, Enabled, Stored
    <2> QED
      BY <1>1, <1>2, <1>3, <1>5, <1>6, <1>8, <2>1, TidyStep
  <1> QED
    BY <1>7, <1>8

LEMMA TidyUpdate ==
  ASSUME TypeOK, Safe, Tidy, NEW h \in Handlers, NEW m \in Monitors,
         NEW setting \in Setting, UpdateMonitor(h, m, setting)
  PROVE  Tidy'
  <1>1. entries' = entries /\ jobs' = jobs /\ IdsAreUnique'
    BY DEF UpdateMonitor, Tidy, IdsAreUnique
  <1>2. /\ request[h] = Idle
        /\ disturbed \ {m} \subseteq disturbed' /\ leaky \ {m} \subseteq leaky'
        /\ m \notin disturbed' => Sole(h, m)
        /\ m \notin leaky' => Sole(h, m) /\ OnlyEntry(m, jobs[m])
    BY AcceptAlone DEF UpdateMonitor
  <1>3. /\ \A k \in Monitors : k # m => table'[k] = table[k]
        /\ table'[m] = [state |-> "stored", setting |-> setting]
    BY DEF UpdateMonitor, Store, TypeOK
  <1>4. Untouched(m)'
    BY <1>3 DEF Untouched
  <1>5. /\ \A g \in Handlers : g # h => request'[g] = request[g]
        /\ request'[h] = [pc |-> "remove", monitor |-> m, setting |-> setting,
                          entry |-> 0]
    BY <1>2 DEF UpdateMonitor, Continue, TypeOK
  <1>6. Served(request[h])'
    BY <1>3, <1>5 DEF Served, Stored
  <1>7. m \notin leaky' => Clear(request[h])'
    BY <1>1, <1>2, <1>5 DEF Clear, OnlyEntry
  <1>8. request'[h] # Idle /\ request'[h].monitor = m
    BY <1>5, IdleIsNotPending
  <1> QED
    BY <1>1, <1>2, <1>3, <1>4, <1>5, <1>6, <1>7, <1>8, TidyStep

LEMMA TidyDelete ==
  ASSUME TypeOK, Safe, Tidy, NEW h \in Handlers, NEW m \in Monitors,
         DeleteMonitor(h, m)
  PROVE  Tidy'
  <1>1. Remove(m) /\ table' = table /\ table[m].state # "unborn"
    BY DEF DeleteMonitor
  <1>2. /\ entries' \subseteq entries /\ IdsAreUnique'
        /\ OnlyEntry(m, jobs[m]) => NoEntry(m)'
        /\ \A k \in Monitors : k # m =>
             /\ jobs'[k] = jobs[k]
             /\ \A e \in entries : e.monitor = k => e \in entries'
    BY <1>1, RemoveClears
  <1>3. /\ request[h] = Idle
        /\ disturbed \ {m} \subseteq disturbed' /\ leaky \ {m} \subseteq leaky'
        /\ m \notin disturbed' => Sole(h, m)
        /\ m \notin leaky' => Sole(h, m) /\ OnlyEntry(m, jobs[m])
    BY AcceptAlone DEF DeleteMonitor
  <1>4. /\ \A g \in Handlers : g # h => request'[g] = request[g]
        /\ request'[h] = [pc |-> "delete", monitor |-> m, setting |-> NoSetting,
                          entry |-> 0]
    BY <1>3 DEF DeleteMonitor, Continue, TypeOK
  <1>5. Untouched(m)'
    BY <1>1 DEF Untouched
  <1>6. Served(request[h])'
    BY <1>4 DEF Served
  <1>7. m \notin leaky' => Clear(request[h])'
    BY <1>2, <1>3, <1>4 DEF Clear, NoEntry
  <1>8. request'[h] # Idle /\ request'[h].monitor = m
    BY <1>4, IdleIsNotPending
  <1> QED
    BY <1>1, <1>2, <1>3, <1>4, <1>5, <1>6, <1>7, <1>8, TidyStep

LEMMA TidyDeleteRow ==
  ASSUME TypeOK, Safe, Tidy, NEW h \in Handlers, DeleteRow(h)
  PROVE  Tidy'
  <1>1. /\ entries' = entries /\ jobs' = jobs /\ IdsAreUnique' /\ leaky' = leaky
        /\ request[h].pc = "delete" /\ request' = [request EXCEPT ![h] = Idle]
    BY DEF DeleteRow, Done, Tidy, IdsAreUnique
  <1>2. /\ request[h].monitor \in Monitors /\ table[request[h].monitor].state # "unborn"
        /\ request[h].monitor \notin disturbed => Sole(h, request[h].monitor)
        /\ request[h].monitor \notin leaky =>
             Sole(h, request[h].monitor) /\ Clear(request[h])
    BY <1>1, ServeAlone
  <1>3. PICK m \in Monitors : m = request[h].monitor
    BY <1>2
  <1>4. /\ request'[h] = Idle
        /\ \A g \in Handlers : g # h => request'[g] = request[g]
    BY <1>1 DEF TypeOK
  <1>5. \/ /\ table' = [table EXCEPT ![m] = Blank("gone")] /\ disturbed' = disturbed
        \/ /\ table' = table /\ disturbed' = disturbed \cup {m}
    BY <1>3 DEF DeleteRow
  <1>6. /\ \A k \in Monitors : k # m => table'[k] = table[k]
        /\ table'[m].state # "unborn"
        /\ m \notin disturbed' => m \notin disturbed /\ table'[m].state = "gone"
        /\ disturbed \subseteq disturbed'
    BY <1>2, <1>3, <1>5 DEF TypeOK, Blank
  <1>7. Untouched(m)'
    BY <1>6 DEF Untouched
  <1>8. m \notin disturbed' => Follows(m)'
    BY <1>6 DEF Follows, Enabled, Stored
  <1>9. m \notin leaky => OnlyEntry(m, jobs[m])'
    BY <1>1, <1>2, <1>3 DEF Clear, NoEntry, OnlyEntry
  <1> QED
    BY <1>1, <1>2, <1>3, <1>4, <1>6, <1>7, <1>8, <1>9, TidyStep

LEMMA TidyRemove ==
  ASSUME TypeOK, Safe, Tidy, NEW h \in Handlers, UpdateRemove(h)
  PROVE  Tidy'
  <1>1. /\ request[h].pc = "remove" /\ Remove(request[h].monitor)
        /\ UNCHANGED <<table, disturbed, leaky>>
    BY DEF UpdateRemove
  <1>2. /\ request[h] \in Pending /\ request[h].monitor \in Monitors
        /\ table[request[h].monitor].state # "unborn"
        /\ request[h].monitor \notin disturbed =>
             Sole(h, request[h].monitor) /\ Served(request[h])
        /\ request[h].monitor \notin leaky =>
             Sole(h, request[h].monitor) /\ Clear(request[h])
    BY <1>1, ServeAlone
  <1>3. PICK m \in Monitors : m = request[h].monitor
    BY <1>2
  <1>4. /\ entries' \subseteq entries /\ jobs'[m] = 0 /\ IdsAreUnique'
        /\ OnlyEntry(m, jobs[m]) => NoEntry(m)'
        /\ \A k \in Monitors : k # m =>
             /\ jobs'[k] = jobs[k]
             /\ \A e \in entries : e.monitor = k => e \in entries'
    BY <1>1, <1>3, RemoveClears
  <1>5. m \notin leaky => NoEntry(m)'
    BY <1>1, <1>2, <1>3, <1>4 DEF Clear
  <1>6. /\ \A g \in Handlers : g # h => request'[g] = request[g]
        /\ request[h].setting.enabled =>
             request'[h] = [pc |-> "addfunc", monitor |-> m,
                            setting |-> request[h].setting, entry |-> 0]
        /\ ~request[h].setting.enabled => request'[h] = Idle
    BY <1>3 DEF UpdateRemove, Continue, Done, TypeOK
  <1>7. m \notin disturbed => (Stored(m) => table[m].setting = request[h].setting)
    BY <1>1, <1>2, <1>3 DEF Served
  <1>8. Untouched(m)'
    BY <1>1, <1>2, <1>3 DEF Untouched
  <1>9. CASE request[h].setting.enabled
    <2>1. m \notin disturbed => Served(request[h])'
      BY <1>1, <1>6, <1>7, <1>9 DEF Served, Stored
    <2>2. m \notin leaky => Clear(request[h])'
      BY <1>5, <1>6, <1>9 DEF Clear, NoEntry
    <2>3. request'[h] # Idle /\ request'[h].monitor = m
      BY <1>6, <1>9, IdleIsNotPending
    <2> QED
      BY <1>1, <1>2, <1>3, <1>4, <1>6, <1>8, <2>1, <2>2, <2>3, TidyStep
  <1>10. CASE ~request[h].setting.enabled
    <2>1. m \notin disturbed => Follows(m)'
      BY <1>1, <1>4, <1>7, <1>10 DEF Follows, Enabled, Stored
    <2>2. m \notin leaky => OnlyEntry(m, jobs[m])'
      BY <1>5 DEF OnlyEntry, NoEntry
    <2> QED
      BY <1>1, <1>2, <1>3, <1>4, <1>6, <1>8, <1>10, <2>1, <2>2, TidyStep
  <1> QED
    BY <1>9, <1>10

LEMMA TidyAddFunc ==
  ASSUME TypeOK, Safe, Tidy, NEW h \in Handlers, AddFunc(h)
  PROVE  Tidy'
  <1>1. request[h].pc = "addfunc" /\ UNCHANGED <<table, jobs, disturbed, leaky>>
    BY DEF AddFunc
  <1>2. /\ request[h] \in Pending /\ request[h].monitor \in Monitors
        /\ table[request[h].monitor].state # "unborn"
        /\ request[h].monitor \notin disturbed =>
             Sole(h, request[h].monitor) /\ Served(request[h])
        /\ request[h].monitor \notin leaky =>
             Sole(h, request[h].monitor) /\ Clear(request[h])
    BY <1>1, ServeAlone
  <1>3. PICK m \in Monitors : m = request[h].monitor
    BY <1>2
  <1>4. PICK new : new = [id |-> nextId, monitor |-> m,
                          interval |-> request[h].setting.interval]
    OBVIOUS
  <1>5. /\ new.id = nextId /\ new.monitor = m
        /\ new.interval = request[h].setting.interval
        /\ entries' = entries \cup {new}
    BY <1>3, <1>4 DEF AddFunc
  <1>6. /\ \A e \in entries : e.id \in Nat /\ e.id < nextId
        /\ nextId \in Nat \ {0}
    BY DEF Safe, IdsAreOld, TypeOK, Entry
  <1>7. IdsAreUnique'
    <2>1. \A e \in entries : e.id # new.id
      BY <1>5, <1>6
    <2> QED
      BY <1>5, <2>1 DEF Tidy, IdsAreUnique
  <1>8. /\ \A g \in Handlers : g # h => request'[g] = request[g]
        /\ request'[h] = [pc |-> "setjob", monitor |-> m,
                          setting |-> request[h].setting, entry |-> nextId]
    BY <1>3 DEF AddFunc, Continue, TypeOK
  <1>9. Untouched(m)'
    BY <1>1, <1>2, <1>3 DEF Untouched
  <1>10. m \notin disturbed => Served(request[h])'
    BY <1>1, <1>2, <1>3, <1>5, <1>8 DEF Served, Stored
  <1>11. m \notin leaky => Clear(request[h])'
    BY <1>1, <1>2, <1>3, <1>5, <1>8 DEF Clear, NoEntry, OnlyEntry
  <1>12. request'[h] # Idle /\ request'[h].monitor = m
    BY <1>8, IdleIsNotPending
  <1>13. \A k \in Monitors : k # m =>
           /\ \A e \in entries' : e.monitor = k => e \in entries
           /\ \A e \in entries : e.monitor = k => e \in entries'
    BY <1>5
  <1> QED
    BY <1>1, <1>2, <1>3, <1>7, <1>8, <1>9, <1>10, <1>11, <1>12, <1>13, TidyStep

LEMMA TidySetJob ==
  ASSUME TypeOK, Safe, Tidy, NEW h \in Handlers, SetJob(h)
  PROVE  Tidy'
  <1>1. request[h].pc = "setjob" /\ UNCHANGED <<table, entries, disturbed, leaky>>
    BY DEF SetJob
  <1>2. /\ request[h] \in Pending /\ request[h].monitor \in Monitors
        /\ table[request[h].monitor].state # "unborn"
        /\ request[h].monitor \notin disturbed =>
             Sole(h, request[h].monitor) /\ Served(request[h])
        /\ request[h].monitor \notin leaky =>
             Sole(h, request[h].monitor) /\ Clear(request[h])
    BY <1>1, ServeAlone
  <1>3. PICK m \in Monitors : m = request[h].monitor
    BY <1>2
  <1>4. IdsAreUnique'
    BY <1>1 DEF Tidy, IdsAreUnique
  <1>5. /\ jobs'[m] = request[h].entry
        /\ \A k \in Monitors : k # m => jobs'[k] = jobs[k]
        /\ request'[h] = Idle
        /\ \A g \in Handlers : g # h => request'[g] = request[g]
    BY <1>3 DEF SetJob, Done, TypeOK
  <1>6. Untouched(m)'
    BY <1>1, <1>2, <1>3 DEF Untouched
  <1>7. m \notin disturbed => Follows(m)'
    BY <1>1, <1>2, <1>3, <1>5 DEF Served, Follows, EntriesOf, Enabled, Stored
  <1>8. m \notin leaky => OnlyEntry(m, jobs[m])'
    BY <1>1, <1>2, <1>3, <1>5 DEF Clear, OnlyEntry
  <1> QED
    BY <1>1, <1>2, <1>3, <1>4, <1>5, <1>6, <1>7, <1>8, TidyStep

(* The rest of the program: users go, checks are made, the process starts. *)
LEMMA TidyOthers ==
  ASSUME TypeOK, Tidy, UNCHANGED <<entries, jobs, request, disturbed, leaky>>,
         \A m \in Monitors : \/ table'[m] = table[m]
                             \/ table[m].state = "stored" /\ table'[m].state = "gone"
  PROVE  Tidy'
  <1>1. IdsAreUnique'
    BY DEF Tidy, IdsAreUnique
  <1>2. /\ \A h \in Handlers, m \in Monitors : Asks(h, m)' <=> Asks(h, m)
        /\ \A m \in Monitors : Busy(m)' <=> Busy(m)
    BY DEF Asks, Busy
  <1>3. \A m \in Monitors : AloneOn(m) => AloneOn(m)'
    BY <1>2 DEF AloneOn, Sole
  <1>4. \A m \in Monitors : Untouched(m)'
    BY <1>2 DEF Tidy, Untouched, NoEntry
  <1>5. ASSUME NEW m \in Monitors \ disturbed PROVE Orderly(m)'
    <2>1. Orderly(m)
      BY DEF Tidy
    <2>2. Follows(m) => Follows(m)'
      BY DEF Follows, EntriesOf, Enabled, Stored
    <2>3. ASSUME NEW h \in Handlers, Asks(h, m)
          PROVE  Served(request[h])'
      <3>1. Served(request[h]) /\ request[h].monitor = m
        BY <2>1, <2>3 DEF Orderly, Asks
      <3> QED
        BY <3>1 DEF Served, Stored
    <2> QED
      BY <1>2, <1>3, <2>1, <2>2, <2>3 DEF Orderly
  <1>6. ASSUME NEW m \in Monitors \ leaky PROVE Tight(m)'
    <2>1. Tight(m)
      BY DEF Tidy
    <2> QED
      BY <1>2, <1>3, <2>1 DEF Tight, OnlyEntry, NoEntry, Clear
  <1> QED
    BY <1>1, <1>4, <1>5, <1>6 DEF Tidy

LEMMA TidyRestart ==
  ASSUME TypeOK, Restart
  PROVE  Tidy'
  <1>1. /\ \A h \in Handlers, m \in Monitors : ~Asks(h, m)'
        /\ \A m \in Monitors : ~Busy(m)' /\ AloneOn(m)'
    BY DEF Restart, Asks, Busy, AloneOn
  <1>2. table' = table
    BY DEF Restart
  <1>3. ASSUME entries' = {}, jobs' = [m \in Monitors |-> 0], disturbed' = Monitors
        PROVE  Tidy'
    BY <1>1, <1>3 DEF Tidy, IdsAreUnique, Untouched, NoEntry, Tight, OnlyEntry
  <1>4. ASSUME NEW id \in [FindAllEnabled -> 1..Cardinality(Monitors)],
               \A m, k \in DOMAIN id : id[m] = id[k] => m = k,
               entries' = {[id |-> id[m], monitor |-> m,
                            interval |-> table[m].setting.interval] : m \in DOMAIN id},
               jobs' = [m \in Monitors |-> IF m \in DOMAIN id THEN id[m] ELSE 0]
        PROVE  Tidy'
    <2>1. \A e \in entries' : /\ e.monitor \in FindAllEnabled
                              /\ e.id = id[e.monitor]
      BY <1>4
    <2>2. \A e, f \in entries' : e.id = f.id => e = f
      BY <1>4
    <2>3. IdsAreUnique'
      BY <2>2 DEF IdsAreUnique
    <2>4. ASSUME NEW m \in Monitors
          PROVE  Untouched(m)' /\ Follows(m)' /\ OnlyEntry(m, jobs[m])'
      <3>1. CASE m \in FindAllEnabled
        <4> DEFINE e == [id |-> id[m], monitor |-> m,
                         interval |-> table[m].setting.interval]
        <4>1. jobs'[m] = id[m] /\ e \in entries' /\ e.monitor = m /\ e.id = id[m]
              /\ e.interval = table[m].setting.interval
          BY <1>4, <3>1
        <4> HIDE DEF e
        <4>2. Follows(m)'
          BY <1>2, <3>1, <4>1 DEF Follows, EntriesOf, Enabled, Stored, FindAllEnabled
        <4> QED
          BY <1>2, <2>1, <3>1, <4>1, <4>2
          DEF Untouched, OnlyEntry, Enabled, Stored, FindAllEnabled
      <3>2. CASE m \notin FindAllEnabled
        <4>1. jobs'[m] = 0 /\ \A e \in entries' : e.monitor # m
          BY <1>4, <2>1, <3>2
        <4> QED
          BY <1>1, <1>2, <3>2, <4>1
          DEF Untouched, NoEntry, Follows, OnlyEntry, Enabled, Stored, FindAllEnabled
      <3> QED
        BY <3>1, <3>2
    <2> QED
      BY <1>1, <2>3, <2>4 DEF Tidy, Orderly, Tight
  <1> QED
    BY <1>3, <1>4 DEF Restart

LEMMA TidyNext == TypeOK /\ Safe /\ Tidy /\ [Next]_vars => Tidy'
  <1> SUFFICES ASSUME TypeOK, Safe, Tidy, [Next]_vars PROVE Tidy'
    OBVIOUS
  <1>1. ASSUME NEW h \in Handlers, NEW m \in Monitors, NEW setting \in Setting,
               CreateMonitor(h, m, setting) \/ UpdateMonitor(h, m, setting)
        PROVE  Tidy'
    BY <1>1, TidyCreate, TidyUpdate
  <1>2. ASSUME NEW h \in Handlers, NEW m \in Monitors, DeleteMonitor(h, m)
        PROVE  Tidy'
    BY <1>2, TidyDelete
  <1>3. ASSUME NEW h \in Handlers, Serve(h)
        PROVE  Tidy'
    BY <1>3, TidyDeleteRow, TidyRemove, TidyAddFunc, TidySetJob DEF Serve
  <1>4. ASSUME NEW owned \in SUBSET Monitors, DeleteUser(owned)
        PROVE  Tidy'
    <2>1. \A m \in Monitors : \/ table'[m] = table[m]
                              \/ table[m].state = "stored" /\ table'[m].state = "gone"
      BY <1>4 DEF DeleteUser, Stored, Blank
    <2> QED
      BY <1>4, <2>1, TidyOthers DEF DeleteUser
  <1>5. ASSUME NEW m \in Monitors, Fire(m)
        PROVE  Tidy'
    BY <1>5, TidyOthers DEF Fire
  <1>6. CASE Restart
    BY <1>6, TidyRestart
  <1>7. CASE UNCHANGED vars
    BY <1>7, TidyOthers DEF vars
  <1> QED
    BY <1>1, <1>2, <1>3, <1>4, <1>5, <1>6, <1>7 DEF Next, Receive

(* Entries of one monitor under one id are one.                            *)
LEMMA OnlyIsInReach ==
  ASSUME Tidy, NEW m \in Monitors, OnlyEntry(m, jobs[m])
  PROVE  InReach(m)
  <1> SUFFICES ASSUME NEW e \in EntriesOf(m)
               PROVE  EntriesOf(m) = {e} /\ e.id = jobs[m]
    BY DEF InReach
  <1>1. \A f \in EntriesOf(m) : f.id = jobs[m] /\ f \in entries
    BY DEF EntriesOf, OnlyEntry
  <1> QED
    BY <1>1 DEF Tidy, IdsAreUnique

(* Creating, changing and deleting monitors one after the other, and those *)
(* of different monitors in any interleaving, with users deleted at any    *)
(* point: between its requests cron runs an enabled monitor once, at the   *)
(* interval of the table, and one stored and disabled not at all.  After   *)
(* requests that overlapped or failed the next one that meets no other     *)
(* brings that about, but for an entry out of reach, which only requests   *)
(* that overlapped can leave.                                              *)
THEOREM ScheduleFollowsTable == Spec => []ScheduleMatchesTable
  <1>1. Init => Tidy
    BY DEF Init, Tidy, IdsAreUnique, Orderly, Tight, Untouched, NoEntry, AloneOn, Sole,
           Asks, Busy, Follows, OnlyEntry, Enabled, Stored, Blank
  <1>2. TypeOK /\ Safe /\ Tidy => ScheduleMatchesTable
    BY OnlyIsInReach DEF ScheduleMatchesTable, Tidy, Orderly, Tight
  <1> QED
    BY <1>1, <1>2, InitSafe, TypeStep, SafeStep, TidyNext, PTL DEF Spec

=============================================================================
