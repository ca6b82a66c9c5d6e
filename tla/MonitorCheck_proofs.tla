------------------------ MODULE MonitorCheck_proofs ------------------------
(***************************************************************************)
(* Theorems about MonitorCheck, for every set of monitors and slots and    *)
(* every value of the bounds.                                              *)
(***************************************************************************)
EXTENDS MonitorCheck, SequenceTheorems, FiniteSetTheorems, TLAPS

(* An incident that is given an end is an incident.                        *)
LEMMA IncidentUpdate ==
  ASSUME NEW inc \in Incident, NEW t \in Time
  PROVE  [inc EXCEPT !.resolvedAt = t] \in Incident
BY DEF Incident

(* A resolved log is a log of the same length.                             *)
LEMMA ResolvedType ==
  ASSUME NEW log \in Seq(Incident), NEW t \in Time
  PROVE  /\ Resolved(log, t) \in Seq(Incident)
         /\ Len(Resolved(log, t)) = Len(log)
         /\ DOMAIN Resolved(log, t) = DOMAIN log
<1> DEFINE new == [i \in 1..Len(log) |->
                     IF IsOpen(log[i]) THEN [log[i] EXCEPT !.resolvedAt = t]
                                       ELSE log[i]]
<1>1. Resolved(log, t) = new
  BY DEF Resolved
<1>2. \A i \in 1..Len(log) : new[i] \in Incident
  <2> TAKE i \in 1..Len(log)
  <2>1. log[i] \in Incident
    OBVIOUS
  <2> QED BY <2>1, IncidentUpdate
<1>3. new \in Seq(Incident) /\ Len(new) = Len(log)
  BY <1>2, IsASeq
<1> QED BY <1>1, <1>3

(* What the steps of a run make of its record is again a run.              *)
LEMMA IdleType == Idle \in Run
  BY CheckAssumption DEF Idle, Run, Label, Status, Result, Time

LEMMA RunUpdate ==
  ASSUME NEW r \in Run, NEW l \in Label
  PROVE  /\ [r EXCEPT !.pc = l] \in Run
         /\ \A t \in Time : [r EXCEPT !.pc = l, !.checkedAt = t] \in Run
         /\ r.left > 0 => [r EXCEPT !.pc = l, !.left = @ - 1] \in Run
         /\ \A v \in Result :
              [r EXCEPT !.pc = l, !.left = 0, !.result = v] \in Run
         /\ [r EXCEPT !.pc = l, !.result = "maintenance"] \in Run
<1>1. r.left > 0 => r.left - 1 \in Nat
  BY DEF Run
<1> QED BY <1>1 DEF Run

(* A status written to a row leaves a row.                                 *)
LEMMA RowUpdate ==
  ASSUME NEW r \in Row, NEW v \in Status
  PROVE  [r EXCEPT !.lastStatus = v] \in Row
BY DEF Row

(***************************************************************************)
(* Type correctness.  One step per action; the steps that touch no typed   *)
(* record are immediate.                                                   *)
(***************************************************************************)
THEOREM TypeCorrect == Spec => []TypeOK
<1>1. Init => TypeOK
  <2> SUFFICES ASSUME Init PROVE TypeOK OBVIOUS
  <2>1. row \in [Monitors -> Row]
    BY DEF Init, Row, Status, Result
  <2>2. incidents \in [Monitors -> Seq(Incident)]
    BY DEF Init
  <2>3. run \in [Monitors -> [Slots -> Run]]
    BY IdleType DEF Init
  <2> QED
    BY <2>1, <2>2, <2>3, CheckAssumption
    DEF Init, TypeOK, Result, Status, Time
<1>2. TypeOK /\ [Next]_vars => TypeOK'
  <2> SUFFICES ASSUME TypeOK, [Next]_vars PROVE TypeOK' OBVIOUS
  <2> USE CheckAssumption
  <2>1. ASSUME NEW m \in Monitors, NEW s \in Slots, NEW r \in Run,
               Becomes(m, s, r)
        PROVE  run' \in [Monitors -> [Slots -> Run]]
    BY <2>1 DEF Becomes, TypeOK
  <2>0. \A m \in Monitors : row[m] \in Row /\ \A s \in Slots : run[m][s] \in Run
    BY DEF TypeOK
  <2>2. ASSUME NEW m \in Monitors, NEW s \in Slots, LoadMonitor(m, s)
        PROVE  TypeOK'
    <3>1. [pc |-> "check", prev |-> row[m].lastStatus, left |-> Retries[m],
           checkedAt |-> 0, result |-> "down"] \in Run
      BY DEF TypeOK, Row, Run, Label, Status, Result, Time
    <3> QED
      BY <2>1, <2>2, <3>1 DEF LoadMonitor, TypeOK, tables, outside, world
  <2>3. ASSUME NEW m \in Monitors, NEW s \in Slots, BeginCheck(m, s)
        PROVE  TypeOK'
    <3>1. [run[m][s] EXCEPT !.pc = "probe", !.checkedAt = clock] \in Run
      BY <2>0, RunUpdate DEF TypeOK, Label
    <3> QED
      BY <2>1, <2>3, <3>1 DEF BeginCheck, TypeOK, tables, outside, world
  <2>4. ASSUME NEW m \in Monitors, NEW s \in Slots, EndCheck(m, s)
        PROVE  TypeOK'
    <3>1. run[m][s].left > 0 =>
            [run[m][s] EXCEPT !.pc = "check", !.left = @ - 1] \in Run
      BY <2>0, RunUpdate DEF Label
    <3>2. [run[m][s] EXCEPT !.pc = "save", !.left = 0, !.result = target[m]]
            \in Run
      BY <2>0, RunUpdate DEF TypeOK, Label
    <3> QED
      BY <2>1, <2>4, <3>1, <3>2 DEF EndCheck, Retried, TypeOK, tables, outside, world
  <2>5. ASSUME NEW m \in Monitors, NEW s \in Slots, NEW l \in Label
        PROVE  [run[m][s] EXCEPT !.pc = l] \in Run
    BY <2>0, RunUpdate
  <2>6. Idle \in Run
    BY IdleType
  <2>7. (Succeeds \/ Fails) => faults' \in 0..MaxFaults
    BY DEF Succeeds, Fails, TypeOK
  <2>8. ASSUME NEW m \in Monitors, NEW s \in Slots, SaveHeartbeat(m, s)
        PROVE  TypeOK'
    BY <2>1, <2>5, <2>6, <2>7, <2>8
    DEF SaveHeartbeat, Goto, Return, Label, TypeOK, tables, outside, world
  <2>9. ASSUME NEW m \in Monitors, NEW s \in Slots, QueryMaintenance(m, s)
        PROVE  TypeOK'
    BY <2>1, <2>5, <2>7, <2>9
    DEF QueryMaintenance, Goto, Label, TypeOK, tables, outside, world
  <2>10. ASSUME NEW m \in Monitors, NEW status \in Status,
                UpdateLastStatus(m, status)
         PROVE  row' \in [Monitors -> Row] /\ faults' \in 0..MaxFaults
    <3>1. [row[m] EXCEPT !.lastStatus = status] \in Row
      BY <2>0, RowUpdate
    <3>2. row' = row \/ row' = [row EXCEPT ![m] = [@ EXCEPT !.lastStatus = status]]
      BY <2>10 DEF UpdateLastStatus
    <3>3. row' \in [Monitors -> Row]
      BY <3>1, <3>2 DEF TypeOK
    <3> QED BY <2>7, <2>10, <3>3 DEF UpdateLastStatus
  <2>11. ASSUME NEW m \in Monitors, NEW s \in Slots, Suppress(m, s)
         PROVE  TypeOK'
    <3>1. [run[m][s] EXCEPT !.pc = "broadcast", !.result = "maintenance"] \in Run
      BY <2>0, RunUpdate DEF Label
    <3> QED
      BY <2>1, <2>10, <2>11, <3>1
      DEF Suppress, Status, TypeOK, outside, world
  <2>12. ASSUME NEW m \in Monitors, NEW s \in Slots, WriteStatus(m, s)
         PROVE  TypeOK'
    <3>1. run[m][s].result \in Status
      BY DEF TypeOK, Run, Status
    <3>2. Branch(run[m][s]) \in Label
      BY DEF Branch, Label
    <3> QED
      BY <2>1, <2>5, <2>10, <2>12, <3>1, <3>2
      DEF WriteStatus, Goto, TypeOK, outside, world
  <2>13. ASSUME NEW m \in Monitors, NEW s \in Slots, OpenIncident(m, s)
         PROVE  TypeOK'
    <3>1. [startedAt |-> run[m][s].checkedAt, resolvedAt |-> None] \in Incident
      BY DEF TypeOK, Run, Incident
    <3>2. Append(incidents[m], [startedAt  |-> run[m][s].checkedAt,
                                resolvedAt |-> None]) \in Seq(Incident)
      BY <3>1 DEF TypeOK
    <3>3. incidents' \in [Monitors -> Seq(Incident)]
      BY <2>13, <3>2 DEF OpenIncident, TypeOK
    <3> QED
      BY <2>1, <2>5, <2>7, <2>13, <3>3
      DEF OpenIncident, Goto, Label, TypeOK, outside, world
  <2>14. ASSUME NEW m \in Monitors, NEW s \in Slots, ResolveIncident(m, s)
         PROVE  TypeOK'
    <3>1. Resolved(incidents[m], run[m][s].checkedAt) \in Seq(Incident)
      BY ResolvedType DEF TypeOK, Run
    <3>2. incidents' \in [Monitors -> Seq(Incident)]
      BY <2>14, <3>1 DEF ResolveIncident, TypeOK
    <3> QED
      BY <2>1, <2>5, <2>7, <2>14, <3>2
      DEF ResolveIncident, Goto, Label, TypeOK, outside, world
  <2>15. ASSUME NEW m \in Monitors, NEW s \in Slots, SpawnNotify(m, s)
         PROVE  TypeOK'
    <3>1. run[m][s].result \in Result \cup {"none", "maintenance"}
      BY <2>0 DEF Run
    <3> QED
      BY <2>1, <2>5, <2>15, <3>1
      DEF SpawnNotify, Goto, Label, TypeOK, tables, world
  <2>16. ASSUME NEW m \in Monitors, NEW s \in Slots, BroadcastStatus(m, s)
         PROVE  TypeOK'
    BY <2>1, <2>6, <2>16
    DEF BroadcastStatus, Return, TypeOK, Run, Status, tables, world
  <2>17. ASSUME Handlers PROVE TypeOK'
    <3>1. ASSUME NEW m \in Monitors, UpdateMonitor(m) PROVE TypeOK'
      BY <3>1 DEF UpdateMonitor, TypeOK, Row, outside, world
    <3>2. ASSUME NEW m \in Monitors, DeleteMonitor(m) PROVE TypeOK'
      BY <3>2 DEF DeleteMonitor, TypeOK, Row, Status, outside, world
    <3>3. CreateWindow => TypeOK'
      BY DEF CreateWindow, TypeOK, outside, world
    <3>4. DeleteWindow \/ DeleteExpiredWindows => TypeOK'
      BY DEF DeleteWindow, DeleteExpiredWindows, TypeOK, outside, world
    <3> QED BY <2>17, <3>1, <3>2, <3>3, <3>4 DEF Handlers
  <2>18. ASSUME Environment PROVE TypeOK'
    <3>1. Tick => TypeOK'
      BY DEF Tick, TypeOK, Time, tables, outside
    <3>2. ASSUME NEW m \in Monitors, Flip(m) PROVE TypeOK'
      BY <3>2 DEF Flip, TypeOK, Result, tables, outside
    <3>3. Restart => TypeOK'
      BY <2>6 DEF Restart, TypeOK, tables, outside
    <3> QED BY <2>18, <3>1, <3>2, <3>3 DEF Environment
  <2>19. CASE UNCHANGED vars
    BY <2>19 DEF vars, TypeOK
  <2> QED
    BY <2>2, <2>3, <2>4, <2>8, <2>9, <2>11, <2>12, <2>13, <2>14, <2>15, <2>16,
       <2>17, <2>18, <2>19
    DEF Next, RunCheck, Continue
<1> QED BY <1>1, <1>2, PTL DEF Spec

(***************************************************************************)
(* The incidents table.  Of all the steps of a run, of the handlers and of *)
(* the environment only three change it.                                   *)
(***************************************************************************)
Opened(m) ==
  /\ Insertable(m)
  /\ \E t \in Time :
       incidents' = [incidents EXCEPT ![m] =
                       Append(@, [startedAt |-> t, resolvedAt |-> None])]

Closed(m) ==
  \E t \in Time : incidents' = [incidents EXCEPT ![m] = Resolved(@, t)]

Dropped(m) == incidents' = [incidents EXCEPT ![m] = << >>]

LEMMA IncidentsKept ==
  ASSUME NEW m \in Monitors, NEW s \in Slots,
         LoadMonitor(m, s) \/ Continue(m, s),
         ~OpenIncident(m, s), ~ResolveIncident(m, s)
  PROVE  incidents' = incidents
BY DEF LoadMonitor, Continue, BeginCheck, EndCheck, SaveHeartbeat,
       QueryMaintenance, Suppress, WriteStatus, SpawnNotify, BroadcastStatus,
       tables

LEMMA IncidentSteps ==
  ASSUME TypeOK, [Next]_vars
  PROVE  \/ incidents' = incidents
         \/ \E m \in Monitors : Opened(m) \/ Closed(m) \/ Dropped(m)
<1>1. ASSUME NEW m \in Monitors, NEW s \in Slots, OpenIncident(m, s)
      PROVE  incidents' = incidents \/ Opened(m)
  <2>1. run[m][s].checkedAt \in Time
    BY DEF TypeOK, Run
  <2> QED BY <1>1, <2>1 DEF OpenIncident, Opened
<1>2. ASSUME NEW m \in Monitors, NEW s \in Slots, ResolveIncident(m, s)
      PROVE  incidents' = incidents \/ Closed(m)
  <2>1. run[m][s].checkedAt \in Time
    BY DEF TypeOK, Run
  <2> QED BY <1>2, <2>1 DEF ResolveIncident, Closed
<1>3. ASSUME NEW m \in Monitors, NEW s \in Slots,
             LoadMonitor(m, s) \/ Continue(m, s),
             ~OpenIncident(m, s), ~ResolveIncident(m, s)
      PROVE  incidents' = incidents
  BY <1>3, IncidentsKept
<1>4. Handlers => \/ incidents' = incidents
                  \/ \E m \in Monitors : Dropped(m)
  BY DEF Handlers, UpdateMonitor, DeleteMonitor, CreateWindow, DeleteWindow,
         DeleteExpiredWindows, Dropped
<1>5. Environment => incidents' = incidents
  BY DEF Environment, Tick, Flip, Restart, tables
<1>6. UNCHANGED vars => incidents' = incidents
  BY DEF vars
<1> QED
  BY <1>1, <1>2, <1>3, <1>4, <1>5, <1>6 DEF Next, RunCheck, Continue

(* Nothing in a resolved log is open.                                      *)
LEMMA ResolvedCloses ==
  ASSUME NEW log \in Seq(Incident), NEW t \in Time
  PROVE  \A i \in DOMAIN Resolved(log, t) : ~IsOpen(Resolved(log, t)[i])
<1>1. t # None
  BY CheckAssumption DEF Time
<1>2. ASSUME NEW i \in DOMAIN log
      PROVE  ~IsOpen(Resolved(log, t)[i])
  <2>1. log[i] \in Incident
    OBVIOUS
  <2>2. IsOpen(log[i]) => [log[i] EXCEPT !.resolvedAt = t].resolvedAt = t
    BY <2>1 DEF Incident
  <2> QED BY <1>1, <2>2 DEF Resolved, IsOpen
<1> QED BY <1>2, ResolvedType

(* At most one incident of a monitor is open, and it is its newest: the    *)
(* unique index refuses a second one, whichever run asks for it, and       *)
(* Resolve closes the one there is.                                        *)
THEOREM OneOpen == Spec => []OneOpenIncident
<1>1. Init => OneOpenIncident
  BY DEF Init, OneOpenIncident
<1>2. TypeOK /\ OneOpenIncident /\ [Next]_vars => OneOpenIncident'
  <2> SUFFICES ASSUME TypeOK, OneOpenIncident, [Next]_vars
               PROVE  OneOpenIncident'
    OBVIOUS
  <2>1. CASE incidents' = incidents
    BY <2>1 DEF OneOpenIncident
  <2>2. ASSUME NEW m \in Monitors, Opened(m) \/ Closed(m) \/ Dropped(m),
               NEW k \in Monitors, NEW i \in DOMAIN incidents'[k],
               IsOpen(incidents'[k][i])
        PROVE  i = Len(incidents'[k])
    <3>1. incidents[m] \in Seq(Incident)
      BY DEF TypeOK
    <3>2. CASE k # m
      BY <2>2, <3>2 DEF Opened, Closed, Dropped, TypeOK, OneOpenIncident
    <3>3. CASE k = m /\ Opened(m)
      <4>1. PICK t \in Time : incidents'[m] =
              Append(incidents[m], [startedAt |-> t, resolvedAt |-> None])
        BY <3>3 DEF Opened, TypeOK
      <4>2. i \in 1..Len(incidents[m]) =>
              incidents'[m][i] = incidents[m][i] /\ i \in DOMAIN incidents[m]
        BY <3>1, <4>1
      <4>3. ~HasOpen(m)
        BY <3>3 DEF Opened, Insertable
      <4>4. i \notin 1..Len(incidents[m])
        BY <2>2, <3>3, <4>2, <4>3 DEF HasOpen, SomeOpen
      <4>5. Len(incidents'[m]) = Len(incidents[m]) + 1
            /\ DOMAIN incidents'[m] = 1..(Len(incidents[m]) + 1)
        BY <3>1, <4>1
      <4> QED BY <3>1, <3>3, <4>4, <4>5
    <3>4. CASE k = m /\ Closed(m)
      <4>1. PICK t \in Time : incidents'[m] = Resolved(incidents[m], t)
        BY <3>4 DEF Closed, TypeOK
      <4> QED BY <2>2, <3>1, <3>4, <4>1, ResolvedCloses
    <3>5. CASE k = m /\ Dropped(m)
      BY <2>2, <3>5 DEF Dropped, TypeOK
    <3> QED BY <2>2, <3>2, <3>3, <3>4, <3>5
  <2> QED
    BY <2>1, <2>2, IncidentSteps DEF OneOpenIncident
<1> QED BY <1>1, <1>2, TypeCorrect, PTL DEF Spec

(***************************************************************************)
(* The incidents table implements the outage log of IncidentLedger.        *)
(***************************************************************************)

(* When the newest incident alone is open, Resolve gives it its end and    *)
(* leaves the others as they are; when none is open it changes nothing.    *)
LEMMA ResolvedNewest ==
  ASSUME NEW log \in Seq(Incident), NEW t \in Time,
         \A i \in DOMAIN log : IsOpen(log[i]) => i = Len(log)
  PROVE  /\ Ledger!IsOpen(log) =>
              Resolved(log, t) = [log EXCEPT ![Len(log)].resolvedAt = t]
         /\ ~Ledger!IsOpen(log) => Resolved(log, t) = log
<1>1. \A i \in DOMAIN log : log[i] \in Incident
  OBVIOUS
<1>2. DOMAIN log = 1..Len(log) /\ Len(log) \in Nat
  OBVIOUS
<1>3. ASSUME Ledger!IsOpen(log)
      PROVE  Resolved(log, t) = [log EXCEPT ![Len(log)].resolvedAt = t]
  <2>1. Len(log) \in DOMAIN log /\ IsOpen(log[Len(log)])
    BY <1>2, <1>3 DEF Ledger!IsOpen, IsOpen
  <2>2. \A i \in DOMAIN log : IsOpen(log[i]) <=> i = Len(log)
    BY <2>1
  <2> QED BY <2>1, <2>2 DEF Resolved
<1>4. ASSUME ~Ledger!IsOpen(log)
      PROVE  Resolved(log, t) = log
  <2>1. \A i \in DOMAIN log : ~IsOpen(log[i])
    BY <1>2, <1>4 DEF Ledger!IsOpen, IsOpen
  <2> QED BY <2>1 DEF Resolved
<1> QED BY <1>3, <1>4

(* Every step of the runs, the handlers and the environment is a step of   *)
(* the outage log, or leaves it alone.                                     *)
THEOREM ImplementsLedger == Spec => LedgerSpec
<1>1. Init => Ledger!Init
  BY DEF Init, Ledger!Init
<1>2. TypeOK /\ OneOpenIncident /\ [Next]_vars => [Ledger!Next]_incidents
  <2> SUFFICES ASSUME TypeOK, OneOpenIncident, [Next]_vars, incidents' # incidents
               PROVE  Ledger!Next
    OBVIOUS
  <2>1. PICK m \in Monitors : Opened(m) \/ Closed(m) \/ Dropped(m)
    BY IncidentSteps
  <2>2. incidents[m] \in Seq(Incident)
        /\ \A i \in DOMAIN incidents[m] :
             IsOpen(incidents[m][i]) => i = Len(incidents[m])
    BY DEF TypeOK, OneOpenIncident
  <2>3. CASE Opened(m)
    <3>1. ~Ledger!IsOpen(incidents[m])
      BY <2>2, <2>3 DEF Opened, Insertable, HasOpen, SomeOpen, IsOpen, Ledger!IsOpen
    <3> QED BY <2>3, <3>1 DEF Opened, Ledger!Next, Ledger!Begin, Ledger!OpenRow
  <2>4. CASE Closed(m)
    <3>1. PICK t \in Time :
            incidents' = [incidents EXCEPT ![m] = Resolved(incidents[m], t)]
      BY <2>4 DEF Closed
    <3>2. Ledger!IsOpen(incidents[m])
      BY <2>2, <3>1, ResolvedNewest DEF TypeOK
    <3>3. incidents' = [incidents EXCEPT
                          ![m][Len(incidents[m])].resolvedAt = t]
      BY <2>2, <3>1, <3>2, ResolvedNewest
    <3> QED BY <3>2, <3>3 DEF Ledger!Next, Ledger!End
  <2>5. CASE Dropped(m)
    BY <2>5 DEF Dropped, Ledger!Next, Ledger!Forget
  <2> QED BY <2>1, <2>3, <2>4, <2>5
<1> QED BY <1>1, <1>2, TypeCorrect, OneOpen, PTL DEF Spec, LedgerSpec, Ledger!Spec

(* No incident and no window outlives its monitor.                         *)
THEOREM NoOrphanRows == Spec => []NoOrphans
<1>1. Init => NoOrphans
  BY DEF Init, NoOrphans
<1>2. TypeOK /\ NoOrphans /\ [Next]_vars => NoOrphans'
  <2> SUFFICES ASSUME TypeOK, NoOrphans, [Next]_vars PROVE NoOrphans'
    OBVIOUS
  <2>1. ASSUME NEW m \in Monitors, NEW status, UpdateLastStatus(m, status)
        PROVE  \A k \in Monitors : row'[k].exists = row[k].exists
    BY <2>1 DEF UpdateLastStatus, TypeOK, Row
  <2>2. ASSUME NEW m \in Monitors, NEW s \in Slots,
               LoadMonitor(m, s) \/ Continue(m, s)
        PROVE  NoOrphans'
    <3>1. CASE OpenIncident(m, s)
      BY <3>1 DEF OpenIncident, Insertable, NoOrphans, TypeOK
    <3>2. CASE ResolveIncident(m, s)
      <4>1. \A t : Resolved(<< >>, t) = << >>
        BY DEF Resolved
      <4> QED BY <3>2, <4>1 DEF ResolveIncident, NoOrphans, TypeOK
    <3>3. CASE Suppress(m, s) \/ WriteStatus(m, s)
      BY <2>1, <3>3 DEF Suppress, WriteStatus, NoOrphans
    <3>4. CASE UNCHANGED tables
      BY <3>4 DEF tables, NoOrphans
    <3> QED
      BY <2>2, <3>1, <3>2, <3>3, <3>4
      DEF LoadMonitor, Continue, BeginCheck, EndCheck, SaveHeartbeat,
          QueryMaintenance, SpawnNotify, BroadcastStatus
  <2>3. CASE Handlers
    <3>1. ASSUME NEW m \in Monitors, UpdateMonitor(m) PROVE NoOrphans'
      BY <3>1 DEF UpdateMonitor, NoOrphans, TypeOK, Row
    <3>2. ASSUME NEW m \in Monitors, DeleteMonitor(m) PROVE NoOrphans'
      BY <3>2 DEF DeleteMonitor, NoOrphans, TypeOK
    <3>3. CreateWindow => NoOrphans'
      BY CheckAssumption DEF CreateWindow, NoOrphans
    <3>4. DeleteWindow \/ DeleteExpiredWindows => NoOrphans'
      BY DEF DeleteWindow, DeleteExpiredWindows, NoOrphans
    <3> QED BY <2>3, <3>1, <3>2, <3>3, <3>4 DEF Handlers
  <2>4. CASE Environment
    BY <2>4 DEF Environment, Tick, Flip, Restart, tables, NoOrphans
  <2>5. CASE UNCHANGED vars
    BY <2>5 DEF vars, NoOrphans
  <2> QED BY <2>2, <2>3, <2>4, <2>5 DEF Next, RunCheck
<1> QED BY <1>1, <1>2, TypeCorrect, PTL DEF Spec

(***************************************************************************)
(* Runs of a monitor one after another, no failing call and no restart.    *)
(***************************************************************************)
OneAtATime == \E s : Slots = {s}
NoFailures == MaxFaults = 0 /\ MaxCrashes = 0

LEMMA NothingFails ==
  ASSUME TypeOK, NoFailures
  PROVE  ~Fails /\ ~Restart
BY DEF TypeOK, NoFailures, Fails, Restart

(* What a step of a run keeps of its record.                               *)
LEMMA RunFields ==
  ASSUME NEW r \in Run, NEW l, NEW t, NEW n, NEW v
  PROVE  /\ [r EXCEPT !.pc = l].pc = l
         /\ [r EXCEPT !.pc = l].prev = r.prev
         /\ [r EXCEPT !.pc = l].result = r.result
         /\ [r EXCEPT !.pc = l, !.checkedAt = t].pc = l
         /\ [r EXCEPT !.pc = l, !.checkedAt = t].prev = r.prev
         /\ [r EXCEPT !.pc = l, !.checkedAt = t].result = r.result
         /\ [r EXCEPT !.pc = l, !.left = n].pc = l
         /\ [r EXCEPT !.pc = l, !.left = n].prev = r.prev
         /\ [r EXCEPT !.pc = l, !.left = n].result = r.result
         /\ [r EXCEPT !.pc = l, !.left = n, !.result = v].pc = l
         /\ [r EXCEPT !.pc = l, !.left = n, !.result = v].prev = r.prev
         /\ [r EXCEPT !.pc = l, !.left = n, !.result = v].result = v
         /\ [r EXCEPT !.pc = l, !.result = v].pc = l
         /\ [r EXCEPT !.pc = l, !.result = v].prev = r.prev
         /\ [r EXCEPT !.pc = l, !.result = v].result = v
BY DEF Run

(* UpdateLastStatus writes the status of a monitor that is still there.    *)
LEMMA StatusWritten ==
  ASSUME TypeOK, ~Fails, NEW m \in Monitors, NEW v, UpdateLastStatus(m, v)
  PROVE  /\ row'[m].exists = row[m].exists
         /\ row'[m].lastStatus = IF row[m].exists THEN v ELSE row[m].lastStatus
         /\ \A k \in Monitors : k # m => row'[k] = row[k]
<1>1. row[m] \in Row
  BY DEF TypeOK
<1> QED BY <1>1 DEF UpdateLastStatus, TypeOK, Row

(* With one slot, a step of the run of m is all that happens to m, and     *)
(* nothing happens to the other monitors.                                  *)
LEMMA RunOfOne ==
  ASSUME TypeOK, OneAtATime, NEW m \in Monitors, NEW s \in Slots,
         NEW r, Becomes(m, s, r)
  PROVE  \A k \in Monitors, z \in Slots :
           run'[k][z] = IF k = m THEN r ELSE run[k][z]
BY DEF TypeOK, OneAtATime, Becomes

(* The steps of a run that write neither the monitor nor its incidents.    *)
QuietStep(m, s) ==
  \/ BeginCheck(m, s) \/ EndCheck(m, s) \/ SaveHeartbeat(m, s)
  \/ QueryMaintenance(m, s) \/ SpawnNotify(m, s) \/ BroadcastStatus(m, s)

LEMMA QuietSteps ==
  ASSUME TypeOK, ~Fails, NEW m \in Monitors, NEW s \in Slots, QuietStep(m, s)
  PROVE  /\ UNCHANGED <<row, incidents, windows>>
         /\ run[m][s].pc \notin {"idle", "open", "resolve"}
         /\ \E r : /\ Becomes(m, s, r)
                   /\ r.pc \notin {"open", "resolve"}
                   /\ r.pc = "suppress" => windows # {}
                   /\ r.pc \in Compares =>
                        /\ run[m][s].pc \in Compares
                        /\ r.prev = run[m][s].prev
                        /\ r.result \in {run[m][s].result} \cup Result
<1> DEFINE old == run[m][s]
<1>1. old \in Run /\ target[m] \in Result
  BY DEF TypeOK
<1>2. Idle.pc = "idle"
  BY DEF Idle
<1> DEFINE Quietly(r) ==
      /\ UNCHANGED <<row, incidents, windows>>
      /\ old.pc \notin {"idle", "open", "resolve"}
      /\ Becomes(m, s, r)
      /\ r.pc \notin {"open", "resolve"}
      /\ r.pc = "suppress" => windows # {}
      /\ r.pc \in Compares =>
           /\ old.pc \in Compares
           /\ r.prev = old.prev
           /\ r.result \in {old.result} \cup Result
<1>3. CASE BeginCheck(m, s)
  <2> DEFINE r == [old EXCEPT !.pc = "probe", !.checkedAt = clock]
  <2>1. UNCHANGED <<row, incidents, windows>> /\ old.pc = "check" /\ Becomes(m, s, r)
    BY <1>3 DEF BeginCheck, At, tables
  <2>2. r.pc = "probe" /\ r.prev = old.prev /\ r.result = old.result
    BY <1>1, RunFields
  <2>3. Quietly(r)
    BY <2>1, <2>2 DEF Compares
  <2> QED BY <2>3
<1>4. CASE EndCheck(m, s)
  <2>1. UNCHANGED <<row, incidents, windows>> /\ old.pc = "probe"
    BY <1>4 DEF EndCheck, Retried, At, tables
  <2>2. CASE Becomes(m, s, [old EXCEPT !.pc = "check", !.left = @ - 1])
    <3> DEFINE n == old.left - 1
               r == [old EXCEPT !.pc = "check", !.left = n]
    <3>1. r.pc = "check" /\ r.prev = old.prev /\ r.result = old.result
      <4> HIDE DEF n
      <4> QED BY <1>1, RunFields
    <3>2. Quietly(r)
      BY <2>1, <2>2, <3>1 DEF Compares
    <3> QED BY <3>2
  <2>3. CASE Becomes(m, s, [old EXCEPT !.pc = "save", !.left = 0,
                                       !.result = target[m]])
    <3> DEFINE r == [old EXCEPT !.pc = "save", !.left = 0, !.result = target[m]]
    <3>1. r.pc = "save" /\ r.prev = old.prev /\ r.result = target[m]
      BY <1>1, RunFields
    <3>2. Quietly(r)
      BY <1>1, <2>1, <2>3, <3>1 DEF Compares
    <3> QED BY <3>2
  <2> QED BY <1>4, <2>2, <2>3 DEF EndCheck
<1>5. ASSUME NEW l \in Label \ {"open", "resolve"}, Goto(m, s, l),
             UNCHANGED <<row, incidents, windows>>,
             old.pc \notin {"idle", "open", "resolve"},
             l \in Compares => old.pc \in Compares,
             l = "suppress" => windows # {}
      PROVE  \E r : Quietly(r)
  <2> DEFINE r == [old EXCEPT !.pc = l]
  <2>1. r.pc = l /\ r.prev = old.prev /\ r.result = old.result
    BY <1>1, RunFields
  <2>2. Quietly(r)
    BY <1>5, <2>1 DEF Goto
  <2> QED BY <2>2
<1>6. ASSUME Return(m, s), UNCHANGED <<row, incidents, windows>>,
             old.pc \notin {"idle", "open", "resolve"}
      PROVE  \E r : Quietly(r)
  <2>1. Quietly(Idle)
    BY <1>2, <1>6 DEF Return, Compares
  <2> QED BY <2>1
<1>7. CASE SaveHeartbeat(m, s)
  <2>1. UNCHANGED <<row, incidents, windows>> /\ old.pc = "save"
        /\ (Goto(m, s, "maintenance") \/ Return(m, s))
    BY <1>7 DEF SaveHeartbeat, At, tables
  <2>2. \E r : Quietly(r)
    BY <1>5, <1>6, <2>1 DEF Label, Compares
  <2> QED BY <2>2
<1>8. CASE QueryMaintenance(m, s)
  <2>1. /\ UNCHANGED <<row, incidents, windows>> /\ old.pc = "maintenance"
        /\ \/ Goto(m, s, "status")
           \/ Goto(m, s, "suppress") /\ windows # {}
    BY <1>8 DEF QueryMaintenance, InMaintenance, At, tables
  <2>2. \E r : Quietly(r)
    BY <1>5, <2>1 DEF Label, Compares
  <2> QED BY <2>2
<1>9. CASE SpawnNotify(m, s)
  <2>1. UNCHANGED <<row, incidents, windows>> /\ old.pc = "notify"
        /\ Goto(m, s, "broadcast")
    BY <1>9 DEF SpawnNotify, At, tables
  <2>2. \E r : Quietly(r)
    BY <1>5, <2>1 DEF Label, Compares
  <2> QED BY <2>2
<1>10. CASE BroadcastStatus(m, s)
  <2>1. UNCHANGED <<row, incidents, windows>> /\ old.pc = "broadcast"
        /\ Return(m, s)
    BY <1>10 DEF BroadcastStatus, At, tables
  <2>2. \E r : Quietly(r)
    BY <1>6, <2>1
  <2> QED BY <2>2
<1> QED BY <1>3, <1>4, <1>7, <1>8, <1>9, <1>10 DEF QuietStep

(* The switch of RunCheck.                                                 *)
LEMMA BranchCases ==
  ASSUME NEW r
  PROVE  /\ Branch(r) \in {"open", "resolve", "broadcast"}
         /\ Branch(r) = "open" <=> r.prev # "down" /\ r.result = "down"
         /\ Branch(r) = "resolve" <=> r.prev = "down" /\ r.result = "up"
BY DEF Branch

(* After incidents.Create, refused or not, a monitor that is there has an  *)
(* open incident; the logs of the other monitors are as they were.         *)
LEMMA OpenedIsOpen ==
  ASSUME TypeOK, ~Fails, NEW m \in Monitors, NEW s \in Slots,
         OpenIncident(m, s), row[m].exists
  PROVE  SomeOpen(incidents'[m])
<1>1. incidents[m] \in Seq(Incident)
  BY DEF TypeOK
<1>2. CASE HasOpen(m)
  BY <1>2 DEF OpenIncident, Insertable, HasOpen
<1>3. CASE ~HasOpen(m)
  <2> DEFINE inc == [startedAt |-> run[m][s].checkedAt, resolvedAt |-> None]
  <2>1. incidents'[m] = Append(incidents[m], inc)
    BY <1>3 DEF OpenIncident, Insertable, TypeOK
  <2>2. /\ Len(incidents[m]) + 1 \in DOMAIN Append(incidents[m], inc)
        /\ Append(incidents[m], inc)[Len(incidents[m]) + 1] = inc
    BY <1>1
  <2> QED BY <2>1, <2>2 DEF SomeOpen, IsOpen
<1> QED BY <1>2, <1>3

LEMMA OthersKept ==
  ASSUME TypeOK, NEW m \in Monitors, NEW s \in Slots,
         OpenIncident(m, s) \/ ResolveIncident(m, s)
  PROVE  \A k \in Monitors : k # m => incidents'[k] = incidents[k]
BY DEF OpenIncident, ResolveIncident, TypeOK

(* Without failures, an outage that was recorded as last_status = "down"   *)
(* has its incident as soon as the run that recorded it has ended.         *)
THEOREM DownIsRecorded ==
  ASSUME OneAtATime, NoFailures
  PROVE  Spec => []DownHasIncident
<1>1. Init => SerialInv
  BY DEF Init, SerialInv, DownConsistent, Idle, Compares
<1>2. TypeOK /\ SerialInv /\ [Next]_vars => SerialInv'
  <2> SUFFICES ASSUME TypeOK, SerialInv, [Next]_vars PROVE SerialInv'
    OBVIOUS
  <2>1. ~Fails /\ ~Restart
    BY NothingFails
  <2>2. ASSUME NEW m \in Monitors, NEW s \in Slots, NEW r, Becomes(m, s, r),
               DownConsistent(r, row'[m], incidents'[m]),
               \A k \in Monitors :
                 k # m => row'[k] = row[k] /\ incidents'[k] = incidents[k]
        PROVE  SerialInv'
    BY <2>2, RunOfOne DEF SerialInv
  <2>3. \A m \in Monitors, s \in Slots :
          /\ run[m][s] \in Run
          /\ DownConsistent(run[m][s], row[m], incidents[m])
    BY DEF TypeOK, SerialInv
  <2>4. ASSUME NEW m \in Monitors, NEW s \in Slots, LoadMonitor(m, s)
        PROVE  SerialInv'
    <3>1. UNCHANGED <<row, incidents>>
      BY <2>4 DEF LoadMonitor, tables
    <3>2. PICK r : /\ Becomes(m, s, r)
                   /\ r.pc = "check" /\ r.prev = row[m].lastStatus
      BY <2>4 DEF LoadMonitor
    <3>3. DownConsistent(r, row'[m], incidents'[m])
      BY <2>3, <2>4, <3>1, <3>2 DEF LoadMonitor, DownConsistent, At, Compares
    <3> QED BY <2>2, <3>1, <3>2, <3>3
  <2>5. ASSUME NEW m \in Monitors, NEW s \in Slots, QuietStep(m, s)
        PROVE  SerialInv'
    <3>1. PICK r :
            /\ Becomes(m, s, r)
            /\ r.pc \notin {"open", "resolve"}
            /\ r.pc \in Compares =>
                 run[m][s].pc \in Compares /\ r.prev = run[m][s].prev
      BY <2>1, <2>5, QuietSteps
    <3>2. UNCHANGED <<row, incidents>> /\ run[m][s].pc \notin {"open", "resolve"}
      BY <2>1, <2>5, QuietSteps
    <3>3. DownConsistent(r, row'[m], incidents'[m])
      BY <2>3, <3>1, <3>2 DEF DownConsistent
    <3> QED BY <2>2, <3>1, <3>2, <3>3
  <2>10. ASSUME NEW m \in Monitors, NEW s \in Slots, Suppress(m, s)
         PROVE  SerialInv'
    <3> DEFINE r == [run[m][s] EXCEPT !.pc = "broadcast", !.result = "maintenance"]
    <3>1. Becomes(m, s, r) /\ UNCHANGED incidents /\ r.pc = "broadcast"
      BY <2>3, <2>10, RunFields DEF Suppress
    <3>2. DownConsistent(r, row'[m], incidents'[m])
      BY <2>1, <2>3, <2>10, <3>1, StatusWritten
      DEF Suppress, DownConsistent, At, Compares
    <3> QED BY <2>1, <2>2, <2>10, <3>1, <3>2, StatusWritten DEF Suppress
  <2>11. ASSUME NEW m \in Monitors, NEW s \in Slots, WriteStatus(m, s)
         PROVE  SerialInv'
    <3> DEFINE old == run[m][s]
               r   == [old EXCEPT !.pc = Branch(old)]
    <3>1. /\ Becomes(m, s, r) /\ UNCHANGED incidents
          /\ r.pc = Branch(old) /\ r.prev = old.prev /\ old.pc = "status"
      BY <2>3, <2>11, RunFields DEF WriteStatus, Goto, At
    <3> HIDE DEF r
    <3>2. /\ row'[m].exists = row[m].exists
          /\ row'[m].lastStatus = IF row[m].exists THEN old.result
                                                   ELSE row[m].lastStatus
      BY <2>1, <2>11, StatusWritten DEF WriteStatus
    <3>3. row[m].exists => old.prev = row[m].lastStatus
      BY <2>3, <3>1 DEF DownConsistent, Compares
    <3>4. row[m].lastStatus = "down" => row[m].exists /\ SomeOpen(incidents[m])
      BY <2>3, <3>1 DEF DownConsistent
    <3>5. DownConsistent(r, row'[m], incidents'[m])
      BY <3>1, <3>2, <3>3, <3>4, BranchCases DEF DownConsistent, Compares
    <3> QED BY <2>1, <2>2, <2>11, <3>1, <3>5, StatusWritten DEF WriteStatus
  <2>12. ASSUME NEW m \in Monitors, NEW s \in Slots, OpenIncident(m, s)
         PROVE  SerialInv'
    <3> DEFINE r == [run[m][s] EXCEPT !.pc = "notify"]
    <3>1. Becomes(m, s, r) /\ UNCHANGED row /\ r.pc = "notify"
      BY <2>3, <2>12, RunFields DEF OpenIncident, Goto
    <3>2. row[m].exists => SomeOpen(incidents'[m])
      BY <2>1, <2>12, OpenedIsOpen
    <3>3. DownConsistent(r, row'[m], incidents'[m])
      BY <2>3, <3>1, <3>2 DEF DownConsistent, Compares
    <3> QED BY <2>2, <2>12, <3>1, <3>3, OthersKept
  <2>13. ASSUME NEW m \in Monitors, NEW s \in Slots, ResolveIncident(m, s)
         PROVE  SerialInv'
    <3> DEFINE r == [run[m][s] EXCEPT !.pc = "notify"]
    <3>1. Becomes(m, s, r) /\ UNCHANGED row /\ r.pc = "notify"
      BY <2>3, <2>13, RunFields DEF ResolveIncident, Goto
    <3>2. row[m].lastStatus # "down"
      BY <2>3, <2>13 DEF ResolveIncident, At, DownConsistent
    <3>3. DownConsistent(r, row'[m], incidents'[m])
      BY <3>1, <3>2 DEF DownConsistent, Compares
    <3> QED BY <2>2, <2>13, <3>1, <3>3, OthersKept
  <2>15. ASSUME Handlers PROVE SerialInv'
    <3>1. ASSUME NEW m \in Monitors, UpdateMonitor(m) PROVE SerialInv'
      BY <3>1 DEF UpdateMonitor, SerialInv, DownConsistent, TypeOK, Row
    <3>2. ASSUME NEW m \in Monitors, DeleteMonitor(m) PROVE SerialInv'
      BY <3>2 DEF DeleteMonitor, SerialInv, DownConsistent, TypeOK
    <3>3. CreateWindow \/ DeleteWindow \/ DeleteExpiredWindows => SerialInv'
      BY DEF CreateWindow, DeleteWindow, DeleteExpiredWindows, SerialInv
    <3> QED BY <2>15, <3>1, <3>2, <3>3 DEF Handlers
  <2>16. ASSUME Environment PROVE SerialInv'
    BY <2>1, <2>16 DEF Environment, Tick, Flip, tables, SerialInv
  <2>17. CASE UNCHANGED vars
    BY <2>17 DEF vars, SerialInv
  <2> QED
    BY <2>4, <2>5, <2>10, <2>11, <2>12, <2>13, <2>15, <2>16, <2>17
    DEF Next, RunCheck, Continue, QuietStep
<1>3. SerialInv /\ OneAtATime => DownHasIncident
  BY DEF SerialInv, DownConsistent, DownHasIncident, Quiet, At, OneAtATime, HasOpen
<1> QED BY <1>1, <1>2, <1>3, TypeCorrect, PTL DEF Spec

(* Without failures and without maintenance windows, a recovery recorded   *)
(* as last_status = "up" has closed the incident by the time the run that  *)
(* recorded it ends.                                                       *)
THEOREM UpIsRecorded ==
  ASSUME OneAtATime, NoFailures, MaxWindows = 0
  PROVE  Spec => []UpHasNoIncident
<1>1. Init => NoWindowInv
  BY DEF Init, NoWindowInv, UpConsistent, SomeOpen, Idle, Compares
<1>2. TypeOK /\ NoWindowInv /\ [Next]_vars => NoWindowInv'
  <2> SUFFICES ASSUME TypeOK, NoWindowInv, [Next]_vars PROVE NoWindowInv'
    OBVIOUS
  <2>1. ~Fails /\ ~Restart
    BY NothingFails
  <2>2. ASSUME NEW m \in Monitors, NEW s \in Slots, NEW r, Becomes(m, s, r),
               UpConsistent(r, row'[m], incidents'[m]), UNCHANGED windows,
               \A k \in Monitors :
                 k # m => row'[k] = row[k] /\ incidents'[k] = incidents[k]
        PROVE  NoWindowInv'
    BY <2>2, RunOfOne DEF NoWindowInv
  <2>3. /\ windows = {}
        /\ \A m \in Monitors, s \in Slots :
             run[m][s] \in Run /\ UpConsistent(run[m][s], row[m], incidents[m])
    BY DEF TypeOK, NoWindowInv
  <2>4. ASSUME NEW m \in Monitors, NEW s \in Slots, LoadMonitor(m, s)
        PROVE  NoWindowInv'
    <3>1. UNCHANGED <<row, incidents, windows>> /\ run[m][s].pc = "idle"
      BY <2>4 DEF LoadMonitor, At, tables
    <3>2. PICK r : /\ Becomes(m, s, r) /\ r.pc = "check"
                   /\ r.prev = row[m].lastStatus /\ r.result = "down"
      BY <2>4 DEF LoadMonitor
    <3>3. UpConsistent(r, row'[m], incidents'[m])
      BY <2>3, <3>1, <3>2 DEF UpConsistent, Compares, Result
    <3> QED BY <2>2, <3>1, <3>2, <3>3
  <2>5. ASSUME NEW m \in Monitors, NEW s \in Slots, QuietStep(m, s)
        PROVE  NoWindowInv'
    <3>1. PICK r :
            /\ Becomes(m, s, r)
            /\ r.pc \notin {"open", "resolve"}
            /\ r.pc = "suppress" => windows # {}
            /\ r.pc \in Compares =>
                 /\ run[m][s].pc \in Compares
                 /\ r.prev = run[m][s].prev
                 /\ r.result \in {run[m][s].result} \cup Result
      BY <2>1, <2>5, QuietSteps
    <3>2. /\ UNCHANGED <<row, incidents, windows>>
          /\ run[m][s].pc \notin {"open", "resolve"}
      BY <2>1, <2>5, QuietSteps
    <3>3. UpConsistent(r, row'[m], incidents'[m])
      BY <2>3, <3>1, <3>2 DEF UpConsistent
    <3> QED BY <2>2, <3>1, <3>2, <3>3
  <2>6. ASSUME NEW m \in Monitors, NEW s \in Slots, Suppress(m, s)
        PROVE  NoWindowInv'
    BY <2>3, <2>6 DEF Suppress, At, UpConsistent
  <2>7. ASSUME NEW m \in Monitors, NEW s \in Slots, WriteStatus(m, s)
        PROVE  NoWindowInv'
    <3> DEFINE old == run[m][s]
               r   == [old EXCEPT !.pc = Branch(old)]
    <3>1. /\ Becomes(m, s, r) /\ UNCHANGED <<incidents, windows>>
          /\ r.pc = Branch(old) /\ r.prev = old.prev /\ old.pc = "status"
      BY <2>3, <2>7, RunFields DEF WriteStatus, Goto, At
    <3> HIDE DEF r
    <3>2. /\ row'[m].exists = row[m].exists
          /\ row'[m].lastStatus = IF row[m].exists THEN old.result
                                                   ELSE row[m].lastStatus
      BY <2>1, <2>7, StatusWritten DEF WriteStatus
    <3>3. /\ old.result \in Result
          /\ row[m].exists => old.prev = row[m].lastStatus
          /\ SomeOpen(incidents[m]) => row[m].lastStatus = "down"
      BY <2>3, <3>1 DEF UpConsistent, Compares
    <3>4. UpConsistent(r, row'[m], incidents'[m])
      BY <3>1, <3>2, <3>3, BranchCases DEF UpConsistent, Compares, Result
    <3> QED BY <2>1, <2>2, <2>7, <3>1, <3>4, StatusWritten DEF WriteStatus
  <2>8. ASSUME NEW m \in Monitors, NEW s \in Slots, OpenIncident(m, s)
        PROVE  NoWindowInv'
    <3> DEFINE r == [run[m][s] EXCEPT !.pc = "notify"]
    <3>1. Becomes(m, s, r) /\ UNCHANGED <<row, windows>> /\ r.pc = "notify"
          /\ run[m][s].pc = "open"
      BY <2>3, <2>8, RunFields DEF OpenIncident, Goto, At
    <3>2. ~row[m].exists => incidents' = incidents
      BY <2>8 DEF OpenIncident, Insertable
    <3>3. UpConsistent(r, row'[m], incidents'[m])
      BY <2>3, <3>1, <3>2 DEF UpConsistent, Compares
    <3> QED BY <2>2, <2>8, <3>1, <3>3, OthersKept
  <2>9. ASSUME NEW m \in Monitors, NEW s \in Slots, ResolveIncident(m, s)
        PROVE  NoWindowInv'
    <3> DEFINE r == [run[m][s] EXCEPT !.pc = "notify"]
    <3>1. Becomes(m, s, r) /\ UNCHANGED <<row, windows>> /\ r.pc = "notify"
      BY <2>3, <2>9, RunFields DEF ResolveIncident, Goto
    <3>2. /\ incidents'[m] = Resolved(incidents[m], run[m][s].checkedAt)
          /\ incidents[m] \in Seq(Incident) /\ run[m][s].checkedAt \in Time
      BY <2>1, <2>3, <2>9 DEF ResolveIncident, TypeOK, Run
    <3>3. ~SomeOpen(incidents'[m])
      BY <3>2, ResolvedCloses DEF SomeOpen
    <3>4. UpConsistent(r, row'[m], incidents'[m])
      BY <3>1, <3>3 DEF UpConsistent, Compares
    <3> QED BY <2>2, <2>9, <3>1, <3>4, OthersKept
  <2>10. ASSUME Handlers PROVE NoWindowInv'
    <3>1. ASSUME NEW m \in Monitors, UpdateMonitor(m) PROVE NoWindowInv'
      <4>1. \A k \in Monitors : /\ row'[k].exists = row[k].exists
                                /\ row'[k].lastStatus = row[k].lastStatus
        BY <3>1 DEF UpdateMonitor, TypeOK, Row
      <4> QED BY <3>1, <4>1 DEF UpdateMonitor, NoWindowInv, UpConsistent
    <3>2. ASSUME NEW m \in Monitors, DeleteMonitor(m) PROVE NoWindowInv'
      <4>1. ~row'[m].exists /\ ~SomeOpen(incidents'[m]) /\ windows' = {}
        BY <2>3, <3>2 DEF DeleteMonitor, TypeOK, SomeOpen
      <4>2. /\ \A k \in Monitors : k # m => /\ row'[k] = row[k]
                                            /\ incidents'[k] = incidents[k]
            /\ run' = run
        BY <3>2 DEF DeleteMonitor, TypeOK
      <4> QED BY <2>3, <4>1, <4>2 DEF NoWindowInv, UpConsistent
    <3>3. ~CreateWindow
      BY <2>3, FS_EmptySet DEF CreateWindow
    <3>4. DeleteWindow \/ DeleteExpiredWindows => NoWindowInv'
      BY DEF DeleteWindow, DeleteExpiredWindows, NoWindowInv
    <3> QED BY <2>10, <3>1, <3>2, <3>3, <3>4 DEF Handlers
  <2>11. ASSUME Environment PROVE NoWindowInv'
    BY <2>1, <2>11 DEF Environment, Tick, Flip, tables, NoWindowInv
  <2>12. CASE UNCHANGED vars
    BY <2>12 DEF vars, NoWindowInv
  <2> QED
    BY <2>4, <2>5, <2>6, <2>7, <2>8, <2>9, <2>10, <2>11, <2>12
    DEF Next, RunCheck, Continue, QuietStep
<1>3. NoWindowInv /\ OneAtATime => UpHasNoIncident
  BY DEF NoWindowInv, UpConsistent, UpHasNoIncident, Quiet, At, OneAtATime,
         HasOpen
<1> QED BY <1>1, <1>2, <1>3, TypeCorrect, PTL DEF Spec
(***************************************************************************)
(* When a check was begun.  These results hold for any number of runs of a *)
(* monitor at once, except where OneAtATime is assumed.                    *)
(***************************************************************************)
Begun == Label \ {"idle", "check"}

LEMMA RunUpdated ==
  ASSUME TypeOK, NEW m \in Monitors, NEW s \in Slots, NEW r, Becomes(m, s, r)
  PROVE  \A k \in Monitors, z \in Slots :
           run'[k][z] = IF k = m /\ z = s THEN r ELSE run[k][z]
BY DEF TypeOK, Becomes

(* A run is stamped when it begins an attempt and keeps the stamp to its   *)
(* end; it goes on to the status only if the query for maintenance found   *)
(* no window over the stamp, or failed.                                    *)
Stamped(m, s, r) ==
  LET old == run[m][s]
  IN  /\ \/ r.pc = "probe" /\ r.checkedAt = clock
         \/ old.pc \in Begun /\ r.checkedAt = old.checkedAt
         \/ r.pc \in {"idle", "check"} /\ r.checkedAt = 0
      /\ r.pc \in {"status", "open"} =>
           /\ r.checkedAt = old.checkedAt
           /\ \/ old.pc = "status"
              \/ Fails
              \/ ~InMaintenance(m, old.checkedAt)

LEMMA StampSteps ==
  ASSUME TypeOK, NEW m \in Monitors, NEW s \in Slots,
         LoadMonitor(m, s) \/ Continue(m, s)
  PROVE  /\ UNCHANGED <<windows, clock>>
         /\ \E r : Becomes(m, s, r) /\ Stamped(m, s, r)
<1> DEFINE old == run[m][s]
<1>1. old \in Run
  BY DEF TypeOK
<1>2. UNCHANGED <<windows, clock>>
  BY DEF LoadMonitor, Continue, BeginCheck, EndCheck, SaveHeartbeat,
         QueryMaintenance, Suppress, WriteStatus, OpenIncident,
         ResolveIncident, SpawnNotify, BroadcastStatus, tables, world
<1>3. CASE LoadMonitor(m, s)
  <2>1. PICK r : Becomes(m, s, r) /\ r.pc = "check" /\ r.checkedAt = 0
    BY <1>3 DEF LoadMonitor
  <2> QED BY <1>2, <2>1 DEF Stamped
<1>4. CASE BeginCheck(m, s)
  <2> DEFINE r == [old EXCEPT !.pc = "probe", !.checkedAt = clock]
  <2>1. Becomes(m, s, r) /\ r.pc = "probe" /\ r.checkedAt = clock
    BY <1>1, <1>4 DEF BeginCheck, Run
  <2> QED BY <1>2, <2>1 DEF Stamped
<1>5. ASSUME NEW r, Becomes(m, s, r), old.pc \in Begun,
             r.checkedAt = old.checkedAt, r.pc \notin {"status", "open"}
      PROVE  \E q : Becomes(m, s, q) /\ Stamped(m, s, q)
  BY <1>5 DEF Stamped
<1>6. ASSUME NEW l, Goto(m, s, l), old.pc \in Begun, l \notin {"status", "open"}
      PROVE  \E q : Becomes(m, s, q) /\ Stamped(m, s, q)
  <2>1. [old EXCEPT !.pc = l].pc = l /\ [old EXCEPT !.pc = l].checkedAt = old.checkedAt
    BY <1>1 DEF Run
  <2> QED BY <1>5, <1>6, <2>1 DEF Goto
<1>7. ASSUME Return(m, s)
      PROVE  \E q : Becomes(m, s, q) /\ Stamped(m, s, q)
  BY <1>7 DEF Return, Stamped, Idle
<1>8. CASE EndCheck(m, s)
  <2> DEFINE r == [old EXCEPT !.pc = "check", !.left = @ - 1]
             q == [old EXCEPT !.pc = "save", !.left = 0, !.result = target[m]]
  <2>1. old.pc = "probe" /\ (Becomes(m, s, r) \/ Becomes(m, s, q))
    BY <1>8 DEF EndCheck, At
  <2>2. r.checkedAt = old.checkedAt /\ r.pc = "check"
        /\ q.checkedAt = old.checkedAt /\ q.pc = "save"
    BY <1>1 DEF Run
  <2> QED BY <1>2, <1>5, <2>1, <2>2 DEF Begun, Label
<1>9. CASE SaveHeartbeat(m, s)
  <2>1. old.pc = "save" /\ (Goto(m, s, "maintenance") \/ Return(m, s))
    BY <1>9 DEF SaveHeartbeat, At
  <2> QED BY <1>2, <1>6, <1>7, <2>1 DEF Begun, Label
<1>10. CASE QueryMaintenance(m, s)
  <2>1. /\ old.pc = "maintenance"
        /\ \/ Goto(m, s, "suppress")
           \/ Goto(m, s, "status") /\ (Fails \/ ~InMaintenance(m, old.checkedAt))
    BY <1>10 DEF QueryMaintenance, At, AskedAt
  <2>2. CASE Goto(m, s, "status") /\ (Fails \/ ~InMaintenance(m, old.checkedAt))
    <3> DEFINE r == [old EXCEPT !.pc = "status"]
    <3>1. Becomes(m, s, r) /\ r.pc = "status" /\ r.checkedAt = old.checkedAt
      BY <1>1, <2>2 DEF Goto, Run
    <3>2. Stamped(m, s, r)
      BY <2>1, <2>2, <3>1 DEF Stamped, Begun, Label
    <3> QED BY <1>2, <3>1, <3>2
  <2>3. CASE Goto(m, s, "suppress")
    BY <1>2, <1>6, <2>1, <2>3 DEF Begun, Label
  <2> QED BY <2>1, <2>2, <2>3
<1>11. CASE Suppress(m, s)
  <2> DEFINE r == [old EXCEPT !.pc = "broadcast", !.result = "maintenance"]
  <2>1. /\ Becomes(m, s, r) /\ old.pc = "suppress"
        /\ r.pc = "broadcast" /\ r.checkedAt = old.checkedAt
    BY <1>1, <1>11 DEF Suppress, At, Run
  <2> QED BY <1>2, <1>5, <2>1 DEF Begun, Label
<1>12. CASE WriteStatus(m, s)
  <2> DEFINE r == [old EXCEPT !.pc = Branch(old)]
  <2>1. /\ Becomes(m, s, r) /\ old.pc = "status"
        /\ r.checkedAt = old.checkedAt
    BY <1>1, <1>12 DEF WriteStatus, Goto, At, Run
  <2>2. Stamped(m, s, r)
    BY <2>1 DEF Stamped, Begun, Label
  <2> QED BY <1>2, <2>1, <2>2
<1>13. CASE OpenIncident(m, s) \/ ResolveIncident(m, s)
  <2>1. old.pc \in {"open", "resolve"} /\ Goto(m, s, "notify")
    BY <1>13 DEF OpenIncident, ResolveIncident, At
  <2> QED BY <1>2, <1>6, <2>1 DEF Begun, Label
<1>14. CASE SpawnNotify(m, s)
  <2>1. old.pc = "notify" /\ Goto(m, s, "broadcast")
    BY <1>14 DEF SpawnNotify, At
  <2> QED BY <1>2, <1>6, <2>1 DEF Begun, Label
<1>15. CASE BroadcastStatus(m, s)
  BY <1>2, <1>7, <1>15 DEF BroadcastStatus
<1> QED
  BY <1>3, <1>4, <1>8, <1>9, <1>10, <1>11, <1>12, <1>13, <1>14, <1>15
  DEF Continue

(* Handlers and the environment leave runs alone, or end them all.         *)
LEMMA OtherSteps ==
  ASSUME TypeOK, Handlers \/ Environment \/ UNCHANGED vars
  PROVE  /\ run' = run \/ Restart
         /\ clock <= clock'
         /\ incidents' = incidents \/ \E m \in Monitors : Dropped(m)
         /\ \A w \in windows' : w \in windows \/ w.createdAt = clock
BY DEF Handlers, UpdateMonitor, DeleteMonitor, CreateWindow, DeleteWindow,
       DeleteExpiredWindows, Environment, Tick, Flip, vars, tables, outside,
       world, Dropped, TypeOK, Time, Restart
(* Whether no window that was announced before t covers t.                 *)
Uncovered(m, t) == \A w \in windows : w.createdAt < t => ~Covers(w, m, t)

(* What makes NoIncidentInsideWindow inductive: a run that may still open  *)
(* an incident has found its stamp uncovered, windows created since are    *)
(* not older than any stamp, and nothing is stamped in the future.         *)
WindowInv ==
  /\ \A m \in Monitors, s \in Slots :
       /\ run[m][s].checkedAt <= clock
       /\ run[m][s].pc \in {"status", "open"} => Uncovered(m, run[m][s].checkedAt)
  /\ \A m \in Monitors : \A i \in DOMAIN incidents[m] :
       /\ incidents[m][i].startedAt <= clock
       /\ Uncovered(m, incidents[m][i].startedAt)

(* However many runs of a monitor overlap and whenever the process is      *)
(* restarted: if no call fails, no outage is recorded as beginning inside  *)
(* a window that was there before.                                         *)
THEOREM WindowsAreRespected ==
  ASSUME MaxFaults = 0
  PROVE  Spec => []NoIncidentInsideWindow
<1>1. Init => WindowInv
  BY DEF Init, WindowInv, Idle
<1>2. TypeOK /\ WindowInv /\ [Next]_vars => WindowInv'
  <2> SUFFICES ASSUME TypeOK, WindowInv, [Next]_vars PROVE WindowInv'
    OBVIOUS
  <2>1. ~Fails
    BY DEF TypeOK, Fails
  <2>2. /\ clock \in Int
        /\ \A m \in Monitors, s \in Slots : run[m][s].checkedAt \in Int
        /\ \A m \in Monitors : \A i \in DOMAIN incidents[m] :
             incidents[m][i] \in Incident /\ incidents[m][i].startedAt \in Int
    <3>1. clock \in Int
      BY DEF TypeOK, Time
    <3>2. \A m \in Monitors, s \in Slots : run[m][s] \in Run
      BY DEF TypeOK
    <3>3. \A m \in Monitors : \A i \in DOMAIN incidents[m] : incidents[m][i] \in Incident
      BY DEF TypeOK
    <3> QED BY <3>1, <3>2, <3>3 DEF Run, Incident, Time
  <2>3. ASSUME \A w \in windows' : w \in windows \/ w.createdAt = clock,
               NEW m \in Monitors, NEW t \in Int, t <= clock, Uncovered(m, t)
        PROVE  \A w \in windows' : w.createdAt < t => ~Covers(w, m, t)
    BY <2>2, <2>3 DEF Uncovered
  <2>4. ASSUME NEW m \in Monitors, NEW s \in Slots,
               LoadMonitor(m, s) \/ Continue(m, s)
        PROVE  WindowInv'
    <3>1. UNCHANGED <<windows, clock>>
      BY <2>4, StampSteps
    <3>2. PICK r : Becomes(m, s, r) /\ Stamped(m, s, r)
      BY <2>4, StampSteps
    <3>3. r.checkedAt <= clock
      BY <2>2, <3>2 DEF Stamped, WindowInv, TypeOK, Time
    <3>4. r.pc \in {"status", "open"} => Uncovered(m, r.checkedAt)
      <4>1. ~InMaintenance(m, run[m][s].checkedAt) => Uncovered(m, run[m][s].checkedAt)
        BY DEF InMaintenance, Uncovered
      <4> QED BY <2>1, <3>2, <4>1 DEF Stamped, WindowInv
    <3>5. \A k \in Monitors, z \in Slots :
            /\ run'[k][z].checkedAt <= clock
            /\ run'[k][z].pc \in {"status", "open"} => Uncovered(k, run'[k][z].checkedAt)
      BY <3>2, <3>3, <3>4, RunUpdated DEF WindowInv
    <3>6. ASSUME NEW k \in Monitors, NEW i \in DOMAIN incidents'[k]
          PROVE  /\ incidents'[k][i].startedAt <= clock
                 /\ Uncovered(k, incidents'[k][i].startedAt)
      <4>1. CASE OpenIncident(m, s)
        <5> DEFINE inc == [startedAt |-> run[m][s].checkedAt, resolvedAt |-> None]
        <5>1. \/ incidents' = incidents
              \/ incidents' = [incidents EXCEPT ![m] = Append(@, inc)]
          BY <4>1 DEF OpenIncident
        <5>2. /\ inc.startedAt <= clock
              /\ Uncovered(m, inc.startedAt)
          BY <4>1 DEF OpenIncident, At, WindowInv
        <5>3. incidents[m] \in Seq(Incident)
          BY DEF TypeOK
        <5>4. CASE incidents' = incidents
          BY <5>4 DEF WindowInv
        <5>5. CASE incidents' = [incidents EXCEPT ![m] = Append(@, inc)] /\ k = m
          <6>1. incidents'[m] = Append(incidents[m], inc)
            BY <5>5 DEF TypeOK
          <6>2. /\ i \in DOMAIN incidents[m] \/ i = Len(incidents[m]) + 1
                /\ i \in DOMAIN incidents[m] => incidents'[m][i] = incidents[m][i]
                /\ i = Len(incidents[m]) + 1 => incidents'[m][i] = inc
            <7> HIDE DEF inc
            <7> QED BY <5>3, <5>5, <6>1
          <6> QED BY <5>2, <5>5, <6>2 DEF WindowInv
        <5>6. CASE incidents' = [incidents EXCEPT ![m] = Append(@, inc)] /\ k # m
          BY <5>6 DEF WindowInv, TypeOK
        <5> QED BY <5>1, <5>4, <5>5, <5>6
      <4>2. CASE ResolveIncident(m, s)
        <5>1. PICK t \in Time :
                \/ incidents' = incidents
                \/ incidents' = [incidents EXCEPT ![m] = Resolved(@, t)]
          BY <4>2 DEF ResolveIncident, TypeOK, Run
        <5>2. /\ i \in DOMAIN incidents[k]
              /\ incidents'[k][i].startedAt = incidents[k][i].startedAt
          <6>1. ASSUME NEW log \in Seq(Incident), NEW j \in DOMAIN Resolved(log, t)
                PROVE  j \in DOMAIN log /\ Resolved(log, t)[j].startedAt = log[j].startedAt
            BY <6>1 DEF Resolved, Incident
          <6>2. incidents[k] \in Seq(Incident) /\ DOMAIN incidents = Monitors
            BY DEF TypeOK
          <6>3. incidents'[k] = incidents[k] \/ incidents'[k] = Resolved(incidents[k], t)
            BY <5>1, <6>2
          <6> QED BY <6>1, <6>2, <6>3
        <5> QED BY <5>2 DEF WindowInv
      <4>3. CASE ~OpenIncident(m, s) /\ ~ResolveIncident(m, s)
        BY <2>4, <4>3, IncidentsKept DEF WindowInv
      <4> QED BY <4>1, <4>2, <4>3
    <3> QED BY <3>1, <3>5, <3>6 DEF WindowInv, Uncovered
  <2>5. CASE Handlers \/ Environment \/ UNCHANGED vars
    <3>1. /\ clock <= clock' /\ clock' \in Int
          /\ \A w \in windows' : w \in windows \/ w.createdAt = clock
      BY <2>2, <2>5, OtherSteps DEF Handlers, Environment, UpdateMonitor, DeleteMonitor,
         CreateWindow, DeleteWindow, DeleteExpiredWindows, Tick, Flip, Restart, world, vars
    <3>2. ASSUME NEW m \in Monitors, NEW s \in Slots
          PROVE  /\ run'[m][s].checkedAt <= clock'
                 /\ run'[m][s].pc \in {"status", "open"} =>
                      \A w \in windows' : w.createdAt < run'[m][s].checkedAt
                                           => ~Covers(w, m, run'[m][s].checkedAt)
      <4>1. CASE run' = run
        BY <2>2, <2>3, <3>1, <4>1 DEF WindowInv
      <4>2. CASE Restart
        BY <2>2, <4>2 DEF Restart, Idle, TypeOK, Time
      <4> QED BY <2>5, <4>1, <4>2, OtherSteps
    <3>3. ASSUME NEW m \in Monitors, NEW i \in DOMAIN incidents'[m]
          PROVE  /\ incidents'[m][i].startedAt <= clock'
                 /\ \A w \in windows' : w.createdAt < incidents'[m][i].startedAt
                                        => ~Covers(w, m, incidents'[m][i].startedAt)
      <4>1. /\ i \in DOMAIN incidents[m]
            /\ incidents'[m][i] = incidents[m][i]
        BY <2>5, OtherSteps DEF Dropped, TypeOK
      <4> QED BY <2>2, <2>3, <3>1, <4>1 DEF WindowInv
    <3> QED BY <3>2, <3>3 DEF WindowInv, Uncovered
  <2> QED BY <2>4, <2>5 DEF Next, RunCheck
<1>3. WindowInv => NoIncidentInsideWindow
  BY DEF WindowInv, Uncovered, NoIncidentInsideWindow
<1> QED BY <1>1, <1>2, <1>3, TypeCorrect, PTL DEF Spec
(* The rows of a log begin and end one after another, and not after t.     *)
OrderedUntil(log, t) ==
  /\ \A i \in DOMAIN log :
       /\ log[i].startedAt <= t
       /\ ~IsOpen(log[i]) => log[i].startedAt <= log[i].resolvedAt /\ log[i].resolvedAt <= t
  /\ \A i, j \in DOMAIN log :
       i < j => ~IsOpen(log[i]) /\ log[i].resolvedAt <= log[j].startedAt

(* What makes OutagesInOrder inductive when the runs of a monitor follow   *)
(* one another: nothing in the log is younger than the stamp of the run    *)
(* that is about to write it.                                              *)
Newest(r) == IF r.pc \in Begun THEN r.checkedAt ELSE clock

OrderInv ==
  \A m \in Monitors, s \in Slots :
    /\ run[m][s].checkedAt <= clock
    /\ OrderedUntil(incidents[m], Newest(run[m][s]))

LEMMA RowTimes ==
  ASSUME NEW log \in Seq(Incident), NEW i \in DOMAIN log
  PROVE  /\ log[i].startedAt \in Int
         /\ ~IsOpen(log[i]) => log[i].resolvedAt \in Int
<1>1. log[i] \in Incident
  OBVIOUS
<1> QED BY <1>1 DEF Incident, Time, IsOpen

LEMMA OrderedLater ==
  ASSUME NEW log \in Seq(Incident), NEW t \in Int, NEW u \in Int, t <= u,
         OrderedUntil(log, t)
  PROVE  OrderedUntil(log, u)
BY RowTimes DEF OrderedUntil

(* An outage that begins now comes after all that are over.                *)
LEMMA OrderedAppend ==
  ASSUME NEW log \in Seq(Incident), NEW t \in Time, OrderedUntil(log, t),
         ~SomeOpen(log)
  PROVE  OrderedUntil(Append(log, [startedAt |-> t, resolvedAt |-> None]), t)
<1> DEFINE inc == [startedAt |-> t, resolvedAt |-> None]
           new == Append(log, inc)
<1>1. /\ DOMAIN new = 1..(Len(log) + 1) /\ DOMAIN log = 1..Len(log)
      /\ \A i \in DOMAIN log : new[i] = log[i]
      /\ new[Len(log) + 1] = inc
  OBVIOUS
<1>2. inc.startedAt = t /\ IsOpen(inc) /\ t <= t
  BY DEF IsOpen, Time
<1> HIDE DEF inc, new
<1>3. \A i \in DOMAIN log : ~IsOpen(log[i])
  BY DEF SomeOpen
<1>4. ASSUME NEW i \in DOMAIN new
      PROVE  /\ new[i].startedAt <= t
             /\ ~IsOpen(new[i]) => new[i].startedAt <= new[i].resolvedAt
                                   /\ new[i].resolvedAt <= t
  BY <1>1, <1>2 DEF OrderedUntil
<1>5. ASSUME NEW i \in DOMAIN new, NEW j \in DOMAIN new, i < j
      PROVE  ~IsOpen(new[i]) /\ new[i].resolvedAt <= new[j].startedAt
  <2>1. i \in DOMAIN log
    BY <1>1, <1>5
  <2>2. CASE j \in DOMAIN log
    BY <1>1, <1>5, <2>1, <2>2 DEF OrderedUntil
  <2>3. CASE j \notin DOMAIN log
    BY <1>1, <1>2, <1>3, <2>1, <2>3 DEF OrderedUntil
  <2> QED BY <2>2, <2>3
<1> QED BY <1>4, <1>5 DEF OrderedUntil, inc, new

(* An outage that ends now ends after all that are over.                   *)
LEMMA OrderedResolve ==
  ASSUME NEW log \in Seq(Incident), NEW t \in Time, OrderedUntil(log, t)
  PROVE  OrderedUntil(Resolved(log, t), t)
<1> DEFINE new == Resolved(log, t)
<1>1. DOMAIN new = DOMAIN log
  BY ResolvedType
<1>2. \A i \in DOMAIN log : ~IsOpen(new[i])
  BY <1>1, ResolvedCloses
<1>3. ASSUME NEW i \in DOMAIN log
      PROVE  /\ new[i].startedAt = log[i].startedAt
             /\ new[i].resolvedAt = IF IsOpen(log[i]) THEN t ELSE log[i].resolvedAt
  <2>1. log[i] \in Incident
    OBVIOUS
  <2> QED BY <2>1 DEF Resolved, Incident
<1> HIDE DEF new
<1>4. t <= t
  BY DEF Time
<1> QED BY <1>1, <1>2, <1>3, <1>4 DEF OrderedUntil, new

(* Whatever fails and whenever the process is restarted: when the runs of  *)
(* a monitor follow one another, its outages are a sequence of intervals   *)
(* that do not overlap.                                                    *)
THEOREM OutagesDoNotOverlap ==
  ASSUME OneAtATime
  PROVE  Spec => []OutagesInOrder
<1>1. Init => OrderInv
  BY DEF Init, OrderInv, OrderedUntil, Idle
<1>2. TypeOK /\ OrderInv /\ [Next]_vars => OrderInv'
  <2> SUFFICES ASSUME TypeOK, OrderInv, [Next]_vars PROVE OrderInv'
    OBVIOUS
  <2>1. /\ clock \in Int /\ clock \in Time
        /\ \A m \in Monitors, s \in Slots : run[m][s].checkedAt \in Time
        /\ \A m \in Monitors : incidents[m] \in Seq(Incident)
    BY DEF TypeOK, Run, Time
  <2>2. \A m \in Monitors, s \in Slots :
          Newest(run[m][s]) \in Int /\ Newest(run[m][s]) <= clock
    BY <2>1 DEF Newest, OrderInv, Time
  <2>3. ASSUME NEW m \in Monitors, NEW s \in Slots,
               LoadMonitor(m, s) \/ Continue(m, s)
        PROVE  OrderInv'
    <3>1. UNCHANGED clock
      BY <2>3, StampSteps
    <3>2. PICK r : Becomes(m, s, r) /\ Stamped(m, s, r)
      BY <2>3, StampSteps
    <3>3. r.checkedAt \in Int /\ r.checkedAt <= clock
      BY <2>1, <3>2 DEF Stamped, OrderInv, Time
    <3>4. Newest(r) \in Int /\ Newest(run[m][s]) <= Newest(r)
      BY <2>1, <2>2, <3>2, <3>3 DEF Stamped, Newest, Begun, Label
    <3>5. /\ OrderedUntil(incidents'[m], Newest(run[m][s]))
          /\ \A k \in Monitors \ {m} : incidents'[k] = incidents[k]
          /\ incidents'[m] \in Seq(Incident)
      <4> DEFINE t == run[m][s].checkedAt
      <4>1. CASE OpenIncident(m, s)
        <5>1. Newest(run[m][s]) = t /\ t \in Time
          BY <2>1, <4>1 DEF OpenIncident, At, Newest, Begun, Label
        <5>2. \/ incidents' = incidents
              \/ /\ ~SomeOpen(incidents[m])
                 /\ incidents' = [incidents EXCEPT ![m] =
                      Append(@, [startedAt |-> t, resolvedAt |-> None])]
          BY <4>1 DEF OpenIncident, Insertable, HasOpen
        <5>3. [startedAt |-> t, resolvedAt |-> None] \in Incident
          BY <5>1 DEF Incident
        <5>4. OrderedUntil(incidents[m], t)
          BY <5>1 DEF OrderInv
        <5> HIDE DEF t
        <5>5. CASE incidents' = incidents
          BY <2>1, <5>1, <5>4, <5>5
        <5>6. CASE incidents' # incidents
          <6>1. incidents'[m] = Append(incidents[m], [startedAt |-> t, resolvedAt |-> None])
            BY <5>2, <5>6 DEF TypeOK
          <6>2. \A k \in Monitors \ {m} : incidents'[k] = incidents[k]
            BY <5>2, <5>6 DEF TypeOK
          <6>3. OrderedUntil(incidents'[m], t)
            BY <2>1, <5>1, <5>2, <5>4, <5>6, <6>1, OrderedAppend
          <6>4. incidents'[m] \in Seq(Incident)
            BY <2>1, <5>3, <6>1
          <6> QED BY <5>1, <6>2, <6>3, <6>4
        <5> QED BY <5>5, <5>6
      <4>2. CASE ResolveIncident(m, s)
        <5>1. Newest(run[m][s]) = t /\ t \in Time
          BY <2>1, <4>2 DEF ResolveIncident, At, Newest, Begun, Label
        <5>2. \/ incidents' = incidents
              \/ incidents' = [incidents EXCEPT ![m] = Resolved(@, t)]
          BY <4>2 DEF ResolveIncident
        <5>3. OrderedUntil(incidents[m], t)
          BY <5>1 DEF OrderInv
        <5> HIDE DEF t
        <5>4. incidents'[m] = incidents[m] \/ incidents'[m] = Resolved(incidents[m], t)
          BY <5>2 DEF TypeOK
        <5>5. \A k \in Monitors \ {m} : incidents'[k] = incidents[k]
          BY <5>2 DEF TypeOK
        <5> QED BY <2>1, <5>1, <5>3, <5>4, <5>5, OrderedResolve, ResolvedType
      <4>3. CASE ~OpenIncident(m, s) /\ ~ResolveIncident(m, s)
        BY <2>1, <2>3, <4>3, IncidentsKept DEF OrderInv
      <4> QED BY <4>1, <4>2, <4>3
    <3>6. OrderedUntil(incidents'[m], Newest(r))
      BY <2>2, <3>4, <3>5, OrderedLater
    <3> QED
      BY <3>1, <3>2, <3>3, <3>5, <3>6, RunOfOne DEF OrderInv, Newest
  <2>4. CASE Handlers \/ Environment \/ UNCHANGED vars
    <3>1. clock <= clock' /\ clock' \in Int
      BY <2>1, <2>4, OtherSteps DEF Handlers, Environment, UpdateMonitor,
         DeleteMonitor, CreateWindow, DeleteWindow, DeleteExpiredWindows, Tick,
         Flip, Restart, world, vars
    <3>2. \A m \in Monitors : incidents'[m] \in {incidents[m], << >>}
      BY <2>4, OtherSteps DEF Dropped, TypeOK
    <3>3. ASSUME NEW m \in Monitors, NEW s \in Slots
          PROVE  run'[m][s].checkedAt <= clock' /\ OrderedUntil(incidents'[m], Newest(run[m][s])')
      <4>1. /\ run'[m][s].checkedAt <= clock'
            /\ Newest(run[m][s])' \in Int
            /\ Newest(run[m][s]) <= Newest(run[m][s])'
        <5>1. CASE run' = run
          BY <2>1, <3>1, <5>1 DEF OrderInv, Newest, Time
        <5>2. CASE Restart
          <6>1. run'[m][s] = Idle /\ clock' = clock
            BY <5>2 DEF Restart
          <6>2. Newest(run[m][s])' = clock
            BY <6>1 DEF Newest, Idle, Begun
          <6>3. 0 <= clock
            BY DEF TypeOK, Time
          <6> QED BY <2>1, <2>2, <6>1, <6>2, <6>3 DEF Idle
        <5> QED BY <2>4, <5>1, <5>2, OtherSteps
      <4>2. OrderedUntil(<< >>, Newest(run[m][s])')
        BY DEF OrderedUntil
      <4> QED BY <2>1, <2>2, <3>2, <4>1, <4>2, OrderedLater DEF OrderInv
    <3> QED BY <3>3 DEF OrderInv
  <2> QED BY <2>3, <2>4 DEF Next, RunCheck
<1>3. OrderInv => OutagesInOrder
  BY DEF OrderInv, OrderedUntil, OutagesInOrder, FindByMonitorAndTimeRange, OneAtATime
<1> QED BY <1>1, <1>2, <1>3, TypeCorrect, PTL DEF Spec
(***************************************************************************)
(* What the dashboards and the notifier were told last.                    *)
(***************************************************************************)

(* A run that has recorded its result and has not ended yet.               *)
Written == {"open", "resolve", "notify", "broadcast"}

LEMMA BeforeWriting ==
  ASSUME TypeOK, NEW m \in Monitors, NEW s \in Slots,
         \/ LoadMonitor(m, s) \/ BeginCheck(m, s) \/ EndCheck(m, s)
         \/ SaveHeartbeat(m, s) \/ QueryMaintenance(m, s)
  PROVE  /\ UNCHANGED <<row, incidents, announced, shown>>
         /\ run[m][s].pc \notin Written
         /\ \E r : Becomes(m, s, r) /\ r.pc \notin Written
<1> DEFINE old == run[m][s]
<1>1. old \in Run
  BY DEF TypeOK
<1>2. ASSUME NEW l, Goto(m, s, l), l \notin Written
      PROVE  \E r : Becomes(m, s, r) /\ r.pc \notin Written
  <2>1. [old EXCEPT !.pc = l].pc = l
    BY <1>1, RunFields
  <2> QED BY <1>2, <2>1 DEF Goto
<1>3. ASSUME Return(m, s)
      PROVE  \E r : Becomes(m, s, r) /\ r.pc \notin Written
  BY <1>3 DEF Return, Idle, Written
<1>4. CASE LoadMonitor(m, s)
  <2>1. PICK r : Becomes(m, s, r) /\ r.pc = "check"
    BY <1>4 DEF LoadMonitor
  <2> QED BY <1>4, <2>1 DEF LoadMonitor, At, Written, tables, outside
<1>5. CASE BeginCheck(m, s)
  <2>1. [old EXCEPT !.pc = "probe", !.checkedAt = clock].pc = "probe"
    BY <1>1, RunFields
  <2> QED BY <1>5, <2>1 DEF BeginCheck, At, Written, tables, outside
<1>6. CASE EndCheck(m, s)
  <2>1. /\ [old EXCEPT !.pc = "check", !.left = @ - 1].pc = "check"
        /\ [old EXCEPT !.pc = "save", !.left = 0, !.result = target[m]].pc = "save"
    BY <1>1 DEF Run
  <2> QED BY <1>6, <2>1 DEF EndCheck, At, Written, tables, outside
<1>7. CASE SaveHeartbeat(m, s)
  BY <1>2, <1>3, <1>7 DEF SaveHeartbeat, At, Written, tables, outside
<1>8. CASE QueryMaintenance(m, s)
  BY <1>2, <1>8 DEF QueryMaintenance, At, Written, tables, outside
<1> QED BY <1>4, <1>5, <1>6, <1>7, <1>8

(* What makes DashboardIsCurrent inductive: until a run writes, what is    *)
(* shown is what is recorded; from then on, what it is going to show is.   *)
ShownConsistent(r, w, seen) ==
  w.exists =>
    /\ r.pc \in Written => r.result = w.lastStatus
    /\ r.pc \notin Written /\ seen # "none" => seen = w.lastStatus

ShownInv ==
  \A m \in Monitors, s \in Slots :
    ShownConsistent(run[m][s], row[m], shown[m])

(* Without failures, and whatever maintenance there is: when no run of a   *)
(* monitor is under way the dashboards were told the status that is        *)
(* recorded, "maintenance" too.                                            *)
THEOREM DashboardsAgree ==
  ASSUME OneAtATime, NoFailures
  PROVE  Spec => []DashboardIsCurrent
<1>1. Init => ShownInv
  BY DEF Init, ShownInv, ShownConsistent, Idle, Written
<1>2. TypeOK /\ ShownInv /\ [Next]_vars => ShownInv'
  <2> SUFFICES ASSUME TypeOK, ShownInv, [Next]_vars PROVE ShownInv'
    OBVIOUS
  <2>1. ~Fails /\ ~Restart
    BY NothingFails
  <2>2. ASSUME NEW m \in Monitors, NEW s \in Slots, NEW r, Becomes(m, s, r),
               ShownConsistent(r, row'[m], shown'[m]),
               \A k \in Monitors : k # m => row'[k] = row[k] /\ shown'[k] = shown[k]
        PROVE  ShownInv'
    BY <2>2, RunOfOne DEF ShownInv
  <2>3. \A m \in Monitors, s \in Slots :
          run[m][s] \in Run /\ ShownConsistent(run[m][s], row[m], shown[m])
    BY DEF TypeOK, ShownInv
  <2>4. ASSUME NEW m \in Monitors, NEW s \in Slots,
               \/ LoadMonitor(m, s) \/ BeginCheck(m, s) \/ EndCheck(m, s)
               \/ SaveHeartbeat(m, s) \/ QueryMaintenance(m, s)
        PROVE  ShownInv'
    BY <2>2, <2>3, <2>4, BeforeWriting DEF ShownConsistent
  <2>5. ASSUME NEW m \in Monitors, NEW s \in Slots, Suppress(m, s)
        PROVE  ShownInv'
    <3> DEFINE r == [run[m][s] EXCEPT !.pc = "broadcast", !.result = "maintenance"]
    <3>1. Becomes(m, s, r) /\ r.result = "maintenance" /\ r.pc \in Written
      BY <2>3, <2>5, RunFields DEF Suppress, Written
    <3> HIDE DEF r
    <3>2. ShownConsistent(r, row'[m], shown'[m])
      BY <2>1, <2>5, <3>1, StatusWritten DEF Suppress, ShownConsistent
    <3> QED BY <2>1, <2>2, <2>5, <3>1, <3>2, StatusWritten DEF Suppress, outside
  <2>6. ASSUME NEW m \in Monitors, NEW s \in Slots, WriteStatus(m, s)
        PROVE  ShownInv'
    <3> DEFINE r == [run[m][s] EXCEPT !.pc = Branch(run[m][s])]
    <3>1. Becomes(m, s, r) /\ r.result = run[m][s].result /\ r.pc = Branch(run[m][s])
      BY <2>3, <2>6, RunFields DEF WriteStatus, Goto
    <3> HIDE DEF r
    <3>2. r.pc \in Written
      BY <3>1, BranchCases DEF Written
    <3>3. ShownConsistent(r, row'[m], shown'[m])
      BY <2>1, <2>6, <3>1, <3>2, StatusWritten DEF WriteStatus, ShownConsistent
    <3> QED BY <2>1, <2>2, <2>6, <3>1, <3>3, StatusWritten DEF WriteStatus, outside
  <2>7. ASSUME NEW m \in Monitors, NEW s \in Slots,
               OpenIncident(m, s) \/ ResolveIncident(m, s) \/ SpawnNotify(m, s)
        PROVE  ShownInv'
    <3>1. /\ UNCHANGED <<row, shown>> /\ run[m][s].pc \in Written
          /\ Goto(m, s, "notify") \/ Goto(m, s, "broadcast")
      BY <2>7 DEF OpenIncident, ResolveIncident, SpawnNotify, At, Written,
                  tables, outside
    <3>2. PICK l \in Written : Goto(m, s, l)
      BY <3>1 DEF Written
    <3> DEFINE r == [run[m][s] EXCEPT !.pc = l]
    <3>3. Becomes(m, s, r) /\ r.pc = l /\ r.result = run[m][s].result
      BY <2>3, <3>2, RunFields DEF Goto
    <3> HIDE DEF r
    <3>4. ShownConsistent(r, row'[m], shown'[m])
      BY <2>3, <3>1, <3>2, <3>3 DEF ShownConsistent
    <3> QED BY <2>2, <3>1, <3>3, <3>4
  <2>8. ASSUME NEW m \in Monitors, NEW s \in Slots, BroadcastStatus(m, s)
        PROVE  ShownInv'
    <3>1. /\ UNCHANGED row /\ run[m][s].pc = "broadcast" /\ Becomes(m, s, Idle)
          /\ shown' = [shown EXCEPT ![m] = run[m][s].result]
      BY <2>8 DEF BroadcastStatus, At, Return, tables
    <3>2. /\ shown'[m] = run[m][s].result
          /\ \A k \in Monitors : k # m => shown'[k] = shown[k]
      BY <3>1 DEF TypeOK
    <3>3. ShownConsistent(Idle, row'[m], shown'[m])
      BY <2>3, <3>1, <3>2 DEF ShownConsistent, Idle, Written
    <3> QED BY <2>2, <3>1, <3>2, <3>3
  <2>9. ASSUME Handlers PROVE ShownInv'
    <3>1. ASSUME NEW m \in Monitors, UpdateMonitor(m) PROVE ShownInv'
      <4>1. \A k \in Monitors : /\ row'[k].exists = row[k].exists
                                /\ row'[k].lastStatus = row[k].lastStatus
        BY <3>1 DEF UpdateMonitor, TypeOK, Row
      <4> QED BY <3>1, <4>1 DEF UpdateMonitor, ShownInv, ShownConsistent, outside
    <3>2. ASSUME NEW m \in Monitors, DeleteMonitor(m) PROVE ShownInv'
      BY <3>2 DEF DeleteMonitor, ShownInv, ShownConsistent, TypeOK, outside
    <3>3. CreateWindow \/ DeleteWindow \/ DeleteExpiredWindows => ShownInv'
      BY DEF CreateWindow, DeleteWindow, DeleteExpiredWindows, ShownInv, outside
    <3> QED BY <2>9, <3>1, <3>2, <3>3 DEF Handlers
  <2>10. CASE Environment \/ UNCHANGED vars
    BY <2>1, <2>10 DEF Environment, Tick, Flip, tables, outside, vars, ShownInv
  <2> QED
    BY <2>4, <2>5, <2>6, <2>7, <2>8, <2>9, <2>10 DEF Next, RunCheck, Continue
<1>3. ShownInv /\ OneAtATime => DashboardIsCurrent
  BY DEF ShownInv, ShownConsistent, DashboardIsCurrent, Quiet, At, OneAtATime, Written
<1> QED BY <1>1, <1>2, <1>3, TypeCorrect, PTL DEF Spec

(* What makes AnnouncedMatchesIncident inductive: once the incident is     *)
(* opened or resolved it is the run that agrees with the log, until it has *)
(* told the notifier.                                                      *)
AnnouncedConsistent(r, w, log, told) ==
  /\ r.pc = "open" => r.result = "down"
  /\ r.pc = "resolve" => r.result = "up"
  /\ w.exists =>
       (SomeOpen(log) <=> IF r.pc = "notify" THEN r.result = "down" ELSE told = "down")

AnnouncedInv ==
  \A m \in Monitors, s \in Slots :
    AnnouncedConsistent(run[m][s], row[m], incidents[m], announced[m])

(* Without failures, and whatever maintenance there is: when no run of a   *)
(* monitor is under way, the last event its channels were told is "down"   *)
(* exactly if an incident is open.                                         *)
THEOREM NotifierAgrees ==
  ASSUME OneAtATime, NoFailures
  PROVE  Spec => []AnnouncedMatchesIncident
<1>1. Init => AnnouncedInv
  BY DEF Init, AnnouncedInv, AnnouncedConsistent, Idle, SomeOpen
<1>2. TypeOK /\ AnnouncedInv /\ [Next]_vars => AnnouncedInv'
  <2> SUFFICES ASSUME TypeOK, AnnouncedInv, [Next]_vars PROVE AnnouncedInv'
    OBVIOUS
  <2>1. ~Fails /\ ~Restart
    BY NothingFails
  <2>2. ASSUME NEW m \in Monitors, NEW s \in Slots, NEW r, Becomes(m, s, r),
               AnnouncedConsistent(r, row'[m], incidents'[m], announced'[m]),
               \A k \in Monitors : k # m => /\ row'[k] = row[k]
                                            /\ incidents'[k] = incidents[k]
                                            /\ announced'[k] = announced[k]
        PROVE  AnnouncedInv'
    BY <2>2, RunOfOne DEF AnnouncedInv
  <2>3. \A m \in Monitors, s \in Slots :
          /\ run[m][s] \in Run
          /\ AnnouncedConsistent(run[m][s], row[m], incidents[m], announced[m])
    BY DEF TypeOK, AnnouncedInv
  <2>4. ASSUME NEW m \in Monitors, NEW s \in Slots,
               \/ LoadMonitor(m, s) \/ BeginCheck(m, s) \/ EndCheck(m, s)
               \/ SaveHeartbeat(m, s) \/ QueryMaintenance(m, s)
        PROVE  AnnouncedInv'
    BY <2>2, <2>3, <2>4, BeforeWriting DEF AnnouncedConsistent, Written
  <2>5. ASSUME NEW m \in Monitors, NEW s \in Slots, Suppress(m, s)
        PROVE  AnnouncedInv'
    <3> DEFINE r == [run[m][s] EXCEPT !.pc = "broadcast", !.result = "maintenance"]
    <3>1. /\ Becomes(m, s, r) /\ r.pc = "broadcast" /\ run[m][s].pc = "suppress"
          /\ UNCHANGED <<incidents, announced>>
      BY <2>3, <2>5, RunFields DEF Suppress, At, outside
    <3> HIDE DEF r
    <3>2. AnnouncedConsistent(r, row'[m], incidents'[m], announced'[m])
      BY <2>1, <2>3, <2>5, <3>1, StatusWritten DEF Suppress, AnnouncedConsistent
    <3> QED BY <2>1, <2>2, <2>5, <3>1, <3>2, StatusWritten DEF Suppress
  <2>6. ASSUME NEW m \in Monitors, NEW s \in Slots, WriteStatus(m, s)
        PROVE  AnnouncedInv'
    <3> DEFINE r == [run[m][s] EXCEPT !.pc = Branch(run[m][s])]
    <3>1. /\ Becomes(m, s, r) /\ r.pc = Branch(run[m][s])
          /\ r.result = run[m][s].result /\ run[m][s].pc = "status"
          /\ UNCHANGED <<incidents, announced>>
      BY <2>3, <2>6, RunFields DEF WriteStatus, Goto, At, outside
    <3> HIDE DEF r
    <3>2. AnnouncedConsistent(r, row'[m], incidents'[m], announced'[m])
      BY <2>1, <2>3, <2>6, <3>1, StatusWritten, BranchCases
      DEF WriteStatus, AnnouncedConsistent
    <3> QED BY <2>1, <2>2, <2>6, <3>1, <3>2, StatusWritten DEF WriteStatus
  <2>7. ASSUME NEW m \in Monitors, NEW s \in Slots, OpenIncident(m, s)
        PROVE  AnnouncedInv'
    <3> DEFINE r == [run[m][s] EXCEPT !.pc = "notify"]
    <3>1. /\ Becomes(m, s, r) /\ r.pc = "notify" /\ r.result = run[m][s].result
          /\ run[m][s].pc = "open" /\ UNCHANGED <<row, announced>>
      BY <2>3, <2>7, RunFields DEF OpenIncident, Goto, At, outside
    <3> HIDE DEF r
    <3>2. row[m].exists => SomeOpen(incidents'[m])
      BY <2>1, <2>7, OpenedIsOpen
    <3>3. AnnouncedConsistent(r, row'[m], incidents'[m], announced'[m])
      BY <2>3, <3>1, <3>2 DEF AnnouncedConsistent
    <3> QED BY <2>2, <2>7, <3>1, <3>3, OthersKept
  <2>8. ASSUME NEW m \in Monitors, NEW s \in Slots, ResolveIncident(m, s)
        PROVE  AnnouncedInv'
    <3> DEFINE r == [run[m][s] EXCEPT !.pc = "notify"]
    <3>1. /\ Becomes(m, s, r) /\ r.pc = "notify" /\ r.result = run[m][s].result
          /\ run[m][s].pc = "resolve" /\ UNCHANGED <<row, announced>>
      BY <2>3, <2>8, RunFields DEF ResolveIncident, Goto, At, outside
    <3> HIDE DEF r
    <3>2. /\ incidents'[m] = Resolved(incidents[m], run[m][s].checkedAt)
          /\ incidents[m] \in Seq(Incident) /\ run[m][s].checkedAt \in Time
      BY <2>1, <2>3, <2>8 DEF ResolveIncident, TypeOK, Run
    <3>3. ~SomeOpen(incidents'[m])
      BY <3>2, ResolvedCloses DEF SomeOpen
    <3>4. AnnouncedConsistent(r, row'[m], incidents'[m], announced'[m])
      BY <2>3, <3>1, <3>3 DEF AnnouncedConsistent
    <3> QED BY <2>2, <2>8, <3>1, <3>4, OthersKept
  <2>9. ASSUME NEW m \in Monitors, NEW s \in Slots, SpawnNotify(m, s)
        PROVE  AnnouncedInv'
    <3> DEFINE r == [run[m][s] EXCEPT !.pc = "broadcast"]
    <3>1. /\ Becomes(m, s, r) /\ r.pc = "broadcast" /\ run[m][s].pc = "notify"
          /\ UNCHANGED <<row, incidents>>
      BY <2>3, <2>9, RunFields DEF SpawnNotify, Goto, At, tables
    <3> HIDE DEF r
    <3>2. /\ announced'[m] = run[m][s].result
          /\ \A k \in Monitors : k # m => announced'[k] = announced[k]
      BY <2>9 DEF SpawnNotify, TypeOK
    <3>3. AnnouncedConsistent(r, row'[m], incidents'[m], announced'[m])
      BY <2>3, <3>1, <3>2 DEF AnnouncedConsistent
    <3> QED BY <2>2, <3>1, <3>2, <3>3
  <2>10. ASSUME NEW m \in Monitors, NEW s \in Slots, BroadcastStatus(m, s)
         PROVE  AnnouncedInv'
    <3>1. /\ UNCHANGED <<row, incidents, announced>> /\ run[m][s].pc = "broadcast"
          /\ Becomes(m, s, Idle)
      BY <2>10 DEF BroadcastStatus, At, Return, tables
    <3>2. AnnouncedConsistent(Idle, row'[m], incidents'[m], announced'[m])
      BY <2>3, <3>1 DEF AnnouncedConsistent, Idle
    <3> QED BY <2>2, <3>1, <3>2
  <2>11. ASSUME Handlers PROVE AnnouncedInv'
    <3>1. ASSUME NEW m \in Monitors, UpdateMonitor(m) PROVE AnnouncedInv'
      <4>1. \A k \in Monitors : row'[k].exists = row[k].exists
        BY <3>1 DEF UpdateMonitor, TypeOK, Row
      <4> QED
        BY <3>1, <4>1 DEF UpdateMonitor, AnnouncedInv, AnnouncedConsistent, outside
    <3>2. ASSUME NEW m \in Monitors, DeleteMonitor(m) PROVE AnnouncedInv'
      BY <3>2
      DEF DeleteMonitor, AnnouncedInv, AnnouncedConsistent, TypeOK, outside
    <3>3. CreateWindow \/ DeleteWindow \/ DeleteExpiredWindows => AnnouncedInv'
      BY DEF CreateWindow, DeleteWindow, DeleteExpiredWindows, AnnouncedInv, outside
    <3> QED BY <2>11, <3>1, <3>2, <3>3 DEF Handlers
  <2>12. CASE Environment \/ UNCHANGED vars
    BY <2>1, <2>12
    DEF Environment, Tick, Flip, tables, outside, vars, AnnouncedInv
  <2> QED
    BY <2>4, <2>5, <2>6, <2>7, <2>8, <2>9, <2>10, <2>11, <2>12
    DEF Next, RunCheck, Continue
<1>3. AnnouncedInv /\ OneAtATime => AnnouncedMatchesIncident
  BY DEF AnnouncedInv, AnnouncedConsistent, AnnouncedMatchesIncident, Quiet, At,
         OneAtATime, HasOpen
<1> QED BY <1>1, <1>2, <1>3, TypeCorrect, PTL DEF Spec
=============================================================================
