--------------------------- MODULE IncidentLedger ---------------------------
(***************************************************************************)
(* What the incidents table promises to its readers (the incident list,    *)
(* the monitor statistics, the status page), whoever writes it: for every  *)
(* monitor a log of outages that only grows, whose last entry alone may be *)
(* unresolved, and whose resolved entries never change.  The log goes only *)
(* with its monitor.  MonitorCheck is shown to implement this module.      *)
(***************************************************************************)
EXTENDS Naturals, Sequences

CONSTANTS Monitors,     \* the monitors
          Time,         \* the instants a check may carry
          None          \* resolved_at IS NULL

VARIABLES incidents     \* incidents[m]: the rows of m, in the order of their ids

OpenRow(t) == [startedAt |-> t, resolvedAt |-> None]

IsOpen(log) == log # << >> /\ log[Len(log)].resolvedAt = None

Init == incidents = [m \in Monitors |-> << >>]

Begin(m) ==
  /\ ~IsOpen(incidents[m])
  /\ \E t \in Time :
       incidents' = [incidents EXCEPT ![m] = Append(@, OpenRow(t))]

End(m) ==
  /\ IsOpen(incidents[m])
  /\ \E t \in Time :
       incidents' = [incidents EXCEPT ![m][Len(incidents[m])].resolvedAt = t]

Forget(m) == incidents' = [incidents EXCEPT ![m] = << >>]

Next == \E m \in Monitors : Begin(m) \/ End(m) \/ Forget(m)

Spec == Init /\ [][Next]_incidents
=============================================================================
