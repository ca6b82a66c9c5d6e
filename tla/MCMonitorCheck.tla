--------------------------- MODULE MCMonitorCheck ---------------------------
(* Instances of MonitorCheck for TLC. *)
EXTENDS MonitorCheck

MCNoRetries  == [m \in Monitors |-> 0]
MCOneRetries == [m \in Monitors |-> 1]
=============================================================================
