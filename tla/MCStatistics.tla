---------------------------- MODULE MCStatistics ----------------------------
(* Instances of Statistics for TLC.  The proportions are those of the code: *)
(* the window of the minutely table is two periods of the ticker and more  *)
(* than two of its buckets, the others are two buckets; what is kept       *)
(* outlasts the windows and the ranges that read a table.                  *)
EXTENDS Statistics, TLC

CONSTANTS m1, m2

MCLevels == {"minutely", "hourly", "daily"}

ByLevel(minutely, hourly, daily) ==
  [l \in MCLevels |-> CASE l = "minutely" -> minutely
                        [] l = "hourly"   -> hourly
                        [] l = "daily"    -> daily]

MCBucket == ByLevel(2, 3, 4)
MCWindow == ByLevel(6, 6, 8)
MCKeep   == ByLevel(7, 12, 12)

MCLength ==
  [r \in {"24h", "15d", "90d"} |-> CASE r = "24h" -> 5
                                     [] r = "15d" -> 7
                                     [] r = "90d" -> 12]
Checks(n1, n2) == (m1 :> n1) @@ (m2 :> n2)

MCBudgets ==
  {[time |-> 9, checks |-> Checks(3, 0), queries |-> 0, faults |-> 1, restarts |-> 0],
   [time |-> 9, checks |-> Checks(1, 1), queries |-> 0, faults |-> 0, restarts |-> 1],
   [time |-> 5, checks |-> Checks(2, 0), queries |-> 1, faults |-> 0, restarts |-> 0]}
=============================================================================
