----------------------------- MODULE Statistics -----------------------------
(***************************************************************************)
(* The statistics tables.  Checks save heartbeats; the aggregator's loop   *)
(* takes a tick of its ticker from time to time, counts the heartbeats of  *)
(* a sliding window into the buckets of three tables, deletes what is old  *)
(* and then sends the reminders, which may take any time.  The tables are  *)
(* read by the statistics queries; the 24-hour uptime is computed from     *)
(* two counts of the heartbeats themselves.                                *)
(*                                                                         *)
(* Ping times, which are averaged beside the counts, are left out.         *)
(***************************************************************************)
EXTENDS Integers, FiniteSets, FiniteSetsExt

CONSTANTS Monitors,     \* monitor ids
          Levels,       \* the statistics tables
          Bucket,       \* Bucket[l]: length of a bucket of table l
          Window,       \* Window[l]: how far back a tick counts for table l
          Keep,         \* Keep[l]: age at which a row of table l is deleted
          RawKeep,      \* age at which a heartbeat is deleted
          TickEvery,    \* period of the ticker
          Length,       \* Length[r]: how far back range r of a query reaches
          Overview,     \* how far back the overview of all monitors reaches
          Day,          \* how far back the uptime of a monitor is counted
          Latency,      \* bound: time from the stamp of a check to its saving
          Budgets       \* bounds: the time a behaviour takes and its numbers of
                        \* checks, queries, failing transactions and restarts

Budget == [time : Nat, checks : [Monitors -> Nat], queries : Nat, faults : Nat, restarts : Nat]

ASSUME StatisticsAssumption ==
  /\ Bucket \in [Levels -> Nat \ {0}]
  /\ Window \in [Levels -> 0..RawKeep] /\ Keep \in [Levels -> Nat]
  /\ RawKeep \in Nat /\ TickEvery \in Nat \ {0} /\ {Day, Overview} \subseteq Nat
  /\ Length \in [DOMAIN Length -> Nat]
  /\ Latency \in Nat
  /\ Budgets \subseteq Budget

(* The table that answers a range.  It keeps its rows as long.             *)
TableOf(range) ==
  CASE range \in {"1h", "3h", "6h", "24h"} -> "minutely"
    [] range \in {"48h", "7d", "15d"}      -> "hourly"
    [] range \in {"30d", "90d"}            -> "daily"

ASSUME RangesAssumption ==
  /\ DOMAIN Length \subseteq
       {"1h", "3h", "6h", "24h", "48h", "7d", "15d", "30d", "90d"}
  /\ {"minutely", "hourly", "daily"} \subseteq Levels
  /\ \A range \in DOMAIN Length : Length[range] <= Keep[TableOf(range)]

VARIABLES
  heartbeats,  \* the heartbeats table
  stats,       \* stats[l]: the rows of statistics table l
  checks,      \* checks whose heartbeat is stamped and not saved yet
  ticked,      \* the ticker's channel holds a tick; it holds one at most
  started,     \* when the ticker was made
  sending,     \* the loop is sending reminders
  uptime,      \* the uptime query under way, and the last answer
  clock,
  budget,      \* what is left of the bounds
  recorded,    \* history: every heartbeat that was ever saved
  seen,        \* history: those the last aggregation found recorded
  lastTick,    \* history: when the last aggregation took place
  longest      \* history: the longest time between two aggregations

vars == <<heartbeats, stats, checks, ticked, started, sending, uptime, clock,
          budget, recorded, seen, lastTick, longest>>

Heartbeat == [monitor : Monitors, at : Nat, up : BOOLEAN]
Row       == [monitor : Monitors, bucket : Nat, up : Nat, total : Nat]

Query     == [pc : {"idle", "asked", "counted", "answered"}, since : Int, total : Nat,
              up : Nat, saved : Nat]

NoQuery == [pc |-> "idle", since |-> 0, total |-> 0, up |-> 0, saved |-> 0]

tables  == <<heartbeats, stats>>
history == <<recorded, seen, lastTick, longest>>
loop    == <<ticked, started, sending>>

Spend(what) == budget[what] > 0 /\ budget' = [budget EXCEPT ![what] = @ - 1]

Init ==
  /\ heartbeats = {} /\ stats = [l \in Levels |-> {}]
  /\ checks = {} /\ ticked = FALSE /\ started = 0 /\ sending = FALSE
  /\ uptime = [m \in Monitors |-> NoQuery]
  /\ clock = 0 /\ budget \in Budgets
  /\ recorded = {} /\ seen = {} /\ lastTick = 0 /\ longest = 0

-----------------------------------------------------------------------------
(* Heartbeats.                                                             *)

(* A check stamps its heartbeat when it begins.  No two heartbeats of a    *)
(* monitor have the same stamp, as it has microseconds.                    *)
Check(m) ==
  /\ budget.checks[m] > 0 /\ budget' = [budget EXCEPT !.checks[m] = @ - 1]
  /\ \A h \in recorded \cup checks : h.monitor = m => h.at # clock
  /\ \E up \in BOOLEAN :
       checks' = checks \cup {[monitor |-> m, at |-> clock, up |-> up]}
  /\ UNCHANGED <<tables, loop, uptime, clock, history>>

(* heartbeatRepo.Create: the row is saved under the stamp of the check.    *)
Create(h) ==
  /\ h \in checks
  /\ checks' = checks \ {h}
  /\ heartbeats' = heartbeats \cup {h}
  /\ recorded' = recorded \cup {h}
  /\ uptime' = [uptime EXCEPT ![h.monitor].saved =
                  IF uptime[h.monitor].pc = "counted" THEN @ + 1 ELSE @]
  /\ UNCHANGED <<stats, loop, clock, budget,
                 seen, lastTick, longest>>

-----------------------------------------------------------------------------
(* The aggregator.                                                         *)

(* date_trunc                                                              *)
BucketOf(l, at) == at - (at % Bucket[l])

InBucket(l, m, b, beat) ==
  {h \in beat : h.monitor = m /\ BucketOf(l, h.at) = b}

CountUp(beat) == Cardinality({h \in beat : h.up})

(* SELECT ... COUNT ... GROUP BY monitor and bucket                        *)
Grouped(l, beat) ==
  {LET b == BucketOf(l, h.at)
       group == InBucket(l, h.monitor, b, beat)
   IN  [monitor |-> h.monitor, bucket |-> b,
        up |-> CountUp(group), total |-> Cardinality(group)] : h \in beat}

KeepsOldRows(l) ==   \* mutant: ON CONFLICT DO NOTHING
  LET fresh == Grouped(l, {h \in heartbeats : h.at >= clock - Window[l]})
  IN  stats[l] \cup {r \in fresh : ~\E q \in stats[l] : q.monitor = r.monitor
                                                    /\ q.bucket = r.bucket}

AddsToOldRows(l) ==   \* mutant: total_count + EXCLUDED.total_count
  LET fresh == Grouped(l, {h \in heartbeats : h.at >= clock - Window[l]})
      same(r, q) == q.monitor = r.monitor /\ q.bucket = r.bucket
  IN  {q \in stats[l] : ~\E r \in fresh : same(r, q)}
      \cup {r \in fresh : ~\E q \in stats[l] : same(r, q)}
      \cup {[p[1] EXCEPT !.total = @ + p[2].total, !.up = @ + p[2].up] :
              p \in {x \in fresh \X stats[l] : same(x[1], x[2])}}

OneTickOnly(l) ==   \* mutant: the window is one period of the ticker
  LET fresh == Grouped(l, {h \in heartbeats : h.at >= clock - TickEvery})
  IN  {q \in stats[l] : ~\E r \in fresh : r.monitor = q.monitor
                                       /\ r.bucket = q.bucket} \cup fresh

(* INSERT ... SELECT ... ON CONFLICT DO UPDATE: the heartbeats that are not *)
(* older than the window are counted by bucket, and the count takes the    *)
(* place of the row that the bucket had.                                   *)
Upserted(l) ==
  LET fresh == Grouped(l, {h \in heartbeats : h.at >= clock - Window[l]})
  IN  {q \in stats[l] : ~\E r \in fresh : r.monitor = q.monitor
                                       /\ r.bucket = q.bucket} \cup fresh

(* The loop takes a tick.  One transaction fills the three tables and then *)
(* deletes heartbeats and rows that are too old; the reminders follow.     *)
Tick ==
  /\ ticked /\ ~sending
  /\ ticked' = FALSE /\ sending' = TRUE
  /\ stats' = [l \in Levels |-> {r \in Upserted(l) : r.bucket >= clock - Keep[l]}]
  /\ heartbeats' = {h \in heartbeats : h.at >= clock - RawKeep}
  /\ seen' = recorded /\ lastTick' = clock
  /\ longest' = IF clock - lastTick > longest THEN clock - lastTick ELSE longest
  /\ UNCHANGED <<checks, started, uptime, clock, budget, recorded>>

(* The transaction is rolled back; the loop goes on, without reminders.    *)
TickFails ==
  /\ ticked /\ ~sending
  /\ Spend("faults")
  /\ ticked' = FALSE
  /\ UNCHANGED <<tables, checks, started, sending, uptime, clock,
                 history>>

(* NotifyReminders returns, with whatever error.                           *)
RemindersSent ==
  /\ sending
  /\ sending' = FALSE
  /\ UNCHANGED <<tables, checks, ticked, started, uptime, clock, budget,
                 history>>

-----------------------------------------------------------------------------
(* Queries.                                                                *)

Rows(l, m, since) == {r \in stats[l] : r.monitor = m /\ r.bucket >= since}

GetMinutely(m, since) == Rows("minutely", m, since)
GetHourly(m, since)   == Rows("hourly", m, since)
GetDaily(m, since)    == Rows("daily", m, since)

(* The buckets and the sums that the uptime of a range is computed from.   *)
GetStats(m, range) ==
  LET since == clock - Length[range]
      buckets ==
        CASE range \in {"1h", "3h", "6h", "24h"} -> GetMinutely(m, since)
          [] range \in {"48h", "7d", "15d"}      -> GetHourly(m, since)
          [] range \in {"30d", "90d"}            -> GetDaily(m, since)
  IN  [buckets |-> buckets,
       up    |-> MapThenSumSet(LAMBDA r : r.up, buckets),
       total |-> MapThenSumSet(LAMBDA r : r.total, buckets)]

(* The hourly rows of all monitors, added up by hour.                      *)
GetGlobalHourly(since) ==
  LET rows == {r \in stats["hourly"] : r.bucket >= since}
      of(b) == {r \in rows : r.bucket = b}
  IN  {[bucket |-> b, up    |-> MapThenSumSet(LAMBDA r : r.up, of(b)),
                      total |-> MapThenSumSet(LAMBDA r : r.total, of(b))] :
         b \in {r.bucket : r \in rows}}

GetOverview == GetGlobalHourly(clock - Overview)

Since(m, since) == {h \in heartbeats : h.monitor = m /\ h.at >= since}

(* The dashboard asks for the uptime of one monitor, or of all of them.    *)
Get(m) ==
  /\ uptime[m].pc \in {"idle", "answered"}
  /\ Spend("queries")
  /\ uptime' = [uptime EXCEPT ![m] = [NoQuery EXCEPT !.pc = "asked"]]
  /\ UNCHANGED <<tables, checks, loop, clock, history>>

List ==
  /\ \A m \in Monitors : uptime[m].pc \in {"idle", "answered"}
  /\ Spend("queries")
  /\ uptime' = [m \in Monitors |-> [NoQuery EXCEPT !.pc = "asked"]]
  /\ UNCHANGED <<tables, checks, loop, clock, history>>

(* GetUptime counts the heartbeats since a day ago, for one monitor of a   *)
(* list after the other, ...                                               *)
CountTotal(m) ==
  /\ uptime[m].pc = "asked"
  /\ \A o \in Monitors : uptime[o].pc # "counted"
  /\ uptime' = [uptime EXCEPT ![m] =
       [pc |-> "counted", since |-> clock - Day, up |-> 0, saved |-> 0,
        total |-> Cardinality(Since(m, clock - Day))]]
  /\ UNCHANGED <<tables, checks, loop, clock, budget, history>>

CountUpEver(m) ==   \* mutant: the second query has no lower bound
  /\ uptime[m].pc = "counted"
  /\ uptime' = [uptime EXCEPT ![m].pc = "answered",
                              ![m].up = CountUp(Since(m, 0))]
  /\ UNCHANGED <<tables, checks, loop, clock, budget, history>>

(* ... and then those among them that are up, with a query of its own.     *)
CountUpSince(m) ==
  /\ uptime[m].pc = "counted"
  /\ uptime' = [uptime EXCEPT ![m].pc = "answered",
                              ![m].up = CountUp(Since(m, uptime[m].since))]
  /\ UNCHANGED <<tables, checks, loop, clock, budget, history>>

(* resolveStats: the fraction that is answered, 0 without heartbeats.      *)
Fraction(q) == IF q.total > 0 THEN <<q.up, q.total>> ELSE <<0, 1>>

-----------------------------------------------------------------------------
(* The world.                                                              *)

(* The ticker sends into its channel at every period, unless a tick is     *)
(* there already.  A check is saved within the latency.                    *)
Elapse ==
  /\ clock < budget.time
  /\ \A h \in checks : clock - h.at < Latency
  /\ clock' = clock + 1
  /\ ticked' = (ticked \/ (clock + 1 - started) % TickEvery = 0)
  /\ UNCHANGED <<tables, checks, started, sending, uptime, budget,
                 history>>

(* The process ends with the checks, the loop and the queries, and is      *)
(* started with a new ticker.                                              *)
Restart ==
  /\ Spend("restarts")
  /\ checks' = {} /\ ticked' = FALSE /\ sending' = FALSE /\ started' = clock
  /\ uptime' = [m \in Monitors |-> NoQuery]
  /\ UNCHANGED <<tables, clock, history>>

Next ==
  \/ \E m \in Monitors : Check(m) \/ Get(m) \/ CountTotal(m) \/ CountUpSince(m)
  \/ List
  \/ \E h \in checks : Create(h)
  \/ Tick \/ TickFails \/ RemindersSent
  \/ Elapse \/ Restart

Spec == Init /\ [][Next]_vars

-----------------------------------------------------------------------------
(* Properties.                                                             *)

(* The variables hold what the tables and the Go types allow.              *)
TypeOK ==
  /\ heartbeats \subseteq Heartbeat /\ checks \subseteq Heartbeat
  /\ stats \in [Levels -> SUBSET Row]
  /\ ticked \in BOOLEAN /\ sending \in BOOLEAN /\ started \in Nat
  /\ uptime \in [Monitors -> Query]
  /\ clock \in Nat /\ budget \in Budget
  /\ recorded \subseteq Heartbeat /\ seen \subseteq recorded
  /\ lastTick \in Nat /\ longest \in Nat

RowIsExact(l, r) ==
  LET group == InBucket(l, r.monitor, r.bucket, seen)
  IN  r.total = Cardinality(group) /\ r.up = CountUp(group)

(* A row counts some of the checks of its bucket.                          *)
RowIsSound(l, r) ==
  LET group == InBucket(l, r.monitor, r.bucket, seen)
  IN  /\ r.total \in 1..Cardinality(group)
      /\ r.up <= CountUp(group)
      /\ r.total - r.up <= Cardinality(group) - CountUp(group)
      /\ \A q \in stats[l] : q.monitor = r.monitor /\ q.bucket = r.bucket => q = r

(* However often the counts of a bucket are replaced, whatever part of it  *)
(* the window still covers and whatever was deleted since, a bucket has    *)
(* one row, which never counts a check that did not take place nor an up   *)
(* check that was not; nor does the overview that adds the rows up.        *)
RowsAreSound ==
  /\ \A l \in Levels : \A r \in stats[l] : RowIsSound(l, r)
  /\ \A g \in GetOverview :
       LET group == {h \in seen : BucketOf("hourly", h.at) = g.bucket}
       IN  g.total <= Cardinality(group) /\ g.up <= CountUp(group)

(* The aggregator replaces the oldest bucket of its window by a count of   *)
(* the part inside the window; the buckets that the window covered whole   *)
(* at the last aggregation are right, also those that had a row before.    *)
CoveredRowsAreExact ==
  \A l \in Levels : \A r \in stats[l] :
    r.bucket >= lastTick - Window[l] => RowIsExact(l, r)

(* No check is lost to the statistics: as long as two aggregations are not *)
(* further apart than the window allows, a check that was saved before the *)
(* last one is in a bucket that every range reaching back to the bucket    *)
(* returns, up to its deletion; however late it was saved, and whether or  *)
(* not ticks were dropped behind slow reminders, failed or came after a    *)
(* restart.                                                                *)
AnswersCoverTheRange ==
  \A range \in DOMAIN Length, h \in recorded :
    LET answer == GetStats(h.monitor, range)
        l == TableOf(range)
        b == BucketOf(l, h.at)
    IN  /\ longest + Latency <= Window[l]
        /\ h.at + Latency < lastTick
        /\ b >= clock - Length[range]
        => \E q \in answer.buckets : q.bucket = b

(* The uptime of the last day, made of two counts between which checks are *)
(* saved and heartbeats deleted, exceeds 100 % by no more than the checks  *)
(* that were saved between the two.                                        *)
UptimeIsBounded ==
  \A m \in Monitors :
    LET f == Fraction(uptime[m])
    IN  uptime[m].pc = "answered" => f[1] <= f[2] + uptime[m].saved

=============================================================================
