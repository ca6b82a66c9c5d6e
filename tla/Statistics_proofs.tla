-------------------------- MODULE Statistics_proofs --------------------------
(***************************************************************************)
(* Theorems about Statistics, for every set of monitors, any tables with   *)
(* their buckets and windows, and every value of the bounds.               *)
(***************************************************************************)
EXTENDS Statistics, FiniteSetTheorems, FunctionTheorems, WellFoundedInduction, TLAPS

(* A bucket begins no later than what is counted in it.                    *)
LEMMA BucketBegins ==
  ASSUME NEW l \in Levels, NEW at \in Nat
  PROVE  BucketOf(l, at) \in Nat /\ BucketOf(l, at) <= at
<1> DEFINE b == Bucket[l]
<1>1. b \in Nat \ {0}
  BY StatisticsAssumption
<1> HIDE DEF b
<1>2. at % b \in 0..(b - 1) /\ at % b <= at
  BY <1>1
<1>3. QED
  BY <1>2 DEF BucketOf, b

-----------------------------------------------------------------------------
(* Types.                                                                  *)

TypeInv == TypeOK /\ IsFiniteSet(heartbeats)

LEMMA CountUpType ==
  ASSUME NEW beat, IsFiniteSet(beat)
  PROVE  Cardinality(beat) \in Nat /\ CountUp(beat) \in Nat
BY FS_Subset, FS_CardinalityType DEF CountUp

LEMMA GroupedType ==
  ASSUME NEW l \in Levels, NEW beat \in SUBSET Heartbeat, IsFiniteSet(beat)
  PROVE  Grouped(l, beat) \subseteq Row
<1> SUFFICES ASSUME NEW h \in beat
             PROVE  LET b == BucketOf(l, h.at)
                        group == InBucket(l, h.monitor, b, beat)
                    IN  [monitor |-> h.monitor, bucket |-> b,
                         up |-> CountUp(group), total |-> Cardinality(group)] \in Row
  BY DEF Grouped
<1> DEFINE b     == BucketOf(l, h.at)
           group == InBucket(l, h.monitor, b, beat)
<1>1. h.monitor \in Monitors /\ h.at \in Nat
  BY DEF Heartbeat
<1>2. b \in Nat
  BY <1>1, BucketBegins
<1>3. IsFiniteSet(group)
  BY FS_Subset DEF InBucket
<1>4. Cardinality(group) \in Nat /\ CountUp(group) \in Nat
  BY <1>3, CountUpType
<1> HIDE DEF b, group
<1>5. QED
  BY <1>1, <1>2, <1>4 DEF Row, b, group

LEMMA UpsertedType ==
  ASSUME TypeInv, NEW l \in Levels
  PROVE  Upserted(l) \subseteq Row
<1> DEFINE counted == {h \in heartbeats : h.at >= clock - Window[l]}
<1>1. IsFiniteSet(counted)
  BY FS_Subset DEF TypeInv
<1>2. counted \in SUBSET Heartbeat
  BY DEF TypeInv, TypeOK
<1>3. Grouped(l, counted) \subseteq Row
  BY <1>1, <1>2, GroupedType
<1>4. stats[l] \subseteq Row
  BY DEF TypeInv, TypeOK
<1> HIDE DEF counted
<1>5. QED
  BY <1>3, <1>4 DEF Upserted, counted

(* A bound is spent.                                                       *)
LEMMA SpendType ==
  ASSUME budget \in Budget, NEW what \in {"queries", "faults", "restarts"}, Spend(what)
  PROVE  budget' \in Budget
BY DEF Spend, Budget

LEMMA InitType == Init => TypeInv
<1> SUFFICES ASSUME Init PROVE TypeInv
  OBVIOUS
<1>1. budget \in Budget
  BY StatisticsAssumption DEF Init
<1>2. NoQuery \in Query
  BY DEF NoQuery, Query
<1>3. IsFiniteSet(heartbeats)
  BY FS_EmptySet DEF Init
<1>4. QED
  BY <1>1, <1>2, <1>3 DEF Init, TypeInv, TypeOK

LEMMA CheckType == ASSUME TypeInv, NEW m \in Monitors, Check(m) PROVE TypeInv'
<1> USE DEF TypeInv, Check, tables, loop, history
<1>1. budget' \in Budget
  BY DEF TypeOK, Budget
<1>2. checks' \subseteq Heartbeat
  BY DEF TypeOK, Heartbeat
<1>3. QED
  BY <1>1, <1>2 DEF TypeOK

LEMMA CreateType == ASSUME TypeInv, NEW h \in checks, Create(h) PROVE TypeInv'
<1> USE DEF TypeInv, Create, loop
<1>1. h \in Heartbeat /\ h.monitor \in Monitors
  BY DEF TypeOK, Heartbeat
<1>2. IsFiniteSet(heartbeats')
  BY FS_AddElement
<1>3. uptime' \in [Monitors -> Query]
  BY <1>1 DEF TypeOK, Query
<1>4. QED
  BY <1>1, <1>2, <1>3 DEF TypeOK

LEMMA TickType == ASSUME TypeInv, Tick PROVE TypeInv'
<1> USE DEF Tick
<1>1. IsFiniteSet(heartbeats')
  BY FS_Subset DEF TypeInv
<1>2. stats' \in [Levels -> SUBSET Row]
  BY UpsertedType
<1>3. longest' \in Nat
  BY DEF TypeInv, TypeOK
<1>4. QED
  BY <1>1, <1>2, <1>3 DEF TypeInv, TypeOK

LEMMA QueryType ==
  ASSUME TypeInv, NEW m \in Monitors,
         Get(m) \/ List \/ CountTotal(m) \/ CountUpSince(m)
  PROVE  TypeInv'
<1> USE DEF tables, loop, history
<1>1. NoQuery \in Query /\ [NoQuery EXCEPT !.pc = "asked"] \in Query
  BY DEF NoQuery, Query
<1>2. uptime \in [Monitors -> Query] /\ clock \in Nat /\ budget \in Budget
  BY DEF TypeInv, TypeOK
<1>3. ASSUME NEW t PROVE IsFiniteSet(Since(m, t))
  BY FS_Subset DEF TypeInv, Since
<1>4. uptime' \in [Monitors -> Query] /\ budget' \in Budget
  <2>1. CASE Get(m)
    BY <2>1, <1>1, <1>2, SpendType DEF Get
  <2>2. CASE List
    BY <2>2, <1>1, <1>2, SpendType DEF List
  <2>3. CASE CountTotal(m)
    <3>1. Cardinality(Since(m, clock - Day)) \in Nat /\ clock - Day \in Int
      BY <1>2, <1>3, CountUpType, StatisticsAssumption
    <3>2. QED
      BY <2>3, <3>1, <1>2 DEF CountTotal, Query
  <2>4. CASE CountUpSince(m)
    <3>1. CountUp(Since(m, uptime[m].since)) \in Nat
      BY <1>3, CountUpType
    <3>2. QED
      BY <2>4, <3>1, <1>2 DEF CountUpSince, Query
  <2>5. QED
    BY <2>1, <2>2, <2>3, <2>4
<1>5. UNCHANGED <<tables, checks, loop, clock, history>>
  BY DEF Get, List, CountTotal, CountUpSince
<1>6. QED
  BY <1>4, <1>5 DEF TypeInv, TypeOK

LEMMA OthersType ==
  ASSUME TypeInv, TickFails \/ RemindersSent \/ Elapse \/ Restart \/ UNCHANGED vars
  PROVE  TypeInv'
<1> USE DEF tables, loop, history
<1>1. NoQuery \in Query
  BY DEF NoQuery, Query
<1>2. UNCHANGED <<tables, history>>
  BY DEF TickFails, RemindersSent, Elapse, Restart, vars
<1>3. budget' \in Budget
  BY SpendType DEF TypeInv, TypeOK, TickFails, RemindersSent, Elapse, Restart, vars
<1>4. uptime' \in [Monitors -> Query]
  BY <1>1 DEF TypeInv, TypeOK, TickFails, RemindersSent, Elapse, Restart, vars
<1>5. /\ ticked' \in BOOLEAN /\ sending' \in BOOLEAN /\ started' \in Nat
      /\ clock' \in Nat /\ checks' \subseteq Heartbeat
  <2>1. CASE Elapse
    <3>1. ticked' \in BOOLEAN
      BY <2>1, Zenon DEF Elapse
    <3>2. QED
      BY <2>1, <3>1 DEF TypeInv, TypeOK, Elapse
  <2>2. CASE TickFails \/ RemindersSent \/ Restart \/ UNCHANGED vars
    BY <2>2 DEF TypeInv, TypeOK, TickFails, RemindersSent, Restart, vars
  <2>3. QED
    BY <2>1, <2>2
<1>6. QED
  BY <1>2, <1>3, <1>4, <1>5 DEF TypeInv, TypeOK

LEMMA NextType == TypeInv /\ [Next]_vars => TypeInv'
<1> SUFFICES ASSUME TypeInv, [Next]_vars PROVE TypeInv'
  OBVIOUS
<1>1. ASSUME NEW m \in Monitors, Check(m) PROVE TypeInv'
  BY <1>1, CheckType
<1>2. ASSUME NEW m \in Monitors, Get(m) \/ CountTotal(m) \/ CountUpSince(m)
      PROVE  TypeInv'
  BY <1>2, QueryType
<1>3. CASE List
  <2>1. CASE Monitors = {}
    BY <1>3, <2>1, SpendType DEF List, tables, loop, history, TypeInv, TypeOK
  <2>2. CASE Monitors # {}
    BY <1>3, <2>2, QueryType
  <2>3. QED
    BY <2>1, <2>2
<1>4. ASSUME NEW h \in checks, Create(h) PROVE TypeInv'
  BY <1>4, CreateType
<1>5. CASE Tick
  BY <1>5, TickType
<1>6. CASE TickFails \/ RemindersSent \/ Elapse \/ Restart \/ UNCHANGED vars
  BY <1>6, OthersType
<1>7. QED
  BY <1>1, <1>2, <1>3, <1>4, <1>5, <1>6 DEF Next

(* Every variable of Statistics keeps its type; in particular the counts   *)
(* of the tables are natural numbers, for the heartbeats stay finite.      *)
LEMMA TypeInvariant == Spec => []TypeInv
BY InitType, NextType, PTL DEF Spec

THEOREM TypeCorrect == Spec => []TypeOK
<1>1. TypeInv => TypeOK
  BY DEF TypeInv
<1>2. QED
  BY <1>1, TypeInvariant, PTL

-----------------------------------------------------------------------------
(* Covered rows.                                                           *)

(* What has been deleted from the heartbeats is older than the last        *)
(* aggregation would count.                                                *)
KeptInv ==
  /\ heartbeats \subseteq recorded /\ recorded \subseteq Heartbeat
  /\ checks \subseteq Heartbeat /\ seen \subseteq recorded
  /\ clock \in Nat /\ lastTick \in Nat /\ lastTick <= clock
  /\ \A h \in recorded \ heartbeats : h.at < lastTick - RawKeep

(* The bucket of level l and monitor m that begins at b, when its window   *)
(* begins at from and the heartbeats are beat.                             *)
LEMMA CoveredGroup ==
  ASSUME KeptInv, NEW l \in Levels, NEW m, NEW b \in Int, b >= clock - Window[l]
  PROVE  InBucket(l, m, b, {h \in heartbeats : h.at >= clock - Window[l]})
           = InBucket(l, m, b, recorded)
<1> DEFINE counted == {h \in heartbeats : h.at >= clock - Window[l]}
<1>1. Window[l] \in Nat /\ RawKeep \in Nat /\ Window[l] <= RawKeep
  BY StatisticsAssumption
<1>2. counted \subseteq recorded
  BY DEF KeptInv
<1>3. ASSUME NEW h \in recorded, BucketOf(l, h.at) = b
      PROVE  h \in counted
  <2>1. h.at \in Nat
    BY DEF KeptInv, Heartbeat
  <2>2. h.at >= b
    BY <1>3, <2>1, BucketBegins
  <2>3. h.at >= clock - Window[l]
    BY <1>1, <2>1, <2>2 DEF KeptInv
  <2>4. ~(h.at < lastTick - RawKeep)
    BY <1>1, <2>1, <2>3 DEF KeptInv
  <2>5. QED
    BY <2>3, <2>4 DEF KeptInv
<1>4. QED
  BY <1>2, <1>3 DEF InBucket

CoveredInv == KeptInv /\ CoveredRowsAreExact

LEMMA HasGroup ==
  ASSUME NEW l \in Levels, NEW beat, NEW h \in beat
  PROVE  \E q \in Grouped(l, beat) : q.monitor = h.monitor /\ q.bucket = BucketOf(l, h.at)
<1> DEFINE b     == BucketOf(l, h.at)
           group == InBucket(l, h.monitor, b, beat)
           q     == [monitor |-> h.monitor, bucket |-> b,
                     up |-> CountUp(group), total |-> Cardinality(group)]
<1>1. q \in Grouped(l, beat)
  BY DEF Grouped
<1>2. q.monitor = h.monitor /\ q.bucket = b
  OBVIOUS
<1> HIDE DEF q
<1>3. QED
  BY <1>1, <1>2

LEMMA InitCovered == Init => CoveredInv
BY DEF Init, CoveredInv, KeptInv, CoveredRowsAreExact, Heartbeat

LEMMA TickCovers ==
  ASSUME TypeInv, CoveredInv, Tick
  PROVE  CoveredInv'
<1> USE DEF Tick
<1>1. KeptInv
  BY DEF CoveredInv
<1>2. KeptInv'
  <2>1. RawKeep \in Nat
    BY StatisticsAssumption
  <2>2. ASSUME NEW h \in recorded, h \notin heartbeats'
        PROVE  h.at < clock - RawKeep
    <3>1. h.at \in Nat
      BY <1>1 DEF KeptInv, Heartbeat
    <3>2. CASE h \in heartbeats
      BY <3>1, <3>2, <2>1, <2>2, <1>1 DEF KeptInv
    <3>3. CASE h \notin heartbeats
      BY <3>1, <3>3, <2>1, <1>1 DEF KeptInv
    <3>4. QED
      BY <3>2, <3>3
  <2>3. QED
    BY <1>1, <2>2 DEF KeptInv
<1>3. ASSUME NEW l \in Levels, NEW r \in stats'[l], r.bucket >= lastTick' - Window[l]
      PROVE  RowIsExact(l, r)'
  <2> DEFINE counted == {h \in heartbeats : h.at >= clock - Window[l]}
             group   == InBucket(l, r.monitor, r.bucket, recorded)
  <2>1. r \in Upserted(l) /\ r.bucket >= clock - Window[l] /\ seen' = recorded
    BY <1>3
  <2>2. SUFFICES r.total = Cardinality(group) /\ r.up = CountUp(group)
    BY <2>1 DEF RowIsExact, InBucket, BucketOf
  <2>3. CASE r \in Grouped(l, counted)
    <3>1. PICK h \in counted :
            r = [monitor |-> h.monitor, bucket |-> BucketOf(l, h.at),
                 up |-> CountUp(InBucket(l, h.monitor, BucketOf(l, h.at), counted)),
                 total |-> Cardinality(InBucket(l, h.monitor, BucketOf(l, h.at), counted))]
      BY <2>3 DEF Grouped
    <3>2. r.bucket \in Int
      BY <3>1, <1>1, BucketBegins DEF KeptInv, Heartbeat
    <3>3. InBucket(l, r.monitor, r.bucket, counted) = group
      BY <1>1, <2>1, <3>2, CoveredGroup
    <3>4. QED
      BY <3>1, <3>3
  <2>4. CASE r \notin Grouped(l, counted)
    <3>1. /\ r \in stats[l]
          /\ ~\E q \in Grouped(l, counted) : q.monitor = r.monitor /\ q.bucket = r.bucket
      BY <2>1, <2>4 DEF Upserted
    <3>2. r.bucket \in Int
      BY <3>1 DEF TypeInv, TypeOK, Row
    <3>3. InBucket(l, r.monitor, r.bucket, counted) = group
      BY <1>1, <2>1, <3>2, CoveredGroup
    <3>4. group = {}
      <4>1. ASSUME NEW h \in group PROVE FALSE
        <5>1. h \in counted /\ h.monitor = r.monitor /\ BucketOf(l, h.at) = r.bucket
          BY <3>3 DEF InBucket
        <5>2. PICK q \in Grouped(l, counted) :
                q.monitor = h.monitor /\ q.bucket = BucketOf(l, h.at)
          BY <5>1, HasGroup
        <5>3. QED
          BY <3>1, <5>1, <5>2
      <4>2. QED
        BY <4>1
    <3>5. InBucket(l, r.monitor, r.bucket, seen) = {}
      BY <1>1, <3>4 DEF KeptInv, InBucket
    <3>6. RowIsExact(l, r)
      <4>1. r.bucket >= lastTick - Window[l]
        <5>1. Window[l] \in Nat
          BY StatisticsAssumption
        <5>2. QED
          BY <2>1, <3>2, <5>1, <1>1 DEF KeptInv
      <4>2. QED
        BY <3>1, <4>1 DEF CoveredInv, CoveredRowsAreExact
    <3>7. QED
      BY <3>4, <3>5, <3>6 DEF RowIsExact
  <2>5. QED
    BY <2>3, <2>4
<1>4. QED
  BY <1>2, <1>3 DEF CoveredInv, CoveredRowsAreExact

LEMMA OthersCover ==
  ASSUME TypeInv, CoveredInv, [Next]_vars, ~Tick
  PROVE  CoveredInv'
<1> USE DEF tables, loop, history
<1>1. /\ stats' = stats /\ seen' = seen /\ lastTick' = lastTick
      /\ clock' = clock \/ clock' = clock + 1
  BY DEF Next, Check, Create, TickFails, RemindersSent, Get, List, CountTotal,
         CountUpSince, Elapse, Restart, vars
<1>2. \/ heartbeats' = heartbeats /\ recorded' = recorded
      \/ \E h \in checks : heartbeats' = heartbeats \cup {h} /\ recorded' = recorded \cup {h}
  BY DEF Next, Check, Create, TickFails, RemindersSent, Get, List, CountTotal,
         CountUpSince, Elapse, Restart, vars
<1>3. checks' \subseteq Heartbeat
  BY NextType DEF TypeInv, TypeOK
<1>4. KeptInv'
  <2>1. clock' \in Nat /\ lastTick' <= clock'
    BY <1>1 DEF CoveredInv, KeptInv
  <2>2. QED
    BY <1>1, <1>2, <1>3, <2>1 DEF CoveredInv, KeptInv
<1>5. CoveredRowsAreExact'
  BY <1>1 DEF CoveredInv, CoveredRowsAreExact, RowIsExact
<1>6. QED
  BY <1>4, <1>5 DEF CoveredInv

(* What a row says of a bucket that the window covered whole at the last   *)
(* aggregation is what was recorded then, because nothing inside a window  *)
(* is ever deleted, and a bucket without heartbeats has no row to replace. *)
THEOREM CoveredRows == Spec => []CoveredRowsAreExact
<1>1. TypeInv /\ CoveredInv /\ [Next]_vars => CoveredInv'
  BY TickCovers, OthersCover
<1>2. CoveredInv => CoveredRowsAreExact
  BY DEF CoveredInv
<1>3. QED
  BY InitCovered, TypeInvariant, <1>1, <1>2, PTL DEF Spec

-----------------------------------------------------------------------------
(* The uptime of a day.                                                    *)

(* Between the two queries there are no more heartbeats in the range than  *)
(* were counted first and saved since.                                     *)
Counted(q, beat) ==
  /\ q.pc = "counted" =>
       Cardinality({h \in beat : h.at >= q.since}) <= q.total + q.saved
  /\ q.pc = "answered" => q.up <= q.total + q.saved

CountInv == \A m \in Monitors : Counted(uptime[m], {h \in heartbeats : h.monitor = m})

LEMMA InitCount == Init => CountInv
BY DEF Init, CountInv, Counted, NoQuery

(* Fewer heartbeats, and the query as it was.                              *)
LEMMA FewerCounted ==
  ASSUME NEW q \in Query, NEW beat, NEW less, IsFiniteSet(beat), less \subseteq beat,
         Counted(q, beat)
  PROVE  Counted(q, less)
<1> DEFINE before == {h \in beat : h.at >= q.since}
           after  == {h \in less : h.at >= q.since}
<1>1. IsFiniteSet(before) /\ after \subseteq before
  BY FS_Subset
<1>2. /\ Cardinality(after) \in Nat /\ Cardinality(before) \in Nat
      /\ Cardinality(after) <= Cardinality(before)
  BY <1>1, FS_Subset, FS_CardinalityType
<1>3. q.total + q.saved \in Nat
  BY DEF Query
<1> HIDE DEF before, after
<1>4. Cardinality(before) <= q.total + q.saved => Cardinality(after) <= q.total + q.saved
  BY <1>2, <1>3
<1>5. QED
  BY <1>4 DEF Counted, before, after

(* One more, and one more saved.                                           *)
LEMMA OneMoreCounted ==
  ASSUME NEW q \in Query, NEW p \in Query, NEW beat, NEW h, IsFiniteSet(beat),
         Counted(q, beat),
         p = [q EXCEPT !.saved = IF q.pc = "counted" THEN q.saved + 1 ELSE q.saved]
  PROVE  Counted(p, beat \cup {h})
<1>1. CASE q.pc = "counted"
  <2> DEFINE before == {g \in beat : g.at >= q.since}
             after  == {g \in beat \cup {h} : g.at >= q.since}
  <2>1. /\ p.pc = "counted" /\ p.since = q.since /\ p.total = q.total
        /\ p.saved = q.saved + 1
    BY <1>1 DEF Query
  <2>2. IsFiniteSet(before) /\ IsFiniteSet(before \cup {h}) /\ after \subseteq before \cup {h}
    BY FS_Subset, FS_AddElement
  <2>3. /\ Cardinality(before \cup {h}) <= Cardinality(before) + 1
        /\ Cardinality(before) \in Nat /\ Cardinality(before \cup {h}) \in Nat
    <3>1. Cardinality(before) \in Nat /\ Cardinality(before \cup {h}) \in Nat
      BY <2>2, FS_CardinalityType
    <3> HIDE DEF before
    <3>2. Cardinality(before \cup {h}) =
            IF h \in before THEN Cardinality(before) ELSE Cardinality(before) + 1
      BY <2>2, FS_AddElement
    <3>3. QED
      BY <3>1, <3>2
  <2>4. Cardinality(after) \in Nat /\ Cardinality(after) <= Cardinality(before \cup {h})
    BY <2>2, FS_Subset, FS_CardinalityType
  <2>5. Cardinality(before) <= q.total + q.saved
    BY <1>1 DEF Counted
  <2>6. q.total \in Nat /\ q.saved \in Nat
    BY DEF Query
  <2> HIDE DEF before, after
  <2>7. Cardinality(after) <= p.total + p.saved
    BY <2>1, <2>3, <2>4, <2>5, <2>6
  <2>8. QED
    BY <2>1, <2>7 DEF Counted, after
<1>2. CASE q.pc # "counted"
  <2>1. p.pc = q.pc /\ p.up = q.up /\ p.total = q.total /\ p.saved = q.saved
    BY <1>2 DEF Query
  <2>2. QED
    BY <1>2, <2>1 DEF Counted
<1>3. QED
  BY <1>1, <1>2

LEMMA CreateCount ==
  ASSUME TypeInv, TypeInv', CountInv, NEW h \in checks, Create(h)
  PROVE  CountInv'
<1> USE DEF Create
<1>1. h \in Heartbeat /\ h.monitor \in Monitors
  BY DEF TypeInv, TypeOK, Heartbeat
<1> SUFFICES ASSUME NEW m \in Monitors
             PROVE  Counted(uptime'[m], {g \in heartbeats' : g.monitor = m})
  BY DEF CountInv
<1> DEFINE beat == {g \in heartbeats : g.monitor = m}
<1>2. uptime[m] \in Query /\ uptime'[m] \in Query /\ IsFiniteSet(beat)
  BY FS_Subset DEF TypeInv, TypeOK
<1>3. Counted(uptime[m], beat)
  BY DEF CountInv
<1>4. CASE h.monitor = m
  <2>1. {g \in heartbeats' : g.monitor = m} = beat \cup {h}
    BY <1>4
  <2>2. uptime'[m] = [uptime[m] EXCEPT !.saved =
          IF uptime[m].pc = "counted" THEN uptime[m].saved + 1 ELSE uptime[m].saved]
    BY <1>4 DEF TypeInv, TypeOK
  <2> HIDE DEF beat
  <2>3. Counted(uptime'[m], beat \cup {h})
    BY <1>2, <1>3, <2>2, OneMoreCounted
  <2>4. QED
    BY <2>1, <2>3
<1>5. CASE h.monitor # m
  <2>1. {g \in heartbeats' : g.monitor = m} = beat
    BY <1>5
  <2>2. uptime'[m] = uptime[m]
    BY <1>1, <1>5 DEF TypeInv, TypeOK
  <2>3. QED
    BY <1>3, <2>1, <2>2
<1>6. QED
  BY <1>4, <1>5

LEMMA TickCount ==
  ASSUME TypeInv, CountInv, Tick
  PROVE  CountInv'
<1> SUFFICES ASSUME NEW m \in Monitors
             PROVE  Counted(uptime'[m], {g \in heartbeats' : g.monitor = m})
  BY DEF CountInv
<1> DEFINE beat == {g \in heartbeats : g.monitor = m}
           less == {g \in heartbeats' : g.monitor = m}
<1>1. uptime[m] \in Query /\ IsFiniteSet(beat)
  BY FS_Subset DEF TypeInv, TypeOK
<1>2. Counted(uptime[m], beat) /\ uptime' = uptime /\ less \subseteq beat
  BY DEF CountInv, Tick
<1> HIDE DEF beat, less
<1>3. QED
  BY <1>1, <1>2, FewerCounted DEF less

LEMMA QueryCount ==
  ASSUME TypeInv, CountInv, NEW o \in Monitors,
         Get(o) \/ List \/ CountTotal(o) \/ CountUpSince(o)
  PROVE  CountInv'
<1> SUFFICES ASSUME NEW m \in Monitors
             PROVE  Counted(uptime'[m], {g \in heartbeats' : g.monitor = m})
  BY DEF CountInv
<1> DEFINE beat == {g \in heartbeats : g.monitor = m}
<1>1. heartbeats' = heartbeats
  BY DEF Get, List, CountTotal, CountUpSince, tables
<1>2. uptime \in [Monitors -> Query] /\ clock \in Nat /\ Day \in Nat
      /\ uptime[m] \in Query /\ IsFiniteSet(beat)
  BY StatisticsAssumption, FS_Subset DEF TypeInv, TypeOK
<1>3. Counted(uptime[m], beat)
  BY DEF CountInv
<1>4. CASE uptime'[m] = uptime[m]
  BY <1>1, <1>3, <1>4
<1>5. CASE uptime'[m] = [NoQuery EXCEPT !.pc = "asked"]
  BY <1>1, <1>5 DEF Counted, NoQuery
<1>6. CASE CountTotal(m)
  <2> DEFINE some == {g \in beat : g.at >= clock - Day}
  <2>1. Since(m, clock - Day) = some
    BY DEF Since
  <2>2. Cardinality(some) \in Nat
    BY <1>2, FS_Subset, FS_CardinalityType
  <2>3. /\ uptime'[m].pc = "counted" /\ uptime'[m].since = clock - Day
        /\ uptime'[m].saved = 0 /\ uptime'[m].total = Cardinality(some)
    BY <1>2, <1>6, <2>1 DEF CountTotal
  <2>4. QED
    BY <1>1, <2>2, <2>3 DEF Counted
<1>7. CASE CountUpSince(m)
  <2> DEFINE some == {g \in beat : g.at >= uptime[m].since}
             up   == {g \in some : g.up}
  <2>1. CountUp(Since(m, uptime[m].since)) = Cardinality(up)
    <3>1. Since(m, uptime[m].since) = some
      BY DEF Since
    <3>2. QED
      BY <3>1 DEF CountUp
  <2>2. /\ Cardinality(some) \in Nat /\ Cardinality(up) \in Nat
        /\ Cardinality(up) <= Cardinality(some)
    <3>1. IsFiniteSet(some) /\ up \subseteq some
      BY <1>2, FS_Subset
    <3>2. QED
      BY <3>1, FS_Subset, FS_CardinalityType
  <2>3. Cardinality(some) <= uptime[m].total + uptime[m].saved
    BY <1>3, <1>7 DEF CountUpSince, Counted
  <2>4. /\ uptime'[m].pc = "answered" /\ uptime'[m].up = Cardinality(up)
        /\ uptime'[m].total = uptime[m].total /\ uptime'[m].saved = uptime[m].saved
    BY <1>2, <1>7, <2>1 DEF CountUpSince, Query
  <2>5. uptime[m].total + uptime[m].saved \in Nat
    BY <1>2 DEF Query
  <2> HIDE DEF some, up
  <2>6. QED
    BY <2>2, <2>3, <2>4, <2>5 DEF Counted
<1>8. \/ uptime'[m] = uptime[m] \/ uptime'[m] = [NoQuery EXCEPT !.pc = "asked"]
      \/ CountTotal(m) \/ CountUpSince(m)
  <2>1. CASE Get(o)
    BY <2>1, <1>2 DEF Get
  <2>2. CASE List
    BY <2>2 DEF List
  <2>3. CASE CountTotal(o)
    <3>1. m = o \/ uptime'[m] = uptime[m]
      BY <2>3, <1>2 DEF CountTotal
    <3>2. QED
      BY <2>3, <3>1
  <2>4. CASE CountUpSince(o)
    <3>1. m = o \/ uptime'[m] = uptime[m]
      BY <2>4, <1>2 DEF CountUpSince
    <3>2. QED
      BY <2>4, <3>1
  <2>5. QED
    BY <2>1, <2>2, <2>3, <2>4
<1>9. QED
  BY <1>4, <1>5, <1>6, <1>7, <1>8

LEMMA NextCount == TypeInv /\ TypeInv' /\ CountInv /\ [Next]_vars => CountInv'
<1> SUFFICES ASSUME TypeInv, TypeInv', CountInv, [Next]_vars PROVE CountInv'
  OBVIOUS
<1>1. ASSUME NEW h \in checks, Create(h) PROVE CountInv'
  BY <1>1, CreateCount
<1>2. CASE Tick
  BY <1>2, TickCount
<1>3. ASSUME NEW m \in Monitors, Get(m) \/ CountTotal(m) \/ CountUpSince(m)
      PROVE  CountInv'
  BY <1>3, QueryCount
<1>4. CASE List
  <2>1. CASE Monitors = {}
    BY <2>1 DEF CountInv
  <2>2. CASE Monitors # {}
    BY <1>4, <2>2, QueryCount
  <2>3. QED
    BY <2>1, <2>2
<1>5. CASE Restart
  BY <1>5 DEF Restart, CountInv, Counted, NoQuery
<1>6. CASE \/ \E m \in Monitors : Check(m)
           \/ TickFails \/ RemindersSent \/ Elapse \/ UNCHANGED vars
  <2>1. heartbeats' = heartbeats /\ uptime' = uptime
    BY <1>6 DEF Check, TickFails, RemindersSent, Elapse, vars, tables
  <2>2. QED
    BY <2>1 DEF CountInv
<1>7. QED
  BY <1>1, <1>2, <1>3, <1>4, <1>5, <1>6 DEF Next

(* However checks are saved and heartbeats deleted between the two queries, *)
(* the uptime exceeds 100 % by no more than what was saved meanwhile: the  *)
(* second query uses the same lower bound as the first.                    *)
THEOREM UptimeOfADay == Spec => []UptimeIsBounded
<1>1. TypeInv /\ CountInv => UptimeIsBounded
  <2> SUFFICES ASSUME TypeInv, CountInv, NEW m \in Monitors, uptime[m].pc = "answered"
               PROVE  Fraction(uptime[m])[1] <= Fraction(uptime[m])[2] + uptime[m].saved
    BY DEF UptimeIsBounded
  <2>1. uptime[m] \in Query /\ uptime[m].up <= uptime[m].total + uptime[m].saved
    BY DEF TypeInv, TypeOK, CountInv, Counted
  <2>2. QED
    BY <2>1 DEF Fraction, Query
<1>2. QED
  BY InitCount, NextCount, TypeInvariant, <1>1, PTL DEF Spec
-----------------------------------------------------------------------------
(* Lost checks.                                                            *)

HasRow(l, h) == \E q \in stats[l] : q.monitor = h.monitor /\ q.bucket = BucketOf(l, h.at)

(* The aggregations of table l followed each other closely enough.         *)
Close(l) == longest + Latency <= Window[l]

(* A check that no aggregation has found recorded was saved after the last *)
(* one, so it was stamped not long before that; one that was found has a   *)
(* row, until the row is deleted.                                          *)
SavedInv ==
  /\ \A h \in checks : clock <= h.at + Latency
  /\ \A h \in recorded \ seen : h \in heartbeats /\ lastTick <= h.at + Latency
  /\ \A l \in Levels, h \in seen :
       Close(l) /\ BucketOf(l, h.at) >= lastTick - Keep[l] => HasRow(l, h)

(* What is counted takes the place of what the bucket had.                 *)
LEMMA UpsertedHasRow ==
  ASSUME NEW l \in Levels, NEW h,
         HasRow(l, h) \/ h \in {g \in heartbeats : g.at >= clock - Window[l]}
  PROVE  \E q \in Upserted(l) : q.monitor = h.monitor /\ q.bucket = BucketOf(l, h.at)
<1> DEFINE counted == {g \in heartbeats : g.at >= clock - Window[l]}
           fresh   == Grouped(l, counted)
<1>1. CASE h \in counted
  <2>1. \E q \in fresh : q.monitor = h.monitor /\ q.bucket = BucketOf(l, h.at)
    BY <1>1, HasGroup
  <2>2. QED
    BY <2>1 DEF Upserted
<1>2. CASE HasRow(l, h)
  <2>1. PICK q \in stats[l] : q.monitor = h.monitor /\ q.bucket = BucketOf(l, h.at)
    BY <1>2 DEF HasRow
  <2>2. CASE \E r \in fresh : r.monitor = q.monitor /\ r.bucket = q.bucket
    BY <2>1, <2>2 DEF Upserted
  <2>3. CASE ~\E r \in fresh : r.monitor = q.monitor /\ r.bucket = q.bucket
    BY <2>1, <2>3 DEF Upserted
  <2>4. QED
    BY <2>2, <2>3
<1>3. QED
  BY <1>1, <1>2

LEMMA TickSaves ==
  ASSUME TypeInv, KeptInv, SavedInv, Tick
  PROVE  SavedInv'
<1>1. /\ clock \in Nat /\ lastTick \in Nat /\ longest \in Nat /\ lastTick <= clock
      /\ Latency \in Nat
  BY StatisticsAssumption DEF TypeInv, TypeOK, KeptInv
<1>2. /\ longest' \in Nat /\ longest <= longest' /\ clock - lastTick <= longest'
      /\ lastTick' = clock /\ seen' = recorded
      /\ UNCHANGED <<clock, checks, recorded>>
  BY <1>1 DEF Tick
<1>3. ASSUME NEW l \in Levels, NEW h \in recorded, Close(l)',
             BucketOf(l, h.at) >= clock - Keep[l]
      PROVE  HasRow(l, h)'
  <2>1. Window[l] \in Nat /\ Keep[l] \in Nat /\ h.at \in Nat /\ BucketOf(l, h.at) \in Nat
    BY StatisticsAssumption, BucketBegins DEF KeptInv, Heartbeat
  <2>2. longest' + Latency <= Window[l]
    BY <1>3 DEF Close
  <2>3. HasRow(l, h) \/ h \in {g \in heartbeats : g.at >= clock - Window[l]}
    <3>1. CASE h \in seen
      <4>1. Close(l) /\ BucketOf(l, h.at) >= lastTick - Keep[l]
        BY <1>1, <1>2, <1>3, <2>1, <2>2 DEF Close
      <4>2. QED
        BY <3>1, <4>1 DEF SavedInv
    <3>2. CASE h \notin seen
      <4>1. h \in heartbeats /\ lastTick <= h.at + Latency
        BY <3>2 DEF SavedInv
      <4>2. h.at >= clock - Window[l]
        BY <1>1, <1>2, <2>1, <2>2, <4>1
      <4>3. QED
        BY <4>1, <4>2
    <3>3. QED
      BY <3>1, <3>2
  <2>4. PICK q \in Upserted(l) : q.monitor = h.monitor /\ q.bucket = BucketOf(l, h.at)
    BY <2>3, UpsertedHasRow
  <2>5. stats'[l] = {r \in Upserted(l) : r.bucket >= clock - Keep[l]}
    BY DEF Tick
  <2>6. QED
    BY <1>3, <2>4, <2>5 DEF HasRow, BucketOf
<1>4. QED
  BY <1>2, <1>3 DEF SavedInv, BucketOf

LEMMA OthersSave ==
  ASSUME TypeInv, KeptInv, SavedInv, [Next]_vars, ~Tick
  PROVE  SavedInv'
<1>1. /\ UNCHANGED <<stats, seen, lastTick, longest>>
      /\ clock \in Nat /\ lastTick \in Nat /\ lastTick <= clock /\ Latency \in Nat
  BY StatisticsAssumption
  DEF Next, Check, Create, TickFails, RemindersSent, Get, List, CountTotal,
      CountUpSince, Elapse, Restart, vars, tables, loop, history, KeptInv
<1>2. \A l \in Levels, h \in seen' :
        Close(l)' /\ BucketOf(l, h.at) >= lastTick' - Keep[l] => HasRow(l, h)'
  BY <1>1 DEF SavedInv, Close, HasRow, BucketOf
<1>3. ASSUME UNCHANGED <<heartbeats, recorded>>,
             \A h \in checks' : clock' <= h.at + Latency
      PROVE  SavedInv'
  BY <1>1, <1>2, <1>3 DEF SavedInv, BucketOf
<1>4. ASSUME NEW m \in Monitors, Check(m) PROVE SavedInv'
  <2>1. /\ UNCHANGED <<heartbeats, recorded, clock>>
        /\ \A h \in checks' : h \in checks \/ h.at = clock
    BY <1>4 DEF Check, tables, history
  <2>2. QED
    BY <1>1, <1>3, <2>1 DEF SavedInv
<1>5. ASSUME NEW h \in checks, Create(h) PROVE SavedInv'
  <2>1. /\ heartbeats' = heartbeats \cup {h} /\ recorded' = recorded \cup {h}
        /\ checks' \subseteq checks /\ UNCHANGED clock
    BY <1>5 DEF Create
  <2>2. lastTick <= h.at + Latency
    <3>1. h.at \in Nat /\ clock <= h.at + Latency
      BY DEF SavedInv, KeptInv, Heartbeat
    <3>2. QED
      BY <1>1, <3>1
  <2>3. QED
    BY <1>1, <1>2, <2>1, <2>2 DEF SavedInv, BucketOf
<1>6. CASE Elapse
  <2>1. /\ UNCHANGED <<heartbeats, recorded, checks>> /\ clock' = clock + 1
        /\ \A h \in checks : clock - h.at < Latency
    BY <1>6 DEF Elapse, tables, history
  <2>2. \A h \in checks : clock + 1 <= h.at + Latency
    <3>1. \A h \in checks : h.at \in Nat
      BY DEF KeptInv, Heartbeat
    <3>2. QED
      BY <1>1, <2>1, <3>1
  <2>3. QED
    BY <1>3, <2>1, <2>2
<1>7. CASE \/ TickFails \/ RemindersSent \/ Restart \/ List \/ UNCHANGED vars
           \/ \E m \in Monitors : Get(m) \/ CountTotal(m) \/ CountUpSince(m)
  <2>1. /\ UNCHANGED <<heartbeats, recorded, clock>> /\ checks' \subseteq checks
    BY <1>7 DEF TickFails, RemindersSent, Get, List, CountTotal, CountUpSince,
                Restart, vars, tables, loop, history
  <2>2. QED
    BY <1>3, <2>1 DEF SavedInv
<1>8. QED
  BY <1>4, <1>5, <1>6, <1>7 DEF Next

(* A check that was saved before the last aggregation is in the table that *)
(* answers the range, whenever aggregations were as close as the window    *)
(* allows: it was in the window of the first one that found it recorded,   *)
(* and a bucket never loses its row but by age.                            *)
THEOREM NoCheckIsLost == Spec => []AnswersCoverTheRange
<1>1. Init => SavedInv
  BY DEF Init, SavedInv
<1>2. TypeInv /\ CoveredInv /\ SavedInv /\ [Next]_vars => CoveredInv' /\ SavedInv'
  BY TickCovers, OthersCover, TickSaves, OthersSave DEF CoveredInv
<1>3. TypeInv /\ CoveredInv /\ SavedInv => AnswersCoverTheRange
  <2> SUFFICES ASSUME TypeInv, KeptInv, SavedInv, NEW range \in DOMAIN Length,
                      NEW h \in recorded,
                      LET l == TableOf(range)
                      IN  /\ longest + Latency <= Window[l]
                          /\ h.at + Latency < lastTick
                          /\ BucketOf(l, h.at) >= clock - Length[range]
               PROVE  \E q \in GetStats(h.monitor, range).buckets :
                        q.bucket = BucketOf(TableOf(range), h.at)
    BY DEF AnswersCoverTheRange, CoveredInv
  <2> DEFINE l == TableOf(range)
  <2>1. l \in Levels /\ Length[range] <= Keep[l]
    BY RangesAssumption DEF TableOf
  <2>2. /\ Keep[l] \in Nat /\ Length[range] \in Nat /\ h.at \in Nat
        /\ BucketOf(l, h.at) \in Nat /\ Latency \in Nat
        /\ clock \in Nat /\ lastTick \in Nat /\ lastTick <= clock
    BY <2>1, BucketBegins, StatisticsAssumption DEF KeptInv, Heartbeat
  <2>3. h \in seen
    BY <2>2 DEF SavedInv
  <2>4. BucketOf(l, h.at) >= lastTick - Keep[l]
    BY <2>1, <2>2
  <2>5. PICK q \in stats[l] : q.monitor = h.monitor /\ q.bucket = BucketOf(l, h.at)
    BY <2>1, <2>3, <2>4 DEF SavedInv, Close, HasRow
  <2>6. GetStats(h.monitor, range).buckets = Rows(l, h.monitor, clock - Length[range])
    BY RangesAssumption DEF GetStats, GetMinutely, GetHourly, GetDaily, TableOf
  <2>7. QED
    BY <2>5, <2>6 DEF Rows
<1>4. QED
  BY InitCovered, TypeInvariant, <1>1, <1>2, <1>3, PTL DEF Spec

-----------------------------------------------------------------------------
(* Sound rows.                                                             *)

(* A part of some heartbeats has no more of them that are up, and no more  *)
(* of them that are down.                                                  *)
CountDown(beat) == Cardinality(beat) - CountUp(beat)

LEMMA PartCounts ==
  ASSUME NEW beat, IsFiniteSet(beat), NEW part \in SUBSET beat
  PROVE  /\ Cardinality(part) \in Nat /\ Cardinality(beat) \in Nat
         /\ CountUp(part) \in Nat /\ CountUp(beat) \in Nat
         /\ Cardinality(part) <= Cardinality(beat)
         /\ CountUp(part) <= CountUp(beat) /\ CountDown(part) <= CountDown(beat)
         /\ CountUp(part) <= Cardinality(part)
<1> DEFINE Up(s) == {h \in s : h.up}
<1>1. ASSUME NEW s, IsFiniteSet(s)
      PROVE  /\ Cardinality(s) \in Nat /\ CountUp(s) \in Nat /\ CountUp(s) <= Cardinality(s)
             /\ CountDown(s) = Cardinality(s \ Up(s)) /\ IsFiniteSet(s \ Up(s))
             /\ IsFiniteSet(Up(s)) /\ CountUp(s) = Cardinality(Up(s))
  <2>1. Up(s) \in SUBSET s /\ s \cap Up(s) = Up(s)
    OBVIOUS
  <2>2. CountUp(s) = Cardinality(Up(s))
    BY DEF CountUp
  <2> HIDE DEF Up
  <2>3. /\ IsFiniteSet(Up(s)) /\ Cardinality(Up(s)) <= Cardinality(s)
        /\ IsFiniteSet(s \ Up(s))
        /\ Cardinality(s \ Up(s)) = Cardinality(s) - Cardinality(s \cap Up(s))
    BY <1>1, <2>1, FS_Subset, FS_Difference
  <2>4. Cardinality(s) \in Nat /\ Cardinality(Up(s)) \in Nat
    BY <1>1, <2>3, FS_CardinalityType
  <2>5. QED
    BY <2>1, <2>2, <2>3, <2>4 DEF CountDown
<1>2. IsFiniteSet(part) /\ Cardinality(part) <= Cardinality(beat)
  BY FS_Subset
<1>3. Up(part) \in SUBSET Up(beat) /\ (part \ Up(part)) \in SUBSET (beat \ Up(beat))
  OBVIOUS
<1> HIDE DEF Up
<1>4. /\ Cardinality(Up(part)) <= Cardinality(Up(beat))
      /\ Cardinality(part \ Up(part)) <= Cardinality(beat \ Up(beat))
  BY <1>1, <1>3, FS_Subset
<1>5. QED
  BY <1>1, <1>2, <1>4

(* What a part of a bucket says of it, whatever the bucket holds beside it. *)
Counts(r, group) ==
  /\ r.total \in 1..Cardinality(group) /\ r.up <= CountUp(group)
  /\ r.total - r.up <= Cardinality(group) - CountUp(group)

LEMMA MoreCounted ==
  ASSUME NEW r \in Row, NEW beat, IsFiniteSet(beat), NEW part \in SUBSET beat,
         Counts(r, part)
  PROVE  Counts(r, beat)
<1>1. r.total \in Nat /\ r.up \in Nat
  BY DEF Row
<1>2. QED
  BY <1>1, PartCounts DEF Counts, CountDown

OneRow(l) == \A r, q \in stats[l] : q.monitor = r.monitor /\ q.bucket = r.bucket => q = r

SoundInv ==
  /\ IsFiniteSet(recorded) /\ heartbeats \subseteq recorded /\ seen \subseteq recorded
  /\ \A l \in Levels : \A r \in stats[l] :
       Counts(r, InBucket(l, r.monitor, r.bucket, seen))
  /\ \A l \in Levels : OneRow(l)

LEMMA FreshCounts ==
  ASSUME NEW l \in Levels, NEW beat, IsFiniteSet(beat), NEW r \in Grouped(l, beat)
  PROVE  /\ r.total = Cardinality(InBucket(l, r.monitor, r.bucket, beat))
         /\ r.up = CountUp(InBucket(l, r.monitor, r.bucket, beat))
         /\ Counts(r, InBucket(l, r.monitor, r.bucket, beat))
<1>1. PICK h \in beat :
        r = [monitor |-> h.monitor, bucket |-> BucketOf(l, h.at),
             up |-> CountUp(InBucket(l, h.monitor, BucketOf(l, h.at), beat)),
             total |-> Cardinality(InBucket(l, h.monitor, BucketOf(l, h.at), beat))]
  BY DEF Grouped
<1> DEFINE group == InBucket(l, r.monitor, r.bucket, beat)
<1>2. h \in group /\ group \in SUBSET beat
  BY <1>1 DEF InBucket
<1>3. r.total = Cardinality(group) /\ r.up = CountUp(group)
  BY <1>1
<1> HIDE DEF group
<1>4. IsFiniteSet(group) /\ Cardinality(group) # 0
  BY <1>2, FS_Subset, FS_EmptySet
<1>5. Cardinality(group) \in Nat /\ CountUp(group) \in Nat
  BY <1>4, PartCounts
<1>6. QED
  BY <1>3, <1>4, <1>5 DEF Counts, group

LEMMA TickSound ==
  ASSUME TypeInv, TypeInv', SoundInv, Tick
  PROVE  SoundInv'
<1>1. /\ heartbeats' \subseteq recorded' /\ seen' = recorded /\ recorded' = recorded
      /\ IsFiniteSet(recorded) /\ seen \subseteq recorded
  BY DEF SoundInv, Tick
<1>2. ASSUME NEW l \in Levels
      PROVE  /\ \A r \in stats'[l] : Counts(r, InBucket(l, r.monitor, r.bucket, recorded))
             /\ OneRow(l)'
  <2> DEFINE counted == {h \in heartbeats : h.at >= clock - Window[l]}
             fresh   == Grouped(l, counted)
             In(r, beat) == InBucket(l, r.monitor, r.bucket, beat)
  <2>1. stats'[l] \subseteq Upserted(l) /\ stats'[l] \subseteq Row /\ stats[l] \subseteq Row
    BY DEF Tick, TypeInv, TypeOK
  <2>2. IsFiniteSet(counted) /\ counted \subseteq recorded
    BY FS_Subset DEF TypeInv, SoundInv
  <2>3. ASSUME NEW r
        PROVE  /\ In(r, counted) \in SUBSET In(r, recorded)
               /\ In(r, seen) \in SUBSET In(r, recorded)
               /\ In(r, recorded) \in SUBSET recorded
    BY <1>1, <2>2 DEF InBucket
  <2>4. ASSUME NEW r PROVE IsFiniteSet(In(r, recorded))
    BY <1>1, <2>3, FS_Subset
  <2>5. \A r \in Upserted(l) :
          \/ r \in fresh
          \/ r \in stats[l] /\ ~\E q \in fresh : q.monitor = r.monitor /\ q.bucket = r.bucket
    BY DEF Upserted
  <2>6. \A r \in fresh : /\ r.total = Cardinality(In(r, counted))
                         /\ r.up = CountUp(In(r, counted))
                         /\ Counts(r, In(r, counted))
    BY <2>2, FreshCounts
  <2>7. \A r \in fresh : r.total = Cardinality(In(r, counted)) /\ r.up = CountUp(In(r, counted))
                         /\ DOMAIN r = {"monitor", "bucket", "up", "total"}
                         /\ r = [monitor |-> r.monitor, bucket |-> r.bucket,
                                 up |-> r.up, total |-> r.total]
    BY <2>6 DEF Grouped
  <2> HIDE DEF counted, fresh
  <2>8. ASSUME NEW r \in stats'[l] PROVE Counts(r, In(r, recorded))
    <3>1. r \in Row
      BY <2>1
    <3>2. CASE r \in fresh
      BY <2>3, <2>4, <2>6, <3>1, <3>2, MoreCounted
    <3>3. CASE r \in stats[l]
      <4>1. Counts(r, In(r, seen))
        BY <3>3 DEF SoundInv
      <4>2. QED
        BY <2>3, <2>4, <3>1, <4>1, MoreCounted
    <3>4. QED
      BY <2>1, <2>5, <3>2, <3>3
  <2>9. ASSUME NEW r \in Upserted(l), NEW q \in Upserted(l),
               q.monitor = r.monitor, q.bucket = r.bucket
        PROVE  q = r
    <3>1. CASE r \in fresh /\ q \in fresh
      <4>1. q.total = r.total /\ q.up = r.up
        BY <2>7, <2>9, <3>1
      <4>2. QED
        BY <2>7, <2>9, <3>1, <4>1
    <3>2. CASE r \in stats[l] /\ q \in stats[l]
      BY <2>9, <3>2 DEF SoundInv, OneRow
    <3>3. QED
      BY <2>5, <2>9, <3>1, <3>2
  <2>10. QED
    BY <2>1, <2>8, <2>9 DEF OneRow
<1>3. QED
  BY <1>1, <1>2 DEF SoundInv, InBucket, BucketOf

LEMMA OthersSound ==
  ASSUME TypeInv, SoundInv, [Next]_vars, ~Tick
  PROVE  SoundInv'
<1>1. UNCHANGED <<stats, seen>>
  BY DEF Next, Check, Create, TickFails, RemindersSent, Get, List, CountTotal,
         CountUpSince, Elapse, Restart, vars, tables, loop, history
<1>2. \/ heartbeats' = heartbeats /\ recorded' = recorded
      \/ \E h \in checks : heartbeats' = heartbeats \cup {h} /\ recorded' = recorded \cup {h}
  BY DEF Next, Check, Create, TickFails, RemindersSent, Get, List, CountTotal,
         CountUpSince, Elapse, Restart, vars, tables, loop, history
<1>3. IsFiniteSet(recorded') /\ heartbeats' \subseteq recorded' /\ seen \subseteq recorded'
  BY <1>2, FS_AddElement DEF SoundInv
<1>4. QED
  BY <1>1, <1>3 DEF SoundInv, OneRow, InBucket, BucketOf

LEMMA SoundRows == Spec => [](TypeInv /\ SoundInv)
<1>1. Init => SoundInv
  BY FS_EmptySet DEF Init, SoundInv, OneRow
<1>2. TypeInv /\ TypeInv' /\ SoundInv /\ [Next]_vars => SoundInv'
  BY TickSound, OthersSound
<1>3. QED
  BY TypeInvariant, <1>1, <1>2, PTL DEF Spec

-----------------------------------------------------------------------------
(* Sums.                                                                   *)

(* A set of numbers has a least one.                                       *)
LEMMA LeastNumber ==
  ASSUME NEW T, T \subseteq Nat, T # {}
  PROVE  \E n \in T : \A m \in T : ~(m < n)
<1> DEFINE R == {ss \in Nat \X Nat : ss[1] < ss[2]}
<1>1. IsWellFoundedOn(R, Nat)
  BY NatLessThanWellFounded DEF OpToRel
<1> HIDE DEF R
<1>2. PICK n \in T : \A m \in T : ~(<<m, n>> \in R)
  BY <1>1, WFMin
<1>3. \A m \in T : m < n => <<m, n>> \in R
  BY DEF R
<1>4. QED
  BY <1>2, <1>3

(* The sum of the weights w of the subsets of S, one element after the     *)
(* other: what MapThenSumSet adds up.                                      *)
Added(f, s, w) == IF s = {} THEN 0
                  ELSE LET x == CHOOSE x \in s : TRUE IN w[x] + f[s \ {x}]

IsSum(f, S, w) == f = [s \in SUBSET S |-> Added(f, s, w)]

(* There is such a sum: it is made for the sets of up to n elements.       *)
LEMMA SumExists ==
  ASSUME NEW S, IsFiniteSet(S), NEW w
  PROVE  \E f : IsSum(f, S, w)
<1> DEFINE Upto(f, n) == \A s \in SUBSET S : Cardinality(s) <= n => f[s] = Added(f, s, w)
           T == {n \in Nat : ~\E f : Upto(f, n)}
           Grown(f) == [s \in SUBSET S |-> Added(f, s, w)]
<1>0. \A s \in SUBSET S : IsFiniteSet(s) /\ Cardinality(s) \in Nat
                          /\ Cardinality(s) <= Cardinality(S)
                          /\ (Cardinality(s) = 0 <=> s = {})
  BY FS_Subset, FS_CardinalityType, FS_EmptySet
<1>1. ASSUME NEW s \in SUBSET S, s # {}
      PROVE  LET x == CHOOSE x \in s : TRUE
             IN  s \ {x} \in SUBSET S /\ Cardinality(s \ {x}) = Cardinality(s) - 1
  BY <1>0, <1>1, FS_RemoveElement
<1>2. ASSUME NEW f, NEW n \in Nat, n = 0 \/ Upto(f, n - 1)
      PROVE  Upto(Grown(f), n)
  <2> SUFFICES ASSUME NEW s \in SUBSET S, Cardinality(s) <= n
               PROVE  Added(f, s, w) = Added(Grown(f), s, w)
    OBVIOUS
  <2>1. CASE s = {}
    BY <2>1 DEF Added
  <2>2. CASE s # {}
    <3> DEFINE x == CHOOSE x \in s : TRUE
    <3>1. s \ {x} \in SUBSET S /\ Cardinality(s \ {x}) = Cardinality(s) - 1
          /\ Cardinality(s) \in Nat /\ Cardinality(s) # 0
      BY <1>0, <1>1, <2>2
    <3>2. n # 0 /\ Cardinality(s \ {x}) <= n - 1
      BY <3>1
    <3>3. f[s \ {x}] = Added(f, s \ {x}, w)
      BY <1>2, <3>1, <3>2
    <3>4. Grown(f)[s \ {x}] = f[s \ {x}]
      BY <3>1, <3>3
    <3>5. QED
      BY <2>2, <3>4 DEF Added
  <2>3. QED
    BY <2>1, <2>2
<1>3. T = {}
  <2> SUFFICES ASSUME T # {} PROVE FALSE
    OBVIOUS
  <2>1. PICK n \in T : \A m \in T : ~(m < n)
    <3> HIDE DEF Upto
    <3>1. QED
      BY LeastNumber
  <2>2. n \in Nat /\ ~\E f : Upto(f, n)
    OBVIOUS
  <2> HIDE DEF Upto, Grown
  <2>3. CASE n = 0
    BY <1>2, <2>2, <2>3
  <2>4. CASE n # 0
    <3>1. n - 1 \in Nat /\ n - 1 < n
      BY <2>2, <2>4
    <3>2. n - 1 \notin T
      BY <2>1, <3>1
    <3>3. PICK f : Upto(f, n - 1)
      BY <3>1, <3>2
    <3>4. QED
      BY <1>2, <2>2, <3>3
  <2>5. QED
    BY <2>3, <2>4
<1>4. Cardinality(S) \in Nat
  BY FS_CardinalityType
<1>5. PICK f : Upto(f, Cardinality(S))
  <2> HIDE DEF Upto
  <2>1. QED
    BY <1>3, <1>4
<1>6. \A s \in SUBSET S : Grown(f)[s] = f[s]
  BY <1>0, <1>5
<1>7. \A s \in SUBSET S : Added(Grown(f), s, w) = Added(f, s, w)
  <2> SUFFICES ASSUME NEW s \in SUBSET S
               PROVE  Added(Grown(f), s, w) = Added(f, s, w)
    OBVIOUS
  <2>1. CASE s # {}
    <3>1. s \ {CHOOSE x \in s : TRUE} \in SUBSET S
      BY <1>1, <2>1
    <3>2. Grown(f)[s \ {CHOOSE x \in s : TRUE}] = f[s \ {CHOOSE x \in s : TRUE}]
      BY <3>1, <1>6
    <3> HIDE DEF Grown
    <3>3. QED
      BY <2>1, <3>2 DEF Added
  <2>2. CASE s = {}
    BY <2>2 DEF Added
  <2>3. QED
    BY <2>1, <2>2
<1>8. IsSum(Grown(f), S, w)
  BY <1>7 DEF IsSum
<1>9. QED
  BY <1>8

(* The sums of the overview are such sums.                                 *)
LEMMA SumOfTotal ==
  ASSUME NEW S, IsFiniteSet(S), NEW w, w = [r \in S |-> r.total]
  PROVE  \E f : IsSum(f, S, w) /\ MapThenSumSet(LAMBDA r : r.total, S) = f[S]
<1> DEFINE Is(f) == f = [s \in SUBSET S |->
                           IF s = {} THEN 0
                           ELSE LET x == CHOOSE x \in s : TRUE IN x.total + f[s \ {x}]]
           sum   == CHOOSE f : Is(f)
<1>1. ASSUME NEW f PROVE Is(f) <=> IsSum(f, S, w)
  <2>1. \A s \in SUBSET S : s # {} => (CHOOSE x \in s : TRUE) \in S
    OBVIOUS
  <2>2. \A s \in SUBSET S :
          s # {} => w[CHOOSE x \in s : TRUE] = (CHOOSE x \in s : TRUE).total
    BY <2>1
  <2>3. QED
    BY <2>2 DEF IsSum, Added
<1>2. Is(sum)
  <2> HIDE DEF Is
  <2>1. \E f : Is(f)
    BY <1>1, SumExists
  <2>2. QED
    BY <2>1
<1>3. MapThenSumSet(LAMBDA r : r.total, S) = sum[S]
  BY DEF MapThenSumSet, MapThenFoldSet
<1> HIDE DEF sum, Is
<1>4. QED
  BY <1>1, <1>2, <1>3

(* (The library sums an operator, and an operator cannot be a variable of  *)
(* a lemma here: each field has its own.)                                  *)
LEMMA SumOfUp ==
  ASSUME NEW S, IsFiniteSet(S), NEW w, w = [r \in S |-> r.up]
  PROVE  \E f : IsSum(f, S, w) /\ MapThenSumSet(LAMBDA r : r.up, S) = f[S]
<1> DEFINE Is(f) == f = [s \in SUBSET S |->
                           IF s = {} THEN 0
                           ELSE LET x == CHOOSE x \in s : TRUE IN x.up + f[s \ {x}]]
           sum   == CHOOSE f : Is(f)
<1>1. ASSUME NEW f PROVE Is(f) <=> IsSum(f, S, w)
  <2>1. \A s \in SUBSET S : s # {} => (CHOOSE x \in s : TRUE) \in S
    OBVIOUS
  <2>2. \A s \in SUBSET S :
          s # {} => w[CHOOSE x \in s : TRUE] = (CHOOSE x \in s : TRUE).up
    BY <2>1
  <2>3. QED
    BY <2>2 DEF IsSum, Added
<1>2. Is(sum)
  <2> HIDE DEF Is
  <2>1. \E f : Is(f)
    BY <1>1, SumExists
  <2>2. QED
    BY <2>1
<1>3. MapThenSumSet(LAMBDA r : r.up, S) = sum[S]
  BY DEF MapThenSumSet, MapThenFoldSet
<1> HIDE DEF sum, Is
<1>4. QED
  BY <1>1, <1>2, <1>3

(* A sum of numbers, each of them no more than the elements of a set of    *)
(* its own in T, is no more than the elements of T.                        *)
LEMMA SumIsCovered ==
  ASSUME NEW S, IsFiniteSet(S), NEW w \in [S -> Nat], NEW f, IsSum(f, S, w), NEW c,
         \A x \in S : IsFiniteSet(c[x]) /\ w[x] <= Cardinality(c[x]),
         \A x, y \in S : x # y => c[x] \cap c[y] = {},
         NEW T, IsFiniteSet(T), \A x \in S : c[x] \subseteq T
  PROVE  f[S] <= Cardinality(T)
<1> DEFINE Cover(s) == UNION {c[x] : x \in s}
           Good(s)  == IsFiniteSet(Cover(s)) /\ f[s] \in Nat /\ f[s] <= Cardinality(Cover(s))
           Bad      == {n \in Nat : \E s \in SUBSET S : Cardinality(s) = n /\ ~Good(s)}
<1>1. \A s \in SUBSET S : IsFiniteSet(s) /\ Cardinality(s) \in Nat
  BY FS_Subset, FS_CardinalityType
<1>2. Good({})
  <2>1. f[{}] = 0
    BY DEF IsSum, Added
  <2>2. Cover({}) = {}
    OBVIOUS
  <2>3. IsFiniteSet({}) /\ Cardinality({}) = 0
    BY FS_EmptySet
  <2>4. QED
    BY <2>1, <2>2, <2>3
<1>3. ASSUME NEW s \in SUBSET S, NEW x \in s, x = CHOOSE y \in s : TRUE, Good(s \ {x})
      PROVE  Good(s)
  <2> DEFINE rest == Cover(s \ {x})
  <2>1. f[s] = w[x] + f[s \ {x}]
    BY <1>3 DEF IsSum, Added
  <2>2. Cover(s) = c[x] \cup rest /\ c[x] \cap rest = {}
    OBVIOUS
  <2>3. w[x] \in Nat /\ IsFiniteSet(c[x]) /\ w[x] <= Cardinality(c[x])
    OBVIOUS
  <2>4. IsFiniteSet(rest) /\ f[s \ {x}] \in Nat /\ f[s \ {x}] <= Cardinality(rest)
    BY <1>3
  <2> HIDE DEF rest, Cover
  <2>5. Cardinality(c[x]) \in Nat /\ Cardinality(rest) \in Nat
    BY <2>3, <2>4, FS_CardinalityType
  <2>6. /\ IsFiniteSet(c[x] \cup rest)
        /\ Cardinality(c[x] \cup rest) =
             Cardinality(c[x]) + Cardinality(rest) - Cardinality(c[x] \cap rest)
    BY <2>3, <2>4, FS_Union
  <2>7. Cardinality(c[x] \cap rest) = 0
    BY <2>2, FS_EmptySet
  <2>8. QED
    BY <2>1, <2>2, <2>3, <2>4, <2>5, <2>6, <2>7
<1>4. Bad = {}
  <2> SUFFICES ASSUME Bad # {} PROVE FALSE
    OBVIOUS
  <2> HIDE DEF Good
  <2>1. PICK n \in Bad : \A m \in Bad : ~(m < n)
    BY LeastNumber
  <2>2. PICK s \in SUBSET S : Cardinality(s) = n /\ ~Good(s)
    OBVIOUS
  <2>3. PICK x \in s : x = CHOOSE y \in s : TRUE
    BY <1>2, <2>2
  <2>4. Cardinality(s \ {x}) = n - 1 /\ n - 1 \in Nat /\ n \in Nat
    <3>1. IsFiniteSet(s) /\ Cardinality(s) \in Nat /\ Cardinality(s \ {x}) \in Nat
      BY <1>1
    <3>2. Cardinality(s \ {x}) = Cardinality(s) - 1
      BY <3>1, FS_RemoveElement
    <3>3. QED
      BY <2>2, <3>1, <3>2
  <2>5. n - 1 \notin Bad
    BY <2>1, <2>4
  <2>6. Good(s \ {x})
    BY <2>4, <2>5
  <2>7. QED
    BY <1>3, <2>2, <2>3, <2>6
<1>5. Good(S)
  <2> HIDE DEF Good
  <2>1. QED
    BY <1>1, <1>4
<1>6. Cover(S) \subseteq T
  OBVIOUS
<1>7. QED
  <2> DEFINE all == Cover(S)
  <2>1. IsFiniteSet(all) /\ f[S] \in Nat /\ f[S] <= Cardinality(all) /\ all \subseteq T
    BY <1>5, <1>6
  <2> HIDE DEF all
  <2>2. /\ Cardinality(all) \in Nat /\ Cardinality(T) \in Nat
        /\ Cardinality(all) <= Cardinality(T)
    BY <2>1, FS_Subset, FS_CardinalityType
  <2>3. QED
    BY <2>1, <2>2

(* The rows of an hour are of different monitors, and each counts checks   *)
(* of its own.                                                             *)
LEMMA OverviewIsSound ==
  ASSUME TypeInv, SoundInv, NEW g \in GetOverview
  PROVE  LET group == {h \in seen : BucketOf("hourly", h.at) = g.bucket}
         IN  g.total <= Cardinality(group) /\ g.up <= CountUp(group)
<1> DEFINE since == clock - Overview
           Of(b) == {r \in {q \in stats["hourly"] : q.bucket >= since} : r.bucket = b}
           group == {h \in seen : BucketOf("hourly", h.at) = g.bucket}
           In(r) == InBucket("hourly", r.monitor, r.bucket, seen)
           rows  == Of(g.bucket)
<1>1. /\ g.total = MapThenSumSet(LAMBDA r : r.total, rows)
      /\ g.up = MapThenSumSet(LAMBDA r : r.up, rows)
  <2> DEFINE up(b)    == MapThenSumSet(LAMBDA r : r.up, Of(b))
             total(b) == MapThenSumSet(LAMBDA r : r.total, Of(b))
             hours    == {r.bucket : r \in {q \in stats["hourly"] : q.bucket >= since}}
  <2>1. GetOverview = {[bucket |-> b, up |-> up(b), total |-> total(b)] : b \in hours}
    BY DEF GetOverview, GetGlobalHourly
  <2> HIDE DEF up, total, hours
  <2>2. g.total = total(g.bucket) /\ g.up = up(g.bucket)
    BY <2>1
  <2>3. QED
    BY <2>2 DEF up, total
<1>2. IsFiniteSet(seen) /\ IsFiniteSet(group)
  BY FS_Subset DEF SoundInv
<1>3. ASSUME NEW r \in rows
      PROVE  /\ r \in Row /\ Counts(r, In(r)) /\ IsFiniteSet(In(r)) /\ In(r) # {}
             /\ In(r) \subseteq group
             /\ Cardinality(In(r)) \in Nat /\ CountUp(In(r)) \in Nat
             /\ IsFiniteSet({h \in In(r) : h.up})
  <2>1. r \in stats["hourly"] /\ "hourly" \in Levels /\ r.bucket = g.bucket
    BY RangesAssumption
  <2>2. Counts(r, In(r)) /\ r \in Row
    BY <2>1 DEF SoundInv, TypeInv, TypeOK
  <2>3. In(r) \subseteq seen /\ In(r) \subseteq group
    BY <2>1 DEF InBucket
  <2>4. IsFiniteSet(In(r))
    BY <1>2, <2>3, FS_Subset
  <2>5. IsFiniteSet({h \in In(r) : h.up})
    BY <2>4, FS_Subset
  <2> HIDE DEF In
  <2>6. Cardinality(In(r)) \in Nat /\ CountUp(In(r)) \in Nat
    BY <2>4, PartCounts
  <2>7. In(r) # {}
    BY <2>2, FS_EmptySet DEF Counts
  <2>8. QED
    BY <2>2, <2>3, <2>4, <2>5, <2>6, <2>7
<1>4. ASSUME NEW r \in rows, NEW q \in rows, r # q
      PROVE  In(r) \cap In(q) = {}
  <2>1. r.monitor # q.monitor
    BY <1>4, RangesAssumption DEF SoundInv, OneRow
  <2>2. QED
    BY <2>1 DEF InBucket
<1>5. IsFiniteSet(rows)
  <2> DEFINE one == [r \in rows |-> CHOOSE h \in In(r) : TRUE]
  <2> HIDE DEF rows, In, group
  <2>1. \A r \in rows : one[r] \in In(r) /\ one[r] \in group
    BY <1>3
  <2>2. \A r, q \in rows : one[r] = one[q] => r = q
    BY <1>4, <2>1
  <2>3. one \in [rows -> group]
    BY <2>1
  <2>4. one \in Injection(rows, group)
    BY <2>2, <2>3 DEF Injection, IsInjective
  <2>5. QED
    BY <1>2, <2>4, FS_Injection
<1>6. g.total <= Cardinality(group)
  <2> DEFINE w == [r \in rows |-> r.total]
             c == [r \in rows |-> In(r)]
  <2> HIDE DEF rows, In, group
  <2>1. w \in [rows -> Nat]
    BY <1>3 DEF Row
  <2>2. PICK f : IsSum(f, rows, w) /\ g.total = f[rows]
    BY <1>1, <1>5, SumOfTotal
  <2>3. ASSUME NEW r \in rows PROVE IsFiniteSet(c[r]) /\ w[r] <= Cardinality(c[r])
    <3>1. r.total \in 1..Cardinality(In(r)) /\ IsFiniteSet(In(r)) /\ Cardinality(In(r)) \in Nat
      BY <1>3 DEF Counts
    <3>2. QED
      BY <3>1
  <2>4. \A r, q \in rows : r # q => c[r] \cap c[q] = {}
    BY <1>4
  <2>5. \A r \in rows : c[r] \subseteq group
    BY <1>3
  <2> HIDE DEF w, c
  <2>6. QED
    BY <1>2, <1>5, <2>1, <2>2, <2>3, <2>4, <2>5, SumIsCovered
<1>7. g.up <= CountUp(group)
  <2> DEFINE w == [r \in rows |-> r.up]
             c == [r \in rows |-> {h \in In(r) : h.up}]
             upGroup == {h \in group : h.up}
  <2> HIDE DEF rows, In, group
  <2>1. w \in [rows -> Nat]
    BY <1>3 DEF Row
  <2>2. PICK f : IsSum(f, rows, w) /\ g.up = f[rows]
    BY <1>1, <1>5, SumOfUp
  <2>3. \A r \in rows : IsFiniteSet(c[r]) /\ w[r] <= Cardinality(c[r])
    BY <1>3 DEF Counts, CountUp
  <2>4. \A r, q \in rows : r # q => c[r] \cap c[q] = {}
    BY <1>4
  <2>5. \A r \in rows : c[r] \subseteq upGroup
    BY <1>3
  <2>6. IsFiniteSet(upGroup) /\ CountUp(group) = Cardinality(upGroup)
    BY <1>2, FS_Subset DEF CountUp
  <2> HIDE DEF w, c, upGroup
  <2>7. QED
    BY <1>5, <2>1, <2>2, <2>3, <2>4, <2>5, <2>6, SumIsCovered
<1>8. QED
  BY <1>6, <1>7

(* No row counts a check that did not take place, nor an up check that was *)
(* not, nor twice: a bucket has one row, which counts a part of what is    *)
(* recorded of it; and the overview adds rows of different checks.         *)
THEOREM StatisticsAreSound == Spec => []RowsAreSound
<1>1. TypeInv /\ SoundInv => RowsAreSound
  <2> SUFFICES ASSUME TypeInv, SoundInv PROVE RowsAreSound
    OBVIOUS
  <2>1. ASSUME NEW l \in Levels, NEW r \in stats[l] PROVE RowIsSound(l, r)
    BY DEF SoundInv, RowIsSound, Counts, OneRow
  <2>2. QED
    BY <2>1, OverviewIsSound DEF RowsAreSound
<1>2. QED
  BY SoundRows, <1>1, PTL

=============================================================================
