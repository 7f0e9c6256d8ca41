--------------------------- MODULE HistoryProofs ---------------------------
EXTENDS History, FiniteSetTheorems, TLAPS

---------------------------------------------------------------------------
(* Hours and days *)

\* Where the span of length w that holds t starts.
LEMMA SpanOf ==
    ASSUME NEW t \in Int, NEW w \in Nat \ {0}
    PROVE  /\ (t \div w) \in Int /\ (t \div w) * w \in Int
           /\ (t \div w) * w <= t /\ t < (t \div w) * w + w
  OBVIOUS

\* Spans are in order, and a moment before one ends its own before it.
LEMMA SpansInOrder ==
    ASSUME NEW s \in Int, NEW t \in Int, NEW w \in Nat \ {0}
    PROVE  /\ s <= t => (s \div w) * w <= (t \div w) * w
           /\ s < (t \div w) * w => (s \div w) * w + w <= (t \div w) * w
  BY SpanOf

\* The span that starts at a multiple q * w of w.
LEMMA SpanAtMultiple ==
    ASSUME NEW q \in Int, NEW t \in Int, NEW w \in Nat \ {0}, q * w <= t, t < q * w + w
    PROVE  t \div w = q
  BY SpanOf

LEMMA SpansNest ==
    ASSUME NEW t \in Int, NEW w \in Nat \ {0}, NEW v \in Nat \ {0}, v % w = 0
    PROVE  (((t \div w) * w) \div v) * v = (t \div v) * v
  <1>. DEFINE h == (t \div w) * w
              d == t \div v
  <1>1. PICK k \in Int : v = k * w
    <2>1. v = (v \div w) * w
      OBVIOUS
    <2>. QED BY <2>1, SpanOf
  <1>2. d * v <= t /\ t < d * v + v /\ d \in Int
    BY SpanOf
  <1>3. d * v = (d * k) * w
    BY <1>1, <1>2
  <1>4. h \in Int /\ h <= t
    BY SpanOf
  <1>5. ((d * v) \div w) * w = d * v
    <2>1. d * k \in Int /\ d * v \in Int
      BY <1>1, <1>2
    <2>2. (d * v) \div w = d * k
      BY <1>3, <2>1, SpanAtMultiple
    <2>. QED BY <1>3, <2>2
  <1>6. d * v <= h
    BY <1>2, <1>5, SpansInOrder
  <1>7. h \div v = d
    <2>. HIDE DEF h, d
    <2>. QED BY <1>2, <1>4, <1>6, SpanAtMultiple
  <1>. QED BY <1>7

LEMMA HistoryConstants ==
    /\ Hour \in Nat \ {0} /\ Day \in Nat \ {0} /\ Day % Hour = 0
    /\ RollLag \in Nat \ {0} /\ DailyAfter \in Nat \ {0} /\ Keep \in Nat \ {0}
    /\ Grace \in Nat \ {0} /\ PruneSlice \in Nat \ {0} /\ OrphanSlice \in Nat \ {0}
    /\ CommitDelay \in Nat /\ JobSpan \in Nat /\ MaxTime \in Nat
    /\ CommitDelay <= RollLag /\ RollLag <= DailyAfter
    /\ Retention \in [Monitors -> Nat]
    /\ \A m \in Monitors : Retention[m] >= Hour + RollLag
  BY HistoryAssumption DEF HistoryAssumption

LEMMA HourIs ==
    ASSUME NEW t \in Int
    PROVE  /\ HourOf(t) \in Int /\ HourOf(t) <= t /\ t < HourOf(t) + Hour
           /\ HourOf(HourOf(t)) = HourOf(t) /\ DayOf(HourOf(t)) = DayOf(t)
           /\ t \in Nat => HourOf(t) \in Nat
  <1>1. /\ HourOf(t) \in Int /\ HourOf(t) <= t /\ t < HourOf(t) + Hour /\ (t \div Hour) \in Int
    BY HistoryConstants, SpanOf DEF HourOf
  <1>2. DayOf(HourOf(t)) = DayOf(t)
    <2>1. Hour \in Nat \ {0} /\ Day \in Nat \ {0} /\ Day % Hour = 0
      BY HistoryConstants
    <2>2. (((t \div Hour) * Hour) \div Day) * Day = (t \div Day) * Day
      BY <2>1, SpansNest
    <2>. QED BY <2>2, Zenon DEF HourOf, DayOf
  <1>3. HourOf(HourOf(t)) = HourOf(t)
    BY <1>1, HistoryConstants, SpanAtMultiple DEF HourOf
  <1>4. t \in Nat => HourOf(t) >= 0
    BY HistoryConstants DEF HourOf
  <1>. QED BY <1>1, <1>2, <1>3, <1>4

LEMMA Regroup ==
    ASSUME NEW q \in Int, NEW k \in Int, NEW h \in Int
    PROVE  q * (k * h) = (q * k) * h /\ q * (k * h) + k * h = (q * k + k) * h
  OBVIOUS

LEMMA DayIs ==
    ASSUME NEW t \in Int
    PROVE  /\ DayOf(t) \in Int /\ DayOf(t) <= t /\ t < DayOf(t) + Day
           /\ DayOf(DayOf(t)) = DayOf(t) /\ HourOf(DayOf(t)) = DayOf(t)
           /\ HourOf(DayOf(t) + Day) = DayOf(t) + Day
           /\ DayOf(DayOf(t) + Day) = DayOf(t) + Day
           /\ t \in Nat => DayOf(t) \in Nat
  <1>1. /\ DayOf(t) \in Int /\ DayOf(t) <= t /\ t < DayOf(t) + Day /\ (t \div Day) \in Int
    BY HistoryConstants, SpanOf DEF DayOf
  <1>2. DayOf(DayOf(t)) = DayOf(t)
    BY <1>1, HistoryConstants, SpanAtMultiple DEF DayOf
  <1>3. PICK k \in Int : Day = k * Hour
    BY HistoryConstants, SpanOf
  <1>4. \A q \in Int : HourOf(q * Hour) = q * Hour
    BY HistoryConstants, SpanAtMultiple DEF HourOf
  <1>5. /\ DayOf(t) = ((t \div Day) * k) * Hour /\ (t \div Day) * k \in Int
        /\ DayOf(t) + Day = ((t \div Day) * k + k) * Hour /\ (t \div Day) * k + k \in Int
    <2>. DEFINE q == t \div Day
    <2>1. q \in Int /\ DayOf(t) = q * Day /\ Hour \in Int
      BY <1>1, HistoryConstants DEF DayOf
    <2>2. q * Day = (q * k) * Hour /\ q * Day + Day = (q * k + k) * Hour
      <3>. HIDE DEF q
      <3>1. q * (k * Hour) = (q * k) * Hour /\ q * (k * Hour) + k * Hour = (q * k + k) * Hour
        BY <2>1, Regroup
      <3>. QED BY <3>1, <1>3
    <2>3. q * k \in Int /\ q * k + k \in Int
      <3>. HIDE DEF q
      <3>. QED BY <2>1, <1>3
    <2>. QED BY <2>1, <2>2, <2>3
  <1>6. t \in Nat => DayOf(t) >= 0
    BY HistoryConstants DEF DayOf
  <1>7. DayOf(DayOf(t) + Day) = DayOf(t) + Day
    <2>. DEFINE q == t \div Day
    <2>1. q \in Int /\ DayOf(t) = q * Day /\ Day \in Nat \ {0}
      BY <1>1, HistoryConstants DEF DayOf
    <2>2. q * Day + Day = (q + 1) * Day /\ q + 1 \in Int /\ (q + 1) * Day \in Int
      <3>. HIDE DEF q
      <3>. QED BY <2>1
    <2>3. DayOf((q + 1) * Day) = (q + 1) * Day
      <3>. HIDE DEF q
      <3>. QED BY <2>1, <2>2, SpanAtMultiple DEF DayOf
    <2>. QED BY <2>1, <2>2, <2>3
  <1>. QED BY <1>1, <1>2, <1>4, <1>5, <1>6, <1>7

LEMMA InOrder ==
    ASSUME NEW s \in Int, NEW t \in Int
    PROVE  /\ s <= t => HourOf(s) <= HourOf(t) /\ DayOf(s) <= DayOf(t)
           /\ s < HourOf(t) => HourOf(s) + Hour <= HourOf(t)
           /\ s < DayOf(t) => DayOf(s) + Day <= DayOf(t)
  BY HistoryConstants, SpansInOrder DEF HourOf, DayOf

---------------------------------------------------------------------------
(* The least and the greatest of a set of moments *)

\* A nonempty family of subsets of a finite set has a minimal member.
LEMMA MinimalSubset ==
    ASSUME NEW X, IsFiniteSet(X), NEW T \in SUBSET (SUBSET X), T # {}
    PROVE  \E s \in T : \A t \in T : t \subseteq s => t = s
  <1>1. IsWellFoundedOn(StrictSubsetOrdering(X), SUBSET X)
    BY FS_StrictSubsetOrderingWellFounded, FS_FiniteSubsetsOfFinite
  <1>2. \E s \in T : \A t \in T : <<t, s>> \notin StrictSubsetOrdering(X)
    BY <1>1, WFMin
  <1>3. \A s, t \in T : t \subseteq s /\ t # s => <<t, s>> \in StrictSubsetOrdering(X)
    BY DEF StrictSubsetOrdering
  <1>. QED BY <1>2, <1>3

\* A nonempty set of naturals has a least one: the intervals that start at 0
\* and end in it have a minimal one.
LEMMA LeastExists ==
    ASSUME NEW S \in SUBSET Nat, S # {}
    PROVE  \E x \in S : \A y \in S : x =< y
  <1>1. PICK n \in S : TRUE
    OBVIOUS
  <1>. DEFINE X == 0..n
              T == {0..m : m \in {k \in S : k =< n}}
  <1>2. IsFiniteSet(X) /\ T \in SUBSET (SUBSET X) /\ T # {}
    <2>1. IsFiniteSet(X)
      BY FS_Interval
    <2>2. \A m \in S : m =< n => 0..m \subseteq X
      OBVIOUS
    <2>3. 0..n \in T
      OBVIOUS
    <2>4. T \subseteq SUBSET X
      BY <2>2
    <2>. QED BY <2>1, <2>3, <2>4
  <1>3. \E s \in T : \A t \in T : t \subseteq s => t = s
    <2>. HIDE DEF T, X
    <2>. QED BY <1>2, MinimalSubset
  <1>4. PICK x \in S : x =< n /\ \A t \in T : t \subseteq 0..x => t = 0..x
    BY <1>3
  <1>5. \A y \in S : y < x => 0..y \in T /\ 0..y \subseteq 0..x /\ x \notin 0..y /\ x \in 0..x
    BY <1>4
  <1>6. \A y \in S : ~(y < x)
    BY <1>4, <1>5
  <1>. QED BY <1>6

LEMMA MinIsLeast ==
    ASSUME NEW S \in SUBSET Nat, S # {}
    PROVE  Min(S) \in S /\ \A y \in S : Min(S) =< y
  BY LeastExists DEF Min

\* The same from above, for a set that has a bound.
LEMMA MaxIsGreatest ==
    ASSUME NEW n \in Nat, NEW S \in SUBSET (0..n), S # {}
    PROVE  Max(S) \in S /\ \A y \in S : Max(S) >= y
  <1>. DEFINE R == {n - s : s \in S}
  <1>1. R \in SUBSET Nat /\ R # {}
    <2>1. \A s \in S : n - s \in Nat
      OBVIOUS
    <2>. QED BY <2>1
  <1>2. \E x \in R : \A y \in R : x =< y
    <2>. HIDE DEF R
    <2>. QED BY <1>1, LeastExists
  <1>3. \E x \in S : \A y \in S : x >= y
    <2>1. PICK x \in S : \A y \in R : n - x =< y
      BY <1>2
    <2>2. \A y \in S : n - y \in R /\ x \in Int /\ y \in Int
      OBVIOUS
    <2>3. \A y \in S : n - x =< n - y
      BY <2>1, <2>2
    <2>. QED BY <2>2, <2>3
  <1>. QED BY <1>3 DEF Max

---------------------------------------------------------------------------
(* The invariant: a check that was committed is a row until it is summed   *)
(* up, by its hour, and its hour until it is summed up, by its day.        *)

InHour(i, t) == \E b \in hourly : b.id = i /\ b.at = HourOf(t)
InDay(i, t) == \E b \in daily : b.id = i /\ b.at = DayOf(t)

\* Nothing finer than a day need be kept of it, or nothing at all.
Settled(i, t) == i \in wiped \/ DayOf(t) < now - Keep \/ InDay(i, t)
Summed(i, t) == Settled(i, t) \/ InHour(i, t)

Later == {"fill", "daily", "prune_hourly", "prune_daily", "raw", "marks", "orphans",
          "wipe_checks", "wipe_hourly", "wipe_daily", "wipe_mark"}
Wiping == {"wipe_checks", "wipe_hourly", "wipe_daily", "wipe_mark"}

\* The types, but for what a daily bucket counts: a sum is a fold.
TablesTypeOK ==
    /\ now \in Nat /\ wiped \subseteq Monitors
    /\ pending \in [Monitors -> Nat \cup {None}]
    /\ raw \subseteq Checks /\ recorded \subseteq Checks /\ IsFiniteSet(recorded)
    /\ raw \subseteq recorded
    /\ hourly \subseteq HourBuckets
    /\ \A b \in daily : b.id \in Monitors /\ b.at \in Nat

JobTypeOK ==
    /\ config \subseteq Monitors
    /\ job \in [step : Steps, kind : {"prune", "rollup"}, at : Nat,
               conf : SUBSET Monitors, late : BOOLEAN, left : SUBSET Monitors,
               victim : SUBSET Monitors,
               found : SUBSET (Monitors \X {"checks", "hourly", "daily"})]

\* What is stamped is committed soon; a bucket is written after its span.
ClockHolds ==
    /\ \A m \in Monitors : pending[m] # None =>
           pending[m] <= now /\ now <= pending[m] + CommitDelay
    /\ job.step # "idle" => job.at <= now

BucketsArePast ==
    /\ \A b \in hourly : b.at = HourOf(b.at) /\ b.at + Hour <= now - RollLag
    /\ \A b \in daily : b.at = DayOf(b.at) /\ b.at + Day <= now - DailyAfter

\* What lies below the newest bucket was summed up in it or in an earlier one.
RowsAreRolled ==
    /\ \A c \in raw, b \in hourly : c.t < b.at + Hour => Summed(c.id, c.t)
    /\ \A c \in raw, b \in daily : c.t < b.at + Day => Settled(c.id, c.t)
    /\ \A h \in hourly, b \in daily : h.at < b.at + Day => Settled(h.id, h.at)

\* What the steps of a tick may rely on.
TickHolds ==
    /\ job.step \in Later =>
          \A c \in raw : c.t < HourOf(job.at - RollLag) => Summed(c.id, c.t)
    /\ job.step = "prune_hourly" =>
          \A h \in hourly : h.at < HourlyCutoff => Settled(h.id, h.at)
    /\ job.step \in Wiping => job.victim \subseteq wiped

HistoryInv ==
    /\ TablesTypeOK /\ JobTypeOK /\ ClockHolds /\ BucketsArePast
    /\ RowsAreRolled /\ TickHolds /\ NothingIsLost

LEMMA HistoryInvInit == HistoryInit => HistoryInv
  <1>. SUFFICES ASSUME HistoryInit PROVE HistoryInv
    OBVIOUS
  <1>1. TablesTypeOK /\ JobTypeOK
    BY FS_EmptySet DEF HistoryInit, TablesTypeOK, JobTypeOK, Idle, Steps
  <1>2. ClockHolds /\ BucketsArePast /\ RowsAreRolled /\ TickHolds /\ NothingIsLost
    BY DEF HistoryInit, ClockHolds, BucketsArePast, RowsAreRolled, TickHolds, NothingIsLost,
       Idle, Later, Wiping
  <1>. QED BY <1>1, <1>2 DEF HistoryInv

\* A step that adds no row and no bucket, and takes a row or a bucket away
\* only when it is summed up by a coarser one, wiped or over a year old.
LEMMA Shrinks ==
    ASSUME HistoryInv, TablesTypeOK', JobTypeOK', ClockHolds',
           now <= now', wiped \subseteq wiped', raw' \subseteq raw, recorded' = recorded,
           \A b \in hourly' : \E o \in hourly : o.id = b.id /\ o.at = b.at,
           \A b \in hourly : \/ Settled(b.id, b.at)
                             \/ \E o \in hourly' : o.id = b.id /\ o.at = b.at,
           daily' \subseteq daily,
           \A b \in daily \ daily' : b.id \in wiped \/ b.at < now - Keep,
           \A c \in raw \ raw' : Summed(c.id, c.t),
           job'.step \in Later => job.step \in Later /\ job'.at = job.at,
           job'.step = "prune_hourly" => job.step = "prune_hourly" /\ job'.at = job.at,
           job'.step \in Wiping => job'.victim \subseteq wiped'
    PROVE  HistoryInv'
  <1>. USE DEF HistoryInv
  <1>1. \A c \in raw : c.id \in Monitors /\ c.t \in Nat
    BY DEF TablesTypeOK, Checks
  <1>2. \A b \in hourly : b.id \in Monitors /\ b.at \in Nat
    BY DEF TablesTypeOK, HourBuckets
  <1>3. \A b \in daily : b.id \in Monitors /\ b.at \in Nat
    BY DEF TablesTypeOK
  <1>4. now \in Nat /\ now' \in Nat /\ Keep \in Nat
    BY HistoryConstants DEF TablesTypeOK
  <1>5. \A i \in Monitors, t \in Nat : Settled(i, t) => Settled(i, t)'
    <2>. SUFFICES ASSUME NEW i \in Monitors, NEW t \in Nat, Settled(i, t)
                  PROVE  Settled(i, t)'
      OBVIOUS
    <2>1. DayOf(t) \in Int
      BY DayIs
    <2>2. CASE i \in wiped
      BY <2>2 DEF Settled
    <2>3. CASE DayOf(t) < now - Keep
      BY <2>1, <2>3, <1>4 DEF Settled
    <2>4. CASE InDay(i, t)
      <3>1. PICK b \in daily : b.id = i /\ b.at = DayOf(t)
        BY <2>4 DEF InDay
      <3>2. CASE b \in daily'
        BY <3>1, <3>2 DEF Settled, InDay
      <3>3. CASE b \notin daily'
        <4>1. i \in wiped \/ DayOf(t) < now - Keep
          BY <3>1, <3>3
        <4>. QED BY <4>1, <2>2, <2>3
      <3>. QED BY <3>2, <3>3
    <2>. QED BY <2>2, <2>3, <2>4 DEF Settled
  <1>6. \A i \in Monitors, t \in Nat : Summed(i, t) => Summed(i, t)'
    <2>. SUFFICES ASSUME NEW i \in Monitors, NEW t \in Nat, InHour(i, t)
                  PROVE  Summed(i, t)'
      BY <1>5 DEF Summed
    <2>1. PICK b \in hourly : b.id = i /\ b.at = HourOf(t)
      BY DEF InHour
    <2>2. CASE \E o \in hourly' : o.id = b.id /\ o.at = b.at
      BY <2>1, <2>2 DEF Summed, InHour
    <2>3. CASE Settled(b.id, b.at)
      <3>1. Settled(i, t)
        BY <2>1, <2>3, HourIs DEF Settled, InDay
      <3>. QED BY <3>1, <1>5 DEF Summed
    <2>. QED BY <2>2, <2>3
  <1>7. BucketsArePast'
    <2>. USE DEF BucketsArePast
    <2>1. ASSUME NEW b \in hourly' PROVE b.at = HourOf(b.at) /\ b.at + Hour <= now' - RollLag
      <3>1. PICK o \in hourly : o.id = b.id /\ o.at = b.at
        OBVIOUS
      <3>2. b.at = HourOf(b.at) /\ b.at + Hour <= now - RollLag /\ b.at \in Nat
        BY <3>1, <1>2
      <3>. QED BY <3>2, <1>4, HistoryConstants
    <2>2. ASSUME NEW b \in daily' PROVE b.at = DayOf(b.at) /\ b.at + Day <= now' - DailyAfter
      <3>1. b.at = DayOf(b.at) /\ b.at + Day <= now - DailyAfter /\ b.at \in Nat
        BY <1>3
      <3>. QED BY <3>1, <1>4, HistoryConstants
    <2>. QED BY <2>1, <2>2
  <1>8. RowsAreRolled'
    <2>. USE DEF RowsAreRolled
    <2>1. ASSUME NEW c \in raw', NEW b \in hourly', c.t < b.at + Hour
          PROVE  Summed(c.id, c.t)'
      <3>1. PICK o \in hourly : o.at = b.at
        OBVIOUS
      <3>2. Summed(c.id, c.t)
        BY <2>1, <3>1
      <3>. QED BY <3>2, <1>1, <1>6
    <2>2. ASSUME NEW c \in raw', NEW b \in daily', c.t < b.at + Day
          PROVE  Settled(c.id, c.t)'
      BY <2>2, <1>1, <1>5
    <2>3. ASSUME NEW h \in hourly', NEW b \in daily', h.at < b.at + Day
          PROVE  Settled(h.id, h.at)'
      <3>1. PICK o \in hourly : o.id = h.id /\ o.at = h.at
        OBVIOUS
      <3>2. Settled(o.id, o.at)
        BY <2>3, <3>1
      <3>3. Settled(o.id, o.at)'
        BY <3>2, <1>2, <1>5
      <3>. QED BY <3>1, <3>3
    <2>. QED BY <2>1, <2>2, <2>3
  <1>9. TickHolds'
    <2>1. ASSUME job'.step \in Later, NEW c \in raw', c.t < HourOf(job'.at - RollLag)
          PROVE  Summed(c.id, c.t)'
      BY <2>1, <1>1, <1>6 DEF TickHolds
    <2>2. ASSUME job'.step = "prune_hourly", NEW h \in hourly', h.at < HourlyCutoff'
          PROVE  Settled(h.id, h.at)'
      <3>1. PICK o \in hourly : o.id = h.id /\ o.at = h.at
        OBVIOUS
      <3>2. HourlyCutoff' = HourlyCutoff /\ job.step = "prune_hourly"
        BY <2>2 DEF HourlyCutoff, DailyCutoff
      <3>3. Settled(o.id, o.at)
        BY <2>2, <3>1, <3>2 DEF TickHolds
      <3>. QED BY <3>1, <3>3, <1>2, <1>5
    <2>. QED BY <2>1, <2>2 DEF TickHolds
  <1>10. NothingIsLost'
    <2>. SUFFICES ASSUME NEW c \in recorded PROVE c \in raw' \/ Summed(c.id, c.t)'
      BY DEF NothingIsLost, Summed, Settled, InHour, InDay
    <2>1. c.id \in Monitors /\ c.t \in Nat
      BY DEF TablesTypeOK, Checks
    <2>2. c \in raw \/ Summed(c.id, c.t)
      BY DEF NothingIsLost, Summed, Settled, InHour, InDay
    <2>. QED BY <2>1, <2>2, <1>6
  <1>. QED BY <1>7, <1>8, <1>9, <1>10

---------------------------------------------------------------------------
(* The steps that change no table *)

Jobs == [step : Steps, kind : {"prune", "rollup"}, at : Nat,
         conf : SUBSET Monitors, late : BOOLEAN, left : SUBSET Monitors,
         victim : SUBSET Monitors,
         found : SUBSET (Monitors \X {"checks", "hourly", "daily"})]

\* The task goes on with the same tick, ends it or begins one.
Moves ==
    \/ job'.step = "idle"
    \/ (job'.step = "roll" /\ job'.at = now)
    \/ /\ job.step # "idle" /\ job'.at = job.at
       /\ job'.step \in Later => job.step \in Later
       /\ job'.step = "prune_hourly" => job.step = "prune_hourly"
       /\ job'.step \in Wiping => job'.victim \subseteq wiped'

LEMMA MovesQuietly ==
    ASSUME HistoryInv, Moves, job' \in Jobs, UNCHANGED <<rest, raw, hourly, daily>>,
           wiped \subseteq wiped', wiped' \subseteq Monitors
    PROVE  HistoryInv'
  <1>. USE DEF HistoryInv
  <1>1. TablesTypeOK' /\ JobTypeOK'
    BY DEF rest, TablesTypeOK, JobTypeOK, Jobs
  <1>2. ClockHolds'
    BY DEF rest, Moves, ClockHolds, TablesTypeOK
  <1>3. now <= now' /\ recorded' = recorded
    BY DEF rest, TablesTypeOK
  <1>4. /\ job'.step \in Later => job.step \in Later /\ job'.at = job.at
        /\ job'.step = "prune_hourly" => job.step = "prune_hourly" /\ job'.at = job.at
        /\ job'.step \in Wiping => job'.victim \subseteq wiped'
    BY DEF Moves, Later, Wiping
  <1>5. /\ raw' \subseteq raw /\ daily' \subseteq daily /\ daily \ daily' = {} /\ raw \ raw' = {}
        /\ hourly' = hourly
    OBVIOUS
  <1>. QED BY <1>1, <1>2, <1>3, <1>4, <1>5, Shrinks

LEMMA JobIs ==
    ASSUME HistoryInv
    PROVE  job \in Jobs /\ config \subseteq Monitors /\ now \in Nat /\ wiped \subseteq Monitors
  BY DEF HistoryInv, JobTypeOK, TablesTypeOK, Jobs

LEMMA GotoIs ==
    ASSUME job \in Jobs, NEW s \in Steps, Goto(s)
    PROVE  job' \in Jobs /\ job'.step = s /\ job'.at = job.at
  BY DEF Goto, Jobs

LEMMA IdleIs == Idle \in Jobs /\ Idle.step = "idle"
  BY DEF Idle, Jobs, Steps

LEMMA OrphansLeftIs ==
    ASSUME job \in Jobs, NEW ids \in SUBSET Monitors, OrphansLeft(ids)
    PROVE  /\ job' \in Jobs
           /\ job'.step = "idle" \/ (job'.step = "orphans" /\ job'.at = job.at /\ job'.left = ids)
           /\ job'.step = "orphans" => job'.conf = job.conf
  <1>1. CASE ids = {}
    BY <1>1, IdleIs DEF OrphansLeft
  <1>2. CASE ids # {}
    <2>1. job' = [job EXCEPT !.step = "orphans", !.left = ids, !.victim = {}]
      BY <1>2 DEF OrphansLeft
    <2>. QED BY <2>1 DEF Jobs, Steps
  <1>. QED BY <1>1, <1>2

LEMMA BeginKeeps ==
    ASSUME HistoryInv, NEW kind \in {"prune", "rollup"}, Begin(kind)
    PROVE  HistoryInv'
  <1>1. job' \in Jobs /\ Moves
    BY JobIs DEF Begin, Idle, Jobs, Steps, Moves
  <1>. QED BY <1>1, JobIs, MovesQuietly DEF Begin

LEMMA FillEndsKeeps ==
    ASSUME HistoryInv, FillEnds
    PROVE  HistoryInv'
  <1>1. job' \in Jobs /\ (job'.step = "idle" \/ (job'.step = "daily" /\ job'.at = job.at))
    <2>1. job' = Idle \/ Goto("daily")
      BY DEF FillEnds, RolledUp
    <2>2. CASE job' = Idle
      BY <2>2, IdleIs
    <2>3. CASE Goto("daily")
      BY <2>3, JobIs, GotoIs DEF Steps
    <2>. QED BY <2>1, <2>2, <2>3
  <1>2. Moves
    BY <1>1 DEF FillEnds, Moves, Later, Wiping
  <1>. QED BY <1>1, <1>2, JobIs, MovesQuietly DEF FillEnds

LEMMA RunOutKeeps ==
    ASSUME HistoryInv, RunOut
    PROVE  HistoryInv'
  <1>1. job' \in Jobs /\ job'.step = job.step /\ job'.at = job.at /\ job'.victim = job.victim
    BY JobIs DEF RunOut, Jobs
  <1>2. Moves
    BY <1>1 DEF RunOut, Deleting, Moves, HistoryInv, TickHolds
  <1>. QED BY <1>1, <1>2, JobIs, MovesQuietly DEF RunOut

LEMMA PruneHourlyEndsKeeps ==
    ASSUME HistoryInv, PruneHourlyEnds
    PROVE  HistoryInv'
  <1>1. job' \in Jobs /\ job'.step = "prune_daily" /\ job'.at = job.at
    BY JobIs, GotoIs DEF PruneHourlyEnds, Steps
  <1>2. Moves
    BY <1>1 DEF PruneHourlyEnds, Moves, Later, Wiping
  <1>. QED BY <1>1, <1>2, JobIs, MovesQuietly DEF PruneHourlyEnds

LEMMA PruneRawEndsKeeps ==
    ASSUME HistoryInv, PruneRawEnds
    PROVE  HistoryInv'
  <1>1. job' \in Jobs /\ job'.step = "raw" /\ job'.at = job.at
    BY JobIs DEF PruneRawEnds, Jobs
  <1>2. Moves
    BY <1>1 DEF PruneRawEnds, Moves, Later, Wiping
  <1>. QED BY <1>1, <1>2, JobIs, MovesQuietly DEF PruneRawEnds

LEMMA SweepKeeps ==
    ASSUME HistoryInv, Sweep
    PROVE  HistoryInv'
  <1>1. job' \in Jobs /\ job'.step = "marks" /\ job'.at = job.at
    BY JobIs DEF Sweep, Jobs, Steps
  <1>2. Moves
    BY <1>1 DEF Sweep, Moves, Later, Wiping
  <1>. QED BY <1>1, <1>2, JobIs, MovesQuietly DEF Sweep

LEMMA DropMarkKeeps ==
    ASSUME HistoryInv, NEW m \in Monitors, DropMark(m)
    PROVE  HistoryInv'
  <1>1. Moves
    BY DEF DropMark, Moves, Wiping
  <1>. QED BY <1>1, JobIs, MovesQuietly DEF DropMark

LEMMA OrphansAre ==
    ASSUME HistoryInv
    PROVE  Orphans \subseteq Monitors
  BY JobIs DEF Orphans, Jobs

LEMMA MarksReadKeeps ==
    ASSUME HistoryInv, MarksRead
    PROVE  HistoryInv'
  <1>1. job' \in Jobs /\ (job'.step = "idle" \/ (job'.step = "orphans" /\ job'.at = job.at))
    BY JobIs, OrphansAre, OrphansLeftIs DEF MarksRead
  <1>2. Moves
    BY <1>1 DEF MarksRead, Moves, Later, Wiping
  <1>. QED BY <1>1, <1>2, JobIs, MovesQuietly DEF MarksRead

LEMMA MarkKeeps ==
    ASSUME HistoryInv, NEW m \in Monitors, Mark(m)
    PROVE  HistoryInv'
  <1>1. job.left \ {m} \in SUBSET Monitors
    BY JobIs DEF Jobs
  <1>2. job' \in Jobs /\ (job'.step = "idle" \/ (job'.step = "orphans" /\ job'.at = job.at))
    BY <1>1, JobIs, OrphansLeftIs DEF Mark
  <1>3. Moves
    BY <1>2 DEF Mark, Moves, Later, Wiping
  <1>. QED BY <1>2, <1>3, JobIs, MovesQuietly DEF Mark

LEMMA ExpireKeeps ==
    ASSUME HistoryInv, NEW m \in Monitors, Expire(m)
    PROVE  HistoryInv'
  <1>1. job' \in Jobs /\ job'.step = "wipe_checks" /\ job'.at = job.at /\ job'.victim = {m}
    BY JobIs DEF Expire, Jobs, Steps
  <1>2. Moves
    BY <1>1 DEF Expire, Moves, Later, Wiping
  <1>3. wiped' \subseteq Monitors /\ wiped \subseteq wiped'
    BY JobIs DEF Expire
  <1>. QED BY <1>1, <1>2, <1>3, JobIs, MovesQuietly DEF Expire

LEMMA WipeSlicesEndKeeps ==
    ASSUME HistoryInv, NEW m \in Monitors, WipeSlicesEnd(m)
    PROVE  HistoryInv'
  <1>1. job' \in Jobs /\ job'.step = "wipe_hourly" /\ job'.at = job.at /\ job'.victim = job.victim
    BY JobIs DEF WipeSlicesEnd, Jobs, Steps
  <1>2. job.victim \subseteq wiped
    BY DEF WipeSlicesEnd, HistoryInv, TickHolds, Wiping
  <1>3. Moves
    BY <1>1, <1>2 DEF WipeSlicesEnd, Moves, Later, Wiping
  <1>. QED BY <1>1, <1>3, JobIs, MovesQuietly DEF WipeSlicesEnd

LEMMA WipeMarkKeeps ==
    ASSUME HistoryInv, NEW m \in Monitors, WipeMark(m)
    PROVE  HistoryInv'
  <1>1. job.left \ {m} \in SUBSET Monitors
    BY JobIs DEF Jobs
  <1>2. job' \in Jobs /\ (job'.step = "idle" \/ (job'.step = "orphans" /\ job'.at = job.at))
    BY <1>1, JobIs, OrphansLeftIs DEF WipeMark
  <1>3. Moves
    BY <1>2 DEF WipeMark, Moves, Later, Wiping
  <1>. QED BY <1>2, <1>3, JobIs, MovesQuietly DEF WipeMark

\* A roll-up that a prune relies on: one in the same tick before it.
ReliedOn == job.step = "daily" \/ (job.step = "roll" /\ job.kind = "prune")

LEMMA FailsKeeps ==
    ASSUME HistoryInv, Fails, ~ReliedOn
    PROVE  HistoryInv'
  <1>. USE DEF ReliedOn
  <1>0. job.kind \in {"prune", "rollup"} /\ job.step \in Steps
    BY JobIs DEF Jobs
  <1>1. job' \in Jobs /\ Moves
    <2>1. CASE job.step \in {"roll", "fill"}
      <3>1. RolledUp
        BY <2>1 DEF Fails
      <3>2. CASE job.kind = "rollup"
        BY <3>1, <3>2, IdleIs DEF RolledUp, Moves
      <3>3. CASE job.kind = "prune"
        <4>1. job.step = "fill" /\ Goto("daily")
          BY <2>1, <3>1, <3>3 DEF RolledUp
        <4>2. job' \in Jobs /\ job'.step = "daily" /\ job'.at = job.at
          BY <4>1, JobIs, GotoIs DEF Steps
        <4>. QED BY <4>1, <4>2 DEF Moves, Later, Wiping
      <3>. QED BY <1>0, <3>2, <3>3
    <2>2. CASE job.step = "prune_hourly"
      <3>1. Goto("prune_daily")
        BY <2>2 DEF Fails
      <3>2. job' \in Jobs /\ job'.step = "prune_daily" /\ job'.at = job.at
        BY <3>1, JobIs, GotoIs DEF Steps
      <3>. QED BY <2>2, <3>2 DEF Moves, Later, Wiping
    <2>3. CASE job.step = "prune_daily"
      <3>1. job' = [job EXCEPT !.step = "raw", !.left = job.conf]
        BY <2>3 DEF Fails
      <3>2. job' \in Jobs /\ job'.step = "raw" /\ job'.at = job.at
        BY <3>1, JobIs DEF Jobs, Steps
      <3>. QED BY <2>3, <3>2 DEF Moves, Later, Wiping
    <2>4. CASE job.step \notin {"roll", "fill", "daily", "prune_hourly", "prune_daily"}
      BY <2>4, IdleIs DEF Fails, Moves
    <2>. QED BY <2>1, <2>2, <2>3, <2>4
  <1>. QED BY <1>1, JobIs, MovesQuietly DEF Fails

---------------------------------------------------------------------------
(* Probes, reloads, the clock, stops *)

LEMMA TickKeeps ==
    ASSUME HistoryInv, Tick
    PROVE  HistoryInv'
  <1>. USE DEF Tick, HistoryInv
  <1>1. TablesTypeOK' /\ JobTypeOK'
    BY DEF TablesTypeOK, JobTypeOK
  <1>2. \A m \in Monitors : pending[m] # None =>
            pending[m] \in Nat /\ pending[m] <= now /\ now < pending[m] + CommitDelay
    BY DEF TablesTypeOK, ClockHolds
  <1>3. ClockHolds'
    BY <1>2, HistoryConstants DEF TablesTypeOK, JobTypeOK, ClockHolds
  <1>4. now <= now' /\ daily \ daily' = {} /\ raw \ raw' = {}
    BY DEF TablesTypeOK
  <1>5. job'.step \in Wiping => job'.victim \subseteq wiped'
    BY DEF TickHolds
  <1>. QED BY <1>1, <1>3, <1>4, <1>5, Shrinks

\* What changes neither a table nor the clock nor the tick.
LEMMA Aside ==
    ASSUME HistoryInv, UNCHANGED <<now, raw, hourly, daily, job, recorded, wiped>>,
           config' \subseteq Monitors, pending' \in [Monitors -> Nat \cup {None}],
           \A m \in Monitors : pending'[m] # None => pending'[m] = pending[m] \/ pending'[m] = now
    PROVE  HistoryInv'
  <1>. USE DEF HistoryInv
  <1>1. TablesTypeOK' /\ JobTypeOK'
    BY DEF TablesTypeOK, JobTypeOK
  <1>2. \A m \in Monitors : pending'[m] # None =>
            pending'[m] <= now /\ now <= pending'[m] + CommitDelay
    <2>. SUFFICES ASSUME NEW m \in Monitors, pending'[m] # None
                  PROVE  pending'[m] <= now /\ now <= pending'[m] + CommitDelay
      OBVIOUS
    <2>1. CASE pending'[m] = pending[m]
      BY <2>1 DEF ClockHolds
    <2>2. CASE pending'[m] = now
      BY <2>2, HistoryConstants DEF TablesTypeOK
    <2>. QED BY <2>1, <2>2
  <1>3. ClockHolds'
    BY <1>2 DEF ClockHolds
  <1>4. now <= now' /\ daily \ daily' = {} /\ raw \ raw' = {}
    BY DEF TablesTypeOK
  <1>5. job'.step \in Wiping => job'.victim \subseteq wiped'
    BY DEF TickHolds
  <1>. QED BY <1>1, <1>3, <1>4, <1>5, Shrinks

LEMMA ReloadKeeps ==
    ASSUME HistoryInv, NEW ids \in SUBSET Monitors, Reload(ids)
    PROVE  HistoryInv'
  <1>1. pending \in [Monitors -> Nat \cup {None}]
    BY DEF HistoryInv, TablesTypeOK
  <1>. QED BY <1>1, Aside DEF Reload

LEMMA DaemonKeeps ==
    ASSUME HistoryInv, NEW m \in Monitors, Stamp(m) \/ InsertFails(m)
    PROVE  HistoryInv'
  <1>1. pending \in [Monitors -> Nat \cup {None}] /\ now \in Nat /\ config \subseteq Monitors
    BY DEF HistoryInv, TablesTypeOK, JobTypeOK
  <1>2. CASE Stamp(m)
    BY <1>1, <1>2, Aside DEF Stamp
  <1>3. CASE InsertFails(m)
    BY <1>1, <1>3, Aside DEF InsertFails
  <1>. QED BY <1>2, <1>3

LEMMA StopKeeps ==
    ASSUME HistoryInv, Stop
    PROVE  HistoryInv'
  <1>. USE DEF HistoryInv, Stop
  <1>1. TablesTypeOK' /\ JobTypeOK'
    BY IdleIs DEF TablesTypeOK, JobTypeOK, Jobs
  <1>2. job'.step = "idle"
    BY IdleIs
  <1>3. ClockHolds'
    BY <1>2 DEF ClockHolds
  <1>4. now <= now' /\ daily \ daily' = {} /\ raw \ raw' = {}
    BY DEF TablesTypeOK
  <1>5. job'.step \notin Later /\ job'.step # "prune_hourly" /\ job'.step \notin Wiping
    BY <1>2 DEF Later, Wiping
  <1>. QED BY <1>1, <1>3, <1>4, <1>5, Shrinks

\* A check committed late still lies above every bucket and every cutoff.
LEMMA CommitKeeps ==
    ASSUME HistoryInv, NEW m \in Monitors, Commit(m)
    PROVE  HistoryInv'
  <1>. USE DEF HistoryInv
  <1>. DEFINE n == [id |-> m, t |-> pending[m]]
  <1>1. /\ raw' = raw \cup {n} /\ recorded' = recorded \cup {n}
        /\ pending' = [pending EXCEPT ![m] = None]
        /\ UNCHANGED <<now, config, hourly, daily, since, job, wiped, missing, reloads>>
    BY DEF Commit
  <1>2. n.t \in Nat /\ n.id \in Monitors /\ n \in Checks /\ now <= n.t + CommitDelay /\ now \in Nat
    BY DEF Commit, TablesTypeOK, ClockHolds, Checks
  <1>3. now - RollLag <= n.t /\ now - DailyAfter <= n.t
    <2>. HIDE DEF n
    <2>. QED BY <1>2, HistoryConstants
  <1>. HIDE DEF n
  <1>4. TablesTypeOK' /\ JobTypeOK'
    <2>1. IsFiniteSet(recorded')
      BY <1>1, FS_AddElement DEF TablesTypeOK
    <2>. QED BY <1>1, <1>2, <2>1 DEF TablesTypeOK, JobTypeOK
  <1>5. ClockHolds' /\ BucketsArePast'
    BY <1>1 DEF ClockHolds, BucketsArePast, TablesTypeOK
  <1>6. \A i, t : (Settled(i, t)' <=> Settled(i, t)) /\ (Summed(i, t)' <=> Summed(i, t))
    BY <1>1 DEF Settled, Summed, InHour, InDay
  <1>7. RowsAreRolled'
    <2>. USE DEF RowsAreRolled
    <2>1. \A b \in hourly : ~(n.t < b.at + Hour)
      <3>. SUFFICES ASSUME NEW b \in hourly PROVE ~(n.t < b.at + Hour)
        OBVIOUS
      <3>1. b.at \in Nat /\ b.at + Hour <= now - RollLag
        BY DEF BucketsArePast, TablesTypeOK, HourBuckets
      <3>. QED BY <3>1, <1>2, <1>3, HistoryConstants
    <2>2. \A b \in daily : ~(n.t < b.at + Day)
      <3>. SUFFICES ASSUME NEW b \in daily PROVE ~(n.t < b.at + Day)
        OBVIOUS
      <3>1. b.at \in Nat /\ b.at + Day <= now - DailyAfter
        BY DEF BucketsArePast, TablesTypeOK
      <3>. QED BY <3>1, <1>2, <1>3, HistoryConstants
    <2>3. \A c \in raw', b \in hourly' : c.t < b.at + Hour => Summed(c.id, c.t)'
      BY <1>1, <1>6, <2>1
    <2>4. \A c \in raw', b \in daily' : c.t < b.at + Day => Settled(c.id, c.t)'
      BY <1>1, <1>6, <2>2
    <2>5. \A h \in hourly', b \in daily' : h.at < b.at + Day => Settled(h.id, h.at)'
      BY <1>1, <1>6
    <2>. QED BY <2>3, <2>4, <2>5
  <1>8. TickHolds'
    <2>1. job.step \in Later => ~(n.t < HourOf(job.at - RollLag))
      <3>1. job.step \in Later => job.at <= now /\ job.at \in Nat
        BY DEF ClockHolds, Later, JobTypeOK
      <3>2. job.step \in Later => HourOf(job.at - RollLag) <= job.at - RollLag
                                 /\ HourOf(job.at - RollLag) \in Int
        BY <3>1, HourIs, HistoryConstants
      <3>. QED BY <3>1, <3>2, <1>2, <1>3, HistoryConstants
    <2>2. HourlyCutoff' = HourlyCutoff
      BY <1>1 DEF HourlyCutoff, DailyCutoff
    <2>. QED BY <1>1, <1>6, <2>1, <2>2 DEF TickHolds
  <1>9. NothingIsLost'
    <2>1. \A c \in recorded : c \in raw \/ Summed(c.id, c.t)
      BY DEF NothingIsLost, Summed, Settled, InHour, InDay
    <2>2. \A c \in recorded' : c \in raw' \/ Summed(c.id, c.t)'
      BY <1>1, <1>6, <2>1
    <2>. QED BY <2>2 DEF NothingIsLost, Summed, Settled, InHour, InDay
  <1>. QED BY <1>4, <1>5, <1>7, <1>8, <1>9

---------------------------------------------------------------------------
(* The statements that delete *)

\* A statement of the running tick: what it may do is what Shrinks allows.
LEMMA Deletes ==
    ASSUME HistoryInv, job' \in Jobs, job.step # "idle", job'.at = job.at,
           UNCHANGED <<rest, wiped>>, raw' \subseteq raw, daily' \subseteq daily,
           hourly' \subseteq HourBuckets,
           \A b \in hourly' : \E o \in hourly : o.id = b.id /\ o.at = b.at,
           \A b \in hourly : \/ Settled(b.id, b.at)
                             \/ \E o \in hourly' : o.id = b.id /\ o.at = b.at,
           \A b \in daily \ daily' : b.id \in wiped \/ b.at < now - Keep,
           \A c \in raw \ raw' : Summed(c.id, c.t),
           job'.step \in Later => job.step \in Later,
           job'.step = "prune_hourly" => job.step = "prune_hourly",
           job'.step \in Wiping => job'.victim \subseteq wiped
    PROVE  HistoryInv'
  <1>. USE DEF HistoryInv
  <1>1. TablesTypeOK' /\ JobTypeOK'
    BY DEF rest, TablesTypeOK, JobTypeOK, Jobs
  <1>2. ClockHolds'
    BY DEF rest, ClockHolds
  <1>3. now <= now' /\ recorded' = recorded
    BY DEF rest, TablesTypeOK
  <1>. QED BY <1>1, <1>2, <1>3, Shrinks

LEMMA FillHourKeeps ==
    ASSUME HistoryInv, FillHour
    PROVE  HistoryInv'
  <1>. DEFINE hour == Max(Unfilled)
              rows == Within(raw, hour, hour + Hour)
              new(b) == IF b.at = hour /\ b.hist = None
                          THEN [b EXCEPT !.hist = Cardinality(Of(rows, b.id))]
                          ELSE b
  <1>1. hourly' = {new(b) : b \in hourly} /\ job.step = "fill" /\ job' = job
    BY DEF FillHour
  <1>2. hourly \subseteq HourBuckets /\ IsFiniteSet(raw)
    BY FS_Subset DEF HistoryInv, TablesTypeOK
  <1>3. \A b \in hourly : new(b) \in HourBuckets /\ new(b).id = b.id /\ new(b).at = b.at
    <2>. SUFFICES ASSUME NEW b \in hourly
                  PROVE  new(b) \in HourBuckets /\ new(b).id = b.id /\ new(b).at = b.at
      OBVIOUS
    <2>. DEFINE n == Cardinality(Of(rows, b.id))
    <2>1. n \in Nat
      <3>1. Of(rows, b.id) \subseteq raw
        BY DEF Of, Within
      <3>. QED BY <3>1, <1>2, FS_Subset, FS_CardinalityType
    <2>2. b \in HourBuckets /\ (new(b) = b \/ new(b) = [b EXCEPT !.hist = n])
      BY <1>2
    <2>. HIDE DEF n, new
    <2>. QED BY <2>1, <2>2 DEF HourBuckets
  <1>. HIDE DEF new
  <1>4. /\ hourly' \subseteq HourBuckets
        /\ \A b \in hourly' : \E o \in hourly : o.id = b.id /\ o.at = b.at
        /\ \A b \in hourly : \E o \in hourly' : o.id = b.id /\ o.at = b.at
    BY <1>1, <1>3
  <1>5. job' \in Jobs
    BY <1>1, JobIs
  <1>6. raw' = raw /\ daily' = daily /\ UNCHANGED <<rest, wiped>>
    BY DEF FillHour
  <1>7. job'.step \notin Wiping /\ job.step # "idle" /\ job'.step # "prune_hourly"
    BY <1>1 DEF Wiping
  <1>. QED BY <1>1, <1>4, <1>5, <1>6, <1>7, Deletes

LEMMA PruneHourlySliceKeeps ==
    ASSUME HistoryInv, PruneHourlySlice
    PROVE  HistoryInv'
  <1>. DEFINE gone == Starting(hourly, Min(OldHours), SliceEnd(Min(OldHours), HourlyCutoff, Hour))
  <1>1. /\ job.step = "prune_hourly" /\ job' = job /\ hourly' = hourly \ gone
        /\ raw' = raw /\ daily' = daily /\ UNCHANGED <<rest, wiped>> /\ OldHours # {}
    BY DEF PruneHourlySlice
  <1>2. hourly \subseteq HourBuckets
    BY DEF HistoryInv, TablesTypeOK
  <1>3. HourlyCutoff \in Int /\ Min(OldHours) \in Nat /\ Hour \in Nat
    <2>1. OldHours \subseteq Nat
      BY <1>2 DEF OldHours, HourBuckets
    <2>2. job.at \in Nat
      BY JobIs DEF Jobs
    <2>3. Min(OldHours) \in Nat
      BY <1>1, <2>1, MinIsLeast
    <2>4. DailyCutoff \in Int
      BY <2>2, HistoryConstants DEF DailyCutoff
    <2>. QED BY <2>3, <2>4, DayIs, HistoryConstants DEF HourlyCutoff
  <1>4. \A b \in gone : b \in hourly /\ b.at < HourlyCutoff
    <2>. SUFFICES ASSUME NEW b \in gone PROVE b \in hourly /\ b.at < HourlyCutoff
      OBVIOUS
    <2>1. b \in hourly /\ b.at < SliceEnd(Min(OldHours), HourlyCutoff, Hour)
      BY DEF Starting
    <2>2. SliceEnd(Min(OldHours), HourlyCutoff, Hour) <= HourlyCutoff
          /\ SliceEnd(Min(OldHours), HourlyCutoff, Hour) \in Int
      BY <1>3 DEF SliceEnd, Lesser
    <2>3. b.at \in Nat
      BY <1>2, <2>1 DEF HourBuckets
    <2>. QED BY <1>3, <2>1, <2>2, <2>3
  <1>. HIDE DEF gone
  <1>5. \A b \in hourly : Settled(b.id, b.at) \/ \E o \in hourly' : o.id = b.id /\ o.at = b.at
    BY <1>1, <1>4 DEF HistoryInv, TickHolds
  <1>6. job' \in Jobs
    BY <1>1, JobIs
  <1>7. job'.step \notin Wiping /\ job.step # "idle"
    BY <1>1 DEF Wiping
  <1>. QED BY <1>1, <1>2, <1>5, <1>6, <1>7, Deletes

LEMMA PruneDailyKeeps ==
    ASSUME HistoryInv, PruneDaily
    PROVE  HistoryInv'
  <1>1. /\ job.step = "prune_daily" /\ daily' = {b \in daily : b.at >= job.at - Keep}
        /\ raw' = raw /\ hourly' = hourly /\ UNCHANGED <<rest, wiped>>
    BY DEF PruneDaily
  <1>2. job' \in Jobs /\ job'.step = "raw" /\ job'.at = job.at
    BY JobIs DEF PruneDaily, Jobs, Steps
  <1>3. \A b \in daily \ daily' : b.at < now - Keep
    <2>. SUFFICES ASSUME NEW b \in daily \ daily' PROVE b.at < now - Keep
      OBVIOUS
    <2>1. b.at \in Nat /\ ~(b.at >= job.at - Keep)
      BY <1>1 DEF HistoryInv, TablesTypeOK
    <2>2. job.at <= now /\ job.at \in Nat /\ now \in Nat
      BY <1>1, JobIs DEF HistoryInv, ClockHolds, Jobs
    <2>. QED BY <2>1, <2>2, HistoryConstants
  <1>4. hourly' \subseteq HourBuckets
    BY <1>1 DEF HistoryInv, TablesTypeOK
  <1>5. /\ job'.step \notin Wiping /\ job.step # "idle" /\ job.step \in Later
        /\ job'.step # "prune_hourly"
    BY <1>1, <1>2 DEF Wiping, Later
  <1>. QED BY <1>1, <1>2, <1>3, <1>4, <1>5, Deletes

\* The cutoff of a group leaves the hour before the roll-up's horizon alone.
LEMMA RawCutoffIsRolled ==
    ASSUME HistoryInv, job.left # {}
    PROVE  RawCutoff \in Int /\ RawCutoff <= HourOf(job.at - RollLag)
  <1>1. job.left \subseteq Monitors /\ job.at \in Nat
    BY JobIs DEF Jobs
  <1>2. (CHOOSE p \in job.left : TRUE) \in Group
    BY DEF Group
  <1>. DEFINE m == CHOOSE p \in Group : TRUE
  <1>3. m \in Monitors /\ RawCutoff = job.at - Retention[m]
    BY <1>1, <1>2 DEF Group, RawCutoff
  <1>. HIDE DEF m
  <1>4. Retention[m] \in Nat /\ Retention[m] >= Hour + RollLag
    BY <1>3, HistoryConstants
  <1>5. job.at - RollLag \in Int
    BY <1>1, HistoryConstants
  <1>6. HourOf(job.at - RollLag) \in Int /\ job.at - RollLag < HourOf(job.at - RollLag) + Hour
    BY <1>5, HourIs
  <1>. QED BY <1>1, <1>3, <1>4, <1>6, HistoryConstants

LEMMA PruneRawSliceKeeps ==
    ASSUME HistoryInv, PruneRawSlice
    PROVE  HistoryInv'
  <1>. DEFINE gone == Within(raw, Min(OldRows), SliceEnd(Min(OldRows), RawCutoff, PruneSlice))
  <1>1. /\ job.step = "raw" /\ job' = job /\ raw' = raw \ {c \in gone : c.id \in Group}
        /\ hourly' = hourly /\ daily' = daily /\ UNCHANGED <<rest, wiped>>
        /\ OldRows # {} /\ job.left # {}
    BY DEF PruneRawSlice
  <1>2. raw \subseteq Checks /\ job.at \in Nat
    BY JobIs DEF HistoryInv, TablesTypeOK, Jobs
  <1>3. Min(OldRows) \in Nat /\ PruneSlice \in Nat
    <2>1. OldRows \subseteq Nat
      BY <1>2 DEF OldRows, Checks
    <2>. QED BY <1>1, <2>1, MinIsLeast, HistoryConstants
  <1>4. RawCutoff \in Int /\ RawCutoff <= HourOf(job.at - RollLag)
    BY <1>1, RawCutoffIsRolled
  <1>5. HourOf(job.at - RollLag) \in Int
    BY <1>2, HourIs, HistoryConstants
  <1>6. \A c \in gone : c \in raw /\ c.t < HourOf(job.at - RollLag)
    <2>. SUFFICES ASSUME NEW c \in gone PROVE c \in raw /\ c.t < HourOf(job.at - RollLag)
      OBVIOUS
    <2>1. c \in raw /\ c.t < SliceEnd(Min(OldRows), RawCutoff, PruneSlice)
      BY DEF Within
    <2>2. SliceEnd(Min(OldRows), RawCutoff, PruneSlice) <= RawCutoff
          /\ SliceEnd(Min(OldRows), RawCutoff, PruneSlice) \in Int
      BY <1>3, <1>4 DEF SliceEnd, Lesser
    <2>3. c.t \in Nat
      BY <1>2, <2>1 DEF Checks
    <2>. QED BY <1>4, <1>5, <2>1, <2>2, <2>3
  <1>. HIDE DEF gone
  <1>7. \A c \in raw \ raw' : Summed(c.id, c.t)
    BY <1>1, <1>6 DEF HistoryInv, TickHolds, Later
  <1>8. job' \in Jobs /\ hourly' \subseteq HourBuckets
    BY <1>1, JobIs DEF HistoryInv, TablesTypeOK
  <1>9. /\ job'.step \notin Wiping /\ job.step # "idle" /\ job'.step # "prune_hourly"
        /\ raw' \subseteq raw
    BY <1>1 DEF Wiping
  <1>. QED BY <1>1, <1>7, <1>8, <1>9, Deletes

LEMMA WipeSliceKeeps ==
    ASSUME HistoryInv, NEW m \in Monitors, WipeSlice(m)
    PROVE  HistoryInv'
  <1>1. /\ job.step = "wipe_checks" /\ job.victim = {m} /\ job' = job
        /\ raw' \subseteq raw /\ \A c \in raw \ raw' : c.id = m
        /\ hourly' = hourly /\ daily' = daily /\ UNCHANGED <<rest, wiped>>
    BY DEF WipeSlice, Victim, Within, Of
  <1>2. m \in wiped /\ job.victim \subseteq wiped
    BY <1>1 DEF HistoryInv, TickHolds, Wiping
  <1>3. \A c \in raw \ raw' : Summed(c.id, c.t)
    BY <1>1, <1>2 DEF Summed, Settled
  <1>4. job' \in Jobs /\ hourly' \subseteq HourBuckets
    BY <1>1, JobIs DEF HistoryInv, TablesTypeOK
  <1>. QED BY <1>1, <1>2, <1>3, <1>4, Deletes

LEMMA WipeHourlyKeeps ==
    ASSUME HistoryInv, NEW m \in Monitors, WipeHourly(m)
    PROVE  HistoryInv'
  <1>1. /\ job.step = "wipe_hourly" /\ job.victim = {m}
        /\ hourly' \subseteq hourly /\ \A b \in hourly \ hourly' : b.id = m
        /\ raw' = raw /\ daily' = daily /\ UNCHANGED <<rest, wiped>>
    BY DEF WipeHourly, Victim, Of
  <1>2. m \in wiped /\ job.victim \subseteq wiped
    BY <1>1 DEF HistoryInv, TickHolds, Wiping
  <1>3. \A b \in hourly : Settled(b.id, b.at) \/ \E o \in hourly' : o.id = b.id /\ o.at = b.at
    BY <1>1, <1>2 DEF Settled
  <1>4. /\ job' \in Jobs /\ hourly' \subseteq HourBuckets
        /\ job'.step = "wipe_daily" /\ job'.at = job.at /\ job'.victim = job.victim
    BY <1>1, JobIs DEF HistoryInv, TablesTypeOK, WipeHourly, Jobs, Steps
  <1>5. job.step \in Later
    BY <1>1 DEF Later
  <1>. QED BY <1>1, <1>2, <1>3, <1>4, <1>5, Deletes

LEMMA WipeDailyKeeps ==
    ASSUME HistoryInv, NEW m \in Monitors, WipeDaily(m)
    PROVE  HistoryInv'
  <1>1. /\ job.step = "wipe_daily" /\ job.victim = {m}
        /\ daily' \subseteq daily /\ \A b \in daily \ daily' : b.id = m
        /\ raw' = raw /\ hourly' = hourly /\ UNCHANGED <<rest, wiped>>
    BY DEF WipeDaily, Victim, Of
  <1>2. m \in wiped /\ job.victim \subseteq wiped
    BY <1>1 DEF HistoryInv, TickHolds, Wiping
  <1>3. /\ job' \in Jobs /\ hourly' \subseteq HourBuckets
        /\ job'.step = "wipe_mark" /\ job'.at = job.at /\ job'.victim = job.victim
    BY <1>1, JobIs DEF HistoryInv, TablesTypeOK, WipeDaily, Jobs, Steps
  <1>4. job.step \in Later
    BY <1>1 DEF Later
  <1>. QED BY <1>1, <1>2, <1>3, <1>4, Deletes

---------------------------------------------------------------------------
(* The roll-ups *)

LEMMA InsertIs ==
    ASSUME NEW buckets, NEW new
    PROVE  /\ buckets \subseteq Insert(buckets, new)
           /\ \A b \in Insert(buckets, new) : b \in buckets \/ b \in new
           /\ \A b \in new : \E o \in Insert(buckets, new) : o.id = b.id /\ o.at = b.at
  BY DEF Insert

\* A roll-up goes on where the newest bucket ends.
LEMMA FloorIs ==
    ASSUME NEW n \in Nat, NEW w \in Nat, NEW buckets, \A b \in buckets : b.at \in 0..n
    PROVE  /\ Floor(buckets, w) \in Nat
           /\ \A t \in Nat : t < Floor(buckets, w) => \E b \in buckets : t < b.at + w
  <1>1. CASE buckets = {}
    BY <1>1 DEF Floor
  <1>2. CASE buckets # {}
    <2>. DEFINE S == {b.at : b \in buckets}
    <2>1. S \in SUBSET (0..n) /\ S # {} /\ Floor(buckets, w) = Max(S) + w
      BY <1>2 DEF Floor
    <2>2. Max(S) \in S
      <3>. HIDE DEF S
      <3>. QED BY <2>1, MaxIsGreatest
    <2>3. PICK b \in buckets : b.at = Max(S)
      BY <2>2
    <2>. HIDE DEF S
    <2>. QED BY <2>1, <2>3
  <1>. QED BY <1>1, <1>2

\* After the roll-up every row below its horizon is summed up.
LEMMA RollUpKeeps ==
    ASSUME HistoryInv, RollUp
    PROVE  HistoryInv'
  <1>. USE DEF HistoryInv
  <1>. DEFINE from == Floor(hourly, Hour)
              to == HourOf(job.at - RollLag)
              rows == Within(raw, from, to)
              bucket(c) == [id |-> c.id, at |-> HourOf(c.t), hist |-> None,
                            count |-> Cardinality({d \in Of(rows, c.id) :
                                                      HourOf(d.t) = HourOf(c.t)})]
  <1>1. /\ job.step = "roll" /\ hourly' = Insert(hourly, {bucket(c) : c \in rows})
        /\ raw' = raw /\ daily' = daily /\ UNCHANGED <<rest, wiped>>
    BY DEF RollUp
  <1>2. job' \in Jobs /\ job'.step = "fill" /\ job'.at = job.at
    BY JobIs, GotoIs DEF RollUp, Steps
  <1>3. \A c \in raw : c.id \in Monitors /\ c.t \in Nat
    BY DEF TablesTypeOK, Checks
  <1>4. /\ now \in Nat /\ job.at \in Nat /\ job.at <= now /\ to \in Int
        /\ to <= job.at - RollLag /\ HourOf(to) = to /\ job.at - RollLag \in Int
    <2>1. now \in Nat /\ job.at \in Nat /\ job.at <= now
      BY <1>1, JobIs DEF Jobs, ClockHolds
    <2>2. job.at - RollLag \in Int
      BY <2>1, HistoryConstants
    <2>. QED BY <2>1, <2>2, HourIs
  <1>5. from \in Nat /\ \A t \in Nat : t < from => \E b \in hourly : t < b.at + Hour
    <2>1. \A b \in hourly : b.at \in Nat /\ b.at + Hour <= now - RollLag
      BY DEF TablesTypeOK, HourBuckets, BucketsArePast
    <2>2. \A b \in hourly : b.at \in 0..now
      BY <2>1, <1>4, HistoryConstants
    <2>. QED BY <1>4, <2>2, FloorIs, HistoryConstants
  <1>6. \A c \in rows : c \in raw /\ from <= c.t /\ c.t < to
    BY DEF Within
  <1>7. \A c \in rows : bucket(c) \in HourBuckets /\ bucket(c).id = c.id /\ bucket(c).at = HourOf(c.t)
    <2>. SUFFICES ASSUME NEW c \in rows
                  PROVE  bucket(c) \in HourBuckets /\ bucket(c).id = c.id /\ bucket(c).at = HourOf(c.t)
      OBVIOUS
    <2>1. Cardinality({d \in Of(rows, c.id) : HourOf(d.t) = HourOf(c.t)}) \in Nat
      <3>1. {d \in Of(rows, c.id) : HourOf(d.t) = HourOf(c.t)} \subseteq raw /\ IsFiniteSet(raw)
        BY FS_Subset DEF Of, Within, TablesTypeOK
      <3>. QED BY <3>1, FS_Subset, FS_CardinalityType
    <2>2. c.id \in Monitors /\ HourOf(c.t) \in Nat
      BY <1>3, <1>6, HourIs
    <2>. QED BY <2>1, <2>2 DEF HourBuckets
  <1>. HIDE DEF bucket
  <1>8. /\ hourly \subseteq hourly'
        /\ \A b \in hourly' : b \in hourly \/ \E c \in rows : b = bucket(c)
        /\ \A c \in rows : \E o \in hourly' : o.id = c.id /\ o.at = HourOf(c.t)
    <2>. DEFINE new == {bucket(c) : c \in rows}
    <2>1. hourly' = Insert(hourly, new)
      BY <1>1
    <2>2. \A b \in new : \E c \in rows : b = bucket(c)
      OBVIOUS
    <2>3. \A c \in rows : bucket(c) \in new
      OBVIOUS
    <2>. HIDE DEF new
    <2>4. /\ hourly \subseteq hourly'
          /\ \A b \in hourly' : b \in hourly \/ b \in new
          /\ \A b \in new : \E o \in hourly' : o.id = b.id /\ o.at = b.at
      BY <2>1, InsertIs
    <2>5. \A c \in rows : \E o \in hourly' : o.id = c.id /\ o.at = HourOf(c.t)
      <3>. SUFFICES ASSUME NEW c \in rows
                    PROVE  \E o \in hourly' : o.id = c.id /\ o.at = HourOf(c.t)
        OBVIOUS
      <3>1. bucket(c) \in new /\ bucket(c).id = c.id /\ bucket(c).at = HourOf(c.t)
        BY <2>3, <1>7
      <3>. QED BY <3>1, <2>4
    <2>. QED BY <2>2, <2>4, <2>5
  <1>. HIDE DEF from, to, rows
  <1>9. \A i, t : /\ Settled(i, t)' <=> Settled(i, t)
                  /\ Summed(i, t) => Summed(i, t)'
    BY <1>1, <1>8 DEF Settled, Summed, InHour, InDay, rest
  <1>10. \A c \in raw : c.t < to => Summed(c.id, c.t)'
    <2>. SUFFICES ASSUME NEW c \in raw, c.t < to PROVE Summed(c.id, c.t)'
      OBVIOUS
    <2>1. CASE c.t < from
      BY <2>1, <1>3, <1>5, <1>9 DEF RowsAreRolled
    <2>2. CASE from <= c.t
      <3>1. c \in rows
        BY <2>2 DEF rows, Within
      <3>. QED BY <3>1, <1>8 DEF Summed, InHour
    <2>. QED BY <2>1, <2>2, <1>3, <1>5
  <1>11. \A b \in hourly' :
            /\ b.at \in Nat /\ b.at = HourOf(b.at) /\ b.at + Hour <= now - RollLag
            /\ b \in hourly \/ b.at + Hour <= to
    <2>. SUFFICES ASSUME NEW b \in hourly'
                  PROVE  /\ b.at \in Nat /\ b.at = HourOf(b.at) /\ b.at + Hour <= now - RollLag
                         /\ b \in hourly \/ b.at + Hour <= to
      OBVIOUS
    <2>1. CASE b \in hourly
      BY <2>1 DEF BucketsArePast, TablesTypeOK, HourBuckets
    <2>2. ASSUME NEW c \in rows, b = bucket(c)
          PROVE  b.at \in Nat /\ b.at = HourOf(b.at) /\ b.at + Hour <= to
      <3>1. c \in raw /\ c.t \in Nat /\ c.t < to /\ b.at = HourOf(c.t)
        BY <1>3, <1>6, <1>7, <2>2
      <3>2. HourOf(c.t) \in Nat /\ HourOf(HourOf(c.t)) = HourOf(c.t)
        BY <3>1, HourIs
      <3>3. HourOf(c.t) + Hour <= HourOf(to)
        BY <3>1, <1>4, InOrder
      <3>. QED BY <3>1, <3>2, <3>3, <1>4
    <2>3. b.at + Hour <= to /\ b.at \in Nat => b.at + Hour <= now - RollLag
      BY <1>4, HistoryConstants
    <2>. QED BY <2>1, <2>2, <2>3, <1>8
  <1>12. TablesTypeOK' /\ JobTypeOK' /\ ClockHolds'
    <2>1. hourly' \subseteq HourBuckets
      BY <1>7, <1>8 DEF TablesTypeOK
    <2>2. TablesTypeOK' /\ JobTypeOK'
      BY <1>1, <1>2, <2>1 DEF rest, TablesTypeOK, JobTypeOK, Jobs
    <2>. QED BY <1>1, <1>2, <2>2, <1>4 DEF ClockHolds, rest
  <1>13. BucketsArePast'
    BY <1>1, <1>11 DEF BucketsArePast, rest
  <1>14. RowsAreRolled'
    <2>. USE DEF RowsAreRolled
    <2>1. ASSUME NEW c \in raw', NEW b \in hourly', c.t < b.at + Hour
          PROVE  Summed(c.id, c.t)'
      <3>1. c \in raw /\ c.t \in Nat /\ b.at \in Nat
        BY <1>1, <1>3, <1>11
      <3>2. CASE b \in hourly
        BY <3>1, <3>2, <2>1, <1>9
      <3>3. CASE b.at + Hour <= to
        <4>1. c.t < to
          BY <3>1, <3>3, <2>1, <1>4, HistoryConstants
        <4>. QED BY <3>1, <4>1, <1>10
      <3>. QED BY <3>2, <3>3, <1>11
    <2>2. \A c \in raw', b \in daily' : c.t < b.at + Day => Settled(c.id, c.t)'
      BY <1>1, <1>9
    <2>3. ASSUME NEW h \in hourly', NEW b \in daily', h.at < b.at + Day
          PROVE  Settled(h.id, h.at)
      <3>1. CASE h \in hourly
        BY <3>1, <2>3, <1>1
      <3>2. ASSUME NEW c \in rows, h = bucket(c)
            PROVE  Settled(h.id, h.at)
        <4>1. c \in raw /\ c.t \in Nat /\ h.id = c.id /\ h.at = HourOf(c.t)
          BY <1>3, <1>6, <1>7, <3>2
        <4>2. b \in daily /\ b.at \in Nat /\ b.at = DayOf(b.at)
          BY <1>1 DEF TablesTypeOK, BucketsArePast
        <4>3. b.at + Day \in Int /\ HourOf(b.at + Day) = b.at + Day
          BY <4>2, DayIs, HistoryConstants
        <4>4. c.t < b.at + Day
          <5>1. b.at + Day <= c.t => HourOf(b.at + Day) <= HourOf(c.t)
            BY <4>1, <4>3, InOrder
          <5>2. HourOf(c.t) \in Int
            BY <4>1, HourIs
          <5>. QED BY <5>1, <5>2, <4>1, <4>3, <2>3
        <4>5. Settled(c.id, c.t)
          BY <4>1, <4>2, <4>4
        <4>. QED BY <4>1, <4>5, HourIs DEF Settled, InDay
      <3>. QED BY <3>1, <3>2, <1>8
    <2>. QED BY <2>1, <2>2, <2>3, <1>9
  <1>15. TickHolds'
    <2>1. \A c \in raw' : c.t < HourOf(job'.at - RollLag) => Summed(c.id, c.t)'
      BY <1>1, <1>2, <1>10 DEF to
    <2>. QED BY <1>2, <2>1 DEF TickHolds, Wiping
  <1>16. NothingIsLost'
    <2>1. \A c \in recorded : c \in raw \/ Summed(c.id, c.t)
      BY DEF NothingIsLost, Summed, Settled, InHour, InDay
    <2>2. \A c \in recorded' : c \in raw' \/ Summed(c.id, c.t)'
      BY <1>1, <1>9, <2>1 DEF rest
    <2>. QED BY <2>2 DEF NothingIsLost, Summed, Settled, InHour, InDay
  <1>. QED BY <1>12, <1>13, <1>14, <1>15, <1>16

\* After the daily roll-up every hour of a whole day below its cutoff is
\* summed up, and with it every row of that day.
LEMMA RollDaysKeeps ==
    ASSUME HistoryInv, RollDays
    PROVE  HistoryInv'
  <1>. USE DEF HistoryInv
  <1>. DEFINE from == Floor(daily, Day)
              to == DailyCutoff
              old == {b \in Starting(hourly, from, to) : DayOf(b.at) + Day <= to}
              bucket(b) == [id |-> b.id, at |-> DayOf(b.at),
                            count |-> Counted({h \in Of(old, b.id) :
                                                 DayOf(h.at) = DayOf(b.at)})]
              new == {bucket(b) : b \in old}
  <1>1. /\ job.step = "daily" /\ daily' = Insert(daily, new)
        /\ raw' = raw /\ hourly' = hourly /\ UNCHANGED <<rest, wiped>>
    BY DEF RollDays
  <1>2. job' \in Jobs /\ job'.step = "prune_hourly" /\ job'.at = job.at
    BY JobIs, GotoIs DEF RollDays, Steps
  <1>3. /\ now \in Nat /\ job.at \in Nat /\ job.at <= now /\ to \in Int
        /\ to = job.at - DailyAfter
    <2>1. now \in Nat /\ job.at \in Nat /\ job.at <= now
      BY <1>1, JobIs DEF Jobs, ClockHolds
    <2>. QED BY <2>1, HistoryConstants DEF DailyCutoff
  <1>4. from \in Nat /\ \A t \in Nat : t < from => \E b \in daily : t < b.at + Day
    <2>1. \A b \in daily : b.at \in Nat /\ b.at + Day <= now - DailyAfter
      BY DEF TablesTypeOK, BucketsArePast
    <2>2. \A b \in daily : b.at \in 0..now
      BY <2>1, <1>3, HistoryConstants
    <2>. QED BY <1>3, <2>2, FloorIs, HistoryConstants
  <1>5. \A h \in hourly : h.id \in Monitors /\ h.at \in Nat /\ HourOf(h.at) = h.at
    BY DEF TablesTypeOK, HourBuckets, BucketsArePast
  <1>6. \A b \in old : b \in hourly /\ DayOf(b.at) + Day <= to
    BY DEF Starting
  <1>7. \A h \in hourly : from <= h.at /\ DayOf(h.at) + Day <= to => h \in old
    <2>. SUFFICES ASSUME NEW h \in hourly, from <= h.at, DayOf(h.at) + Day <= to
                  PROVE  h \in old
      OBVIOUS
    <2>1. h.at < to
      <3>1. h.at < DayOf(h.at) + Day /\ DayOf(h.at) \in Int /\ h.at \in Nat
        BY <1>5, DayIs
      <3>. QED BY <3>1, <1>3, HistoryConstants
    <2>. QED BY <2>1 DEF Starting
  <1>. HIDE DEF old
  <1>8. \A b \in old : bucket(b).id = b.id /\ bucket(b).at = DayOf(b.at)
    OBVIOUS
  <1>. HIDE DEF bucket
  <1>9. /\ \A b \in old : bucket(b) \in new
        /\ \A d \in new : \E b \in old : d.id = b.id /\ d.at = DayOf(b.at)
    BY <1>8
  <1>. HIDE DEF new
  <1>10. /\ daily \subseteq daily'
         /\ \A d \in daily' : d \in daily \/ d \in new
         /\ \A d \in new : \E o \in daily' : o.id = d.id /\ o.at = d.at
    BY <1>1, InsertIs
  <1>11. \A b \in old : \E o \in daily' : o.id = b.id /\ o.at = DayOf(b.at)
    <2>. SUFFICES ASSUME NEW b \in old
                  PROVE  \E o \in daily' : o.id = b.id /\ o.at = DayOf(b.at)
      OBVIOUS
    <2>1. bucket(b) \in new /\ bucket(b).id = b.id /\ bucket(b).at = DayOf(b.at)
      BY <1>8, <1>9
    <2>. QED BY <2>1, <1>10
  <1>. HIDE DEF from, to
  <1>12. \A i, t : /\ Settled(i, t) => Settled(i, t)'
                   /\ Summed(i, t) => Summed(i, t)'
    BY <1>1, <1>10 DEF Settled, Summed, InHour, InDay, rest
  <1>13. \A h \in hourly : h.at < DayOf(to) => Settled(h.id, h.at)'
    <2>. SUFFICES ASSUME NEW h \in hourly, h.at < DayOf(to) PROVE Settled(h.id, h.at)'
      OBVIOUS
    <2>1. CASE h.at < from
      <3>1. Settled(h.id, h.at)
        BY <2>1, <1>4, <1>5 DEF RowsAreRolled
      <3>. QED BY <3>1, <1>12
    <2>2. CASE from <= h.at
      <3>1. DayOf(h.at) + Day <= to
        <4>1. DayOf(h.at) + Day <= DayOf(to) /\ DayOf(to) <= to
          BY <1>3, <1>5, InOrder, DayIs
        <4>2. DayOf(h.at) \in Int /\ DayOf(to) \in Int
          BY <1>3, <1>5, DayIs
        <4>. QED BY <4>1, <4>2, <1>3, HistoryConstants
      <3>2. h \in old
        BY <2>2, <3>1, <1>7
      <3>. QED BY <3>2, <1>11 DEF Settled, InDay
    <2>. QED BY <2>1, <2>2, <1>4, <1>5
  <1>14. \A d \in daily' :
            /\ d.id \in Monitors /\ d.at \in Nat
            /\ d.at = DayOf(d.at) /\ d.at + Day <= now - DailyAfter
            /\ d \in daily \/ (d.at + Day <= DayOf(to) /\ HourOf(d.at + Day) = d.at + Day)
    <2>. SUFFICES ASSUME NEW d \in daily'
                  PROVE  /\ d.id \in Monitors /\ d.at \in Nat
                         /\ d.at = DayOf(d.at) /\ d.at + Day <= now - DailyAfter
                         /\ d \in daily \/ (d.at + Day <= DayOf(to)
                                               /\ HourOf(d.at + Day) = d.at + Day)
      OBVIOUS
    <2>1. CASE d \in daily
      BY <2>1 DEF BucketsArePast, TablesTypeOK
    <2>2. CASE d \in new
      <3>1. PICK b \in old : d.id = b.id /\ d.at = DayOf(b.at)
        BY <2>2, <1>9
      <3>2. b.id \in Monitors /\ b.at \in Nat /\ DayOf(b.at) + Day <= to
        BY <1>5, <1>6
      <3>3. /\ DayOf(b.at) \in Nat /\ DayOf(DayOf(b.at)) = DayOf(b.at)
            /\ HourOf(DayOf(b.at) + Day) = DayOf(b.at) + Day
            /\ DayOf(DayOf(b.at) + Day) = DayOf(b.at) + Day
        BY <3>2, DayIs
      <3>4. DayOf(b.at) + Day <= DayOf(to)
        <4>1. DayOf(b.at) + Day \in Int
          BY <3>3, HistoryConstants
        <4>2. DayOf(DayOf(b.at) + Day) <= DayOf(to)
          BY <4>1, <3>2, <1>3, InOrder
        <4>. QED BY <4>2, <3>3
      <3>5. d.at + Day <= now - DailyAfter
        BY <3>1, <3>2, <3>3, <1>3, HistoryConstants
      <3>. QED BY <3>1, <3>2, <3>3, <3>4, <3>5
    <2>. QED BY <2>1, <2>2, <1>10
  <1>15. TablesTypeOK' /\ JobTypeOK' /\ ClockHolds'
    <2>1. TablesTypeOK' /\ JobTypeOK'
      BY <1>1, <1>2, <1>14 DEF rest, TablesTypeOK, JobTypeOK, Jobs
    <2>. QED BY <1>1, <1>2, <2>1, <1>3 DEF ClockHolds, rest
  <1>16. BucketsArePast'
    BY <1>1, <1>14 DEF BucketsArePast, rest
  <1>17. DayOf(to) \in Int /\ DayOf(to) <= to /\ to <= job.at - RollLag /\ job.at - RollLag \in Int
    BY <1>3, DayIs, HistoryConstants
  <1>18. RowsAreRolled'
    <2>. USE DEF RowsAreRolled
    <2>1. \A c \in raw', b \in hourly' : c.t < b.at + Hour => Summed(c.id, c.t)'
      BY <1>1, <1>12
    <2>2. ASSUME NEW h \in hourly', NEW b \in daily', h.at < b.at + Day
          PROVE  Settled(h.id, h.at)'
      <3>1. CASE b \in daily
        BY <3>1, <2>2, <1>1, <1>12
      <3>2. CASE b.at + Day <= DayOf(to)
        <4>1. h.at < DayOf(to)
          BY <3>2, <2>2, <1>1, <1>5, <1>14, <1>17, HistoryConstants
        <4>. QED BY <4>1, <1>1, <1>13
      <3>. QED BY <3>1, <3>2, <1>14
    <2>3. ASSUME NEW c \in raw', NEW b \in daily', c.t < b.at + Day
          PROVE  Settled(c.id, c.t)'
      <3>1. c \in raw /\ c.id \in Monitors /\ c.t \in Nat /\ b.at \in Nat
        BY <1>1, <1>14 DEF TablesTypeOK, Checks
      <3>2. CASE b \in daily
        BY <3>1, <3>2, <2>3, <1>12
      <3>3. CASE b.at + Day <= DayOf(to) /\ HourOf(b.at + Day) = b.at + Day
        <4>1. b.at + Day <= HourOf(job.at - RollLag)
          <5>1. b.at + Day \in Int /\ b.at + Day <= job.at - RollLag
            BY <3>1, <3>3, <1>17, <1>3, HistoryConstants
          <5>. QED BY <5>1, <3>3, <1>17, InOrder
        <4>2. c.t < HourOf(job.at - RollLag)
          <5>1. HourOf(job.at - RollLag) \in Int
            BY <1>17, HourIs
          <5>. QED BY <5>1, <4>1, <2>3, <3>1, HistoryConstants
        <4>3. Summed(c.id, c.t)
          BY <1>1, <3>1, <4>2 DEF TickHolds, Later
        <4>4. CASE InHour(c.id, c.t)
          <5>1. PICK h \in hourly : h.id = c.id /\ h.at = HourOf(c.t)
            BY <4>4 DEF InHour
          <5>2. HourOf(c.t) <= c.t /\ DayOf(HourOf(c.t)) = DayOf(c.t) /\ HourOf(c.t) \in Int
            BY <3>1, HourIs
          <5>3. h.at < b.at + Day
            BY <5>1, <5>2, <2>3, <3>1, HistoryConstants
          <5>4. Settled(h.id, h.at)'
            BY <5>3, <2>2, <1>1
          <5>. QED BY <5>1, <5>2, <5>4 DEF Settled, InDay
        <4>. QED BY <4>3, <4>4, <1>12 DEF Summed
      <3>. QED BY <3>2, <3>3, <1>14
    <2>. QED BY <2>1, <2>2, <2>3
  <1>19. TickHolds'
    <2>1. \A c \in raw' : c.t < HourOf(job'.at - RollLag) => Summed(c.id, c.t)'
      BY <1>1, <1>2, <1>12 DEF TickHolds, Later
    <2>2. HourlyCutoff' = DayOf(to)
      BY <1>2 DEF HourlyCutoff, DailyCutoff, to
    <2>. QED BY <1>1, <1>2, <2>1, <2>2, <1>13 DEF TickHolds, Wiping
  <1>20. NothingIsLost'
    <2>1. \A c \in recorded : c \in raw \/ Summed(c.id, c.t)
      BY DEF NothingIsLost, Summed, Settled, InHour, InDay
    <2>2. \A c \in recorded' : c \in raw' \/ Summed(c.id, c.t)'
      BY <1>1, <1>12, <2>1 DEF rest
    <2>. QED BY <2>2 DEF NothingIsLost, Summed, Settled, InHour, InDay
  <1>. QED BY <1>15, <1>16, <1>18, <1>19, <1>20

---------------------------------------------------------------------------
(* The theorems *)

\* No roll-up that the prunes of its tick rely on fails.
PrunesFollowRollUps == [][~(Fails /\ ReliedOn)]_history

LEMMA HistoryStutters ==
    ASSUME HistoryInv, UNCHANGED history
    PROVE  HistoryInv'
  BY DEF history, HistoryInv, TablesTypeOK, JobTypeOK, ClockHolds, BucketsArePast, RowsAreRolled,
         TickHolds, NothingIsLost, Settled, Summed, InHour, InDay, HourlyCutoff, DailyCutoff

\* Whatever commits late, is pruned, reloaded or interrupted, and whichever
\* other statements fail: what the tables hold stays within the invariant.
THEOREM HistoryInvariant == HistorySpec /\ PrunesFollowRollUps => []HistoryInv
  <1>1. ASSUME HistoryInv, [HistoryNext]_history, [~(Fails /\ ReliedOn)]_history
        PROVE  HistoryInv'
    <2>1. CASE UNCHANGED history
      BY <2>1, <1>1, HistoryStutters
    <2>2. CASE HistoryNext /\ ~(Fails /\ ReliedOn)
      <3>1. CASE Tick
        BY <3>1, <1>1, TickKeeps
      <3>2. CASE \E ids \in SUBSET Monitors : Reload(ids)
        BY <3>2, <1>1, ReloadKeeps
      <3>3. CASE \E m \in Monitors : Stamp(m) \/ InsertFails(m)
        BY <3>3, <1>1, DaemonKeeps
      <3>4. CASE \E m \in Monitors : Commit(m)
        BY <3>4, <1>1, CommitKeeps
      <3>5. CASE Stop
        BY <3>5, <1>1, StopKeeps
      <3>6. CASE \E kind \in {"prune", "rollup"} : Begin(kind)
        BY <3>6, <1>1, BeginKeeps
      <3>7. CASE RollUp \/ FillHour \/ FillEnds \/ RollDays
        BY <3>7, <1>1, RollUpKeeps, FillHourKeeps, FillEndsKeeps, RollDaysKeeps
      <3>8. CASE RunOut \/ PruneHourlySlice \/ PruneHourlyEnds \/ PruneDaily
        BY <3>8, <1>1, RunOutKeeps, PruneHourlySliceKeeps, PruneHourlyEndsKeeps, PruneDailyKeeps
      <3>9. CASE PruneRawSlice \/ PruneRawEnds \/ Sweep \/ MarksRead
        BY <3>9, <1>1, PruneRawSliceKeeps, PruneRawEndsKeeps, SweepKeeps, MarksReadKeeps
      <3>10. CASE Fails
        BY <3>10, <2>2, <1>1, FailsKeeps
      <3>11. CASE \E m \in Monitors : DropMark(m) \/ Mark(m) \/ Expire(m)
        BY <3>11, <1>1, DropMarkKeeps, MarkKeeps, ExpireKeeps
      <3>12. CASE \E m \in Monitors :
                     WipeSlice(m) \/ WipeSlicesEnd(m) \/ WipeHourly(m) \/ WipeDaily(m) \/ WipeMark(m)
        BY <3>12, <1>1, WipeSliceKeeps, WipeSlicesEndKeeps, WipeHourlyKeeps, WipeDailyKeeps,
           WipeMarkKeeps
      <3>. QED BY <2>2, <3>1, <3>2, <3>3, <3>4, <3>5, <3>6, <3>7, <3>8, <3>9, <3>10, <3>11, <3>12
               DEF HistoryNext, HistoryStep, Maintain
    <2>. QED BY <2>1, <2>2, <1>1
  <1>. QED BY <1>1, HistoryInvInit, PTL DEF HistorySpec, PrunesFollowRollUps

\* A committed check is in the raw rows, in the bucket of its hour or in the
\* bucket of its day until it is a year old or its monitor is swept away
\* (retention.rs: "downsample before any deletion").
THEOREM ChecksAreKept == HistorySpec /\ PrunesFollowRollUps => []NothingIsLost
  <1>1. HistoryInv => NothingIsLost
    BY DEF HistoryInv
  <1>. QED BY <1>1, HistoryInvariant, PTL

---------------------------------------------------------------------------
(* The sweep of removed monitors *)

MarksTypeOK ==
    /\ now \in Nat /\ config \subseteq Monitors
    /\ since \in [Monitors -> Nat \cup {None}]
    /\ missing \in [Monitors -> Nat \cup {None}]
    /\ job \in Jobs

\* A mark is no older than the first of the sweeps in a row that found its
\* id missing, the one under way at the latest.
MarksAreEarned ==
    \A m \in Monitors :
        /\ since[m] # None => missing[m] # None /\ missing[m] <= since[m]
        /\ missing[m] # None => missing[m] <= now
        /\ missing[m] # None /\ job.step # "idle" => missing[m] <= job.at

\* The ids a sweep works through are not configured, and this sweep and every
\* one since their mark found them missing.
SweepHolds ==
    /\ job.step # "idle" => job.at <= now
    /\ job.step \in {"marks", "orphans"} \cup Wiping => Orphans \subseteq Monitors \ job.conf
    /\ job.step \in {"orphans"} \cup Wiping =>
           \A m \in job.left : m \notin job.conf /\ missing[m] # None

SweepInv == MarksTypeOK /\ MarksAreEarned /\ SweepHolds

Sweeping == {"marks", "orphans"} \cup Wiping

LEMMA SweepInit == HistoryInit => SweepInv
  BY IdleIs DEF HistoryInit, SweepInv, MarksTypeOK, MarksAreEarned, SweepHolds, Idle, Wiping

\* The tick ends, begins, is not yet at the sweep or goes on with it.
LEMMA SweepsOn ==
    ASSUME SweepInv, MarksTypeOK', UNCHANGED <<since, missing>>, now <= now',
           \/ job'.step = "idle"
           \/ job'.step = "roll" /\ job'.at = now
           \/ job.step # "idle" /\ job'.at = job.at /\ job'.step \notin Sweeping
           \/ /\ job'.at = job.at /\ job'.conf = job.conf /\ job'.left = job.left
              /\ job'.found = job.found /\ job.step # "idle"
              /\ (job'.step = job.step \/ (job'.step \in Wiping /\ job.step \in Wiping \cup {"orphans"}))
    PROVE  SweepInv'
  <1>. USE DEF SweepInv, Sweeping
  <1>1. now \in Nat /\ now' \in Nat /\ job.at \in Nat /\ job'.at \in Nat
    BY DEF MarksTypeOK, Jobs
  <1>2. /\ since' = since /\ missing' = missing
        /\ \A m \in Monitors : missing[m] # None => missing[m] \in Nat
    BY DEF MarksTypeOK
  <1>3. job.step # "idle" => job.at <= now
    BY DEF SweepHolds
  <1>4. MarksAreEarned'
    BY <1>1, <1>2, <1>3 DEF MarksAreEarned, Wiping
  <1>5. SweepHolds'
    BY <1>1, <1>2, <1>3 DEF SweepHolds, Wiping, Orphans
  <1>. QED BY <1>4, <1>5

LEMMA MarksJob ==
    ASSUME SweepInv
    PROVE  job \in Jobs /\ now \in Nat
  BY DEF SweepInv, MarksTypeOK

LEMMA SweepDaemon ==
    ASSUME SweepInv,
           \/ Tick \/ \E ids \in SUBSET Monitors : Reload(ids)
           \/ \E m \in Monitors : Stamp(m) \/ Commit(m) \/ InsertFails(m)
    PROVE  SweepInv'
  <1>1. /\ UNCHANGED <<since, missing, job>> /\ (now' = now \/ now' = now + 1)
        /\ (config' = config \/ config' \in SUBSET Monitors)
    BY DEF Tick, Reload, Stamp, Commit, InsertFails
  <1>2. MarksTypeOK' /\ now <= now'
    BY <1>1 DEF SweepInv, MarksTypeOK
  <1>. QED BY <1>1, <1>2, SweepsOn

LEMMA SweepStop ==
    ASSUME SweepInv, Stop
    PROVE  SweepInv'
  <1>1. UNCHANGED <<since, missing, now, config>> /\ job' = Idle
    BY DEF Stop
  <1>2. MarksTypeOK' /\ now <= now' /\ job'.step = "idle"
    BY <1>1, IdleIs DEF SweepInv, MarksTypeOK
  <1>. QED BY <1>1, <1>2, SweepsOn

\* What the task does before it sweeps.
LEMMA SweepBefore ==
    ASSUME SweepInv, UNCHANGED <<rest, since, missing>>, job' \in Jobs,
           \/ job'.step = "idle"
           \/ job'.step = "roll" /\ job'.at = now
           \/ job.step # "idle" /\ job'.at = job.at /\ job'.step \notin Sweeping
    PROVE  SweepInv'
  <1>1. MarksTypeOK' /\ now <= now'
    BY DEF SweepInv, MarksTypeOK, rest
  <1>. QED BY <1>1, SweepsOn

LEMMA SweepTask ==
    ASSUME SweepInv,
           \/ \E kind \in {"prune", "rollup"} : Begin(kind)
           \/ RollUp \/ FillHour \/ FillEnds \/ RollDays
           \/ PruneHourlySlice \/ PruneHourlyEnds \/ PruneDaily \/ PruneRawSlice \/ PruneRawEnds
    PROVE  SweepInv'
  <1>. USE MarksJob
  <1>1. ASSUME NEW kind \in {"prune", "rollup"}, Begin(kind)
        PROVE  SweepInv'
    <2>1. config \subseteq Monitors
      BY DEF SweepInv, MarksTypeOK
    <2>2. job' \in Jobs /\ job'.step = "roll" /\ job'.at = now
      BY <1>1, <2>1 DEF Begin, Idle, Jobs, Steps
    <2>. QED BY <1>1, <2>2, SweepBefore DEF Begin
  <1>2. CASE RollUp
    <2>1. job' \in Jobs /\ job'.step = "fill" /\ job'.at = job.at /\ job.step = "roll"
      BY <1>2, GotoIs DEF RollUp, Steps
    <2>. QED BY <1>2, <2>1, SweepBefore DEF RollUp, Sweeping, Wiping
  <1>3. CASE FillHour
    BY <1>3, SweepBefore DEF FillHour, Sweeping, Wiping
  <1>4. CASE FillEnds
    <2>1. job.step = "fill" /\ (job' = Idle \/ Goto("daily"))
      BY <1>4 DEF FillEnds, RolledUp
    <2>2. job' \in Jobs /\ (job'.step = "idle" \/ (job'.step = "daily" /\ job'.at = job.at))
      <3>1. CASE job' = Idle
        BY <3>1, IdleIs
      <3>2. CASE Goto("daily")
        BY <3>2, GotoIs DEF Steps
      <3>. QED BY <2>1, <3>1, <3>2
    <2>. QED BY <1>4, <2>1, <2>2, SweepBefore DEF FillEnds, Sweeping, Wiping
  <1>5. CASE RollDays
    <2>1. job' \in Jobs /\ job'.step = "prune_hourly" /\ job'.at = job.at /\ job.step = "daily"
      BY <1>5, GotoIs DEF RollDays, Steps
    <2>. QED BY <1>5, <2>1, SweepBefore DEF RollDays, Sweeping, Wiping
  <1>6. CASE PruneHourlySlice
    BY <1>6, SweepBefore DEF PruneHourlySlice, Sweeping, Wiping
  <1>7. CASE PruneHourlyEnds
    <2>1. job' \in Jobs /\ job'.step = "prune_daily" /\ job'.at = job.at /\ job.step = "prune_hourly"
      BY <1>7, GotoIs DEF PruneHourlyEnds, Steps
    <2>. QED BY <1>7, <2>1, SweepBefore DEF PruneHourlyEnds, Sweeping, Wiping
  <1>8. CASE PruneDaily
    <2>1. job' \in Jobs /\ job'.step = "raw" /\ job'.at = job.at /\ job.step = "prune_daily"
      BY <1>8 DEF PruneDaily, Jobs, Steps
    <2>. QED BY <1>8, <2>1, SweepBefore DEF PruneDaily, Sweeping, Wiping
  <1>9. CASE PruneRawSlice
    BY <1>9, SweepBefore DEF PruneRawSlice, Sweeping, Wiping
  <1>10. CASE PruneRawEnds
    <2>1. job' \in Jobs /\ job'.step = "raw" /\ job'.at = job.at /\ job.step = "raw"
      BY <1>10 DEF PruneRawEnds, Jobs
    <2>. QED BY <1>10, <2>1, SweepBefore DEF PruneRawEnds, Sweeping, Wiping
  <1>. QED BY <1>1, <1>2, <1>3, <1>4, <1>5, <1>6, <1>7, <1>8, <1>9, <1>10

LEMMA SweepFails ==
    ASSUME SweepInv, Fails
    PROVE  SweepInv'
  <1>1. UNCHANGED <<rest, since, missing>> /\ job \in Jobs
    BY MarksJob DEF Fails
  <1>2. \/ job' = Idle
        \/ job.step = "fill" /\ Goto("daily")
        \/ job.step = "roll" /\ Goto("daily")
        \/ job.step = "daily" /\ Goto("prune_hourly")
        \/ job.step = "prune_hourly" /\ Goto("prune_daily")
        \/ job.step = "prune_daily" /\ job' = [job EXCEPT !.step = "raw", !.left = job.conf]
    BY DEF Fails, RolledUp
  <1>3. CASE job' = Idle
    BY <1>1, <1>3, IdleIs, SweepBefore
  <1>4. ASSUME NEW s \in {"daily", "prune_hourly", "prune_daily"}, job.step # "idle", Goto(s)
        PROVE  SweepInv'
    <2>1. job' \in Jobs /\ job'.step = s /\ job'.at = job.at
      BY <1>1, <1>4, GotoIs DEF Steps
    <2>2. s \notin Sweeping
      BY DEF Sweeping, Wiping
    <2>. QED BY <1>1, <1>4, <2>1, <2>2, SweepBefore
  <1>5. CASE job.step = "prune_daily" /\ job' = [job EXCEPT !.step = "raw", !.left = job.conf]
    <2>1. job' \in Jobs /\ job'.step = "raw" /\ job'.at = job.at
      BY <1>1, <1>5 DEF Jobs, Steps
    <2>2. "raw" \notin Sweeping
      BY DEF Sweeping, Wiping
    <2>. QED BY <1>1, <1>5, <2>1, <2>2, SweepBefore
  <1>. QED BY <1>2, <1>3, <1>4, <1>5

LEMMA SweepReads ==
    ASSUME SweepInv, Sweep
    PROVE  SweepInv'
  <1>1. /\ UNCHANGED <<rest, since, missing>> /\ job.step = "raw" /\ job \in Jobs
        /\ job'.step = "marks" /\ job'.at = job.at /\ job'.conf = job.conf /\ job' \in Jobs
        /\ \A o \in job'.found : o[1] \in Monitors \ job.conf
    BY MarksJob DEF Sweep, Jobs, Steps
  <1>2. MarksTypeOK'
    BY <1>1 DEF SweepInv, MarksTypeOK, rest
  <1>3. MarksAreEarned'
    BY <1>1 DEF SweepInv, MarksAreEarned, rest
  <1>4. SweepHolds'
    BY <1>1 DEF SweepInv, SweepHolds, Orphans, Wiping, rest
  <1>. QED BY <1>2, <1>3, <1>4 DEF SweepInv

LEMMA SweepDrops ==
    ASSUME SweepInv, NEW m \in Monitors, DropMark(m)
    PROVE  SweepInv'
  <1>1. since' = [since EXCEPT ![m] = None] /\ UNCHANGED <<rest, job, missing>>
    BY DEF DropMark
  <1>2. MarksTypeOK'
    BY <1>1 DEF SweepInv, MarksTypeOK, rest
  <1>3. MarksAreEarned'
    BY <1>1 DEF SweepInv, MarksAreEarned, MarksTypeOK, rest
  <1>4. SweepHolds'
    BY <1>1 DEF SweepInv, SweepHolds, Orphans, Wiping, rest
  <1>. QED BY <1>2, <1>3, <1>4 DEF SweepInv

\* What the sweep does next: nothing, or the ids left over.
LEMMA OrphansLeftHolds ==
    ASSUME SweepInv, job.step \in Sweeping, NEW ids \in SUBSET Monitors, OrphansLeft(ids),
           \A m \in ids : m \notin job.conf /\ missing'[m] # None,
           UNCHANGED rest
    PROVE  job' \in Jobs /\ SweepHolds' /\ (job'.step = "idle" \/ job'.at = job.at)
  <1>1. job \in Jobs
    BY MarksJob
  <1>2. CASE ids = {}
    <2>1. job' = Idle
      BY <1>2 DEF OrphansLeft
    <2>. QED BY <2>1, IdleIs DEF SweepHolds, Wiping
  <1>3. CASE ids # {}
    <2>1. job' = [job EXCEPT !.step = "orphans", !.left = ids, !.victim = {}]
      BY <1>3 DEF OrphansLeft
    <2>2. /\ job' \in Jobs /\ job'.step = "orphans" /\ job'.at = job.at /\ job'.left = ids
          /\ job'.conf = job.conf /\ job'.found = job.found
      BY <1>1, <2>1 DEF Jobs, Steps
    <2>3. job.at <= now /\ Orphans \subseteq Monitors \ job.conf
      BY DEF SweepInv, SweepHolds, Sweeping, Wiping
    <2>. QED BY <2>2, <2>3 DEF SweepHolds, Wiping, Orphans, rest
  <1>. QED BY <1>2, <1>3

LEMMA SweepMarksRead ==
    ASSUME SweepInv, MarksRead
    PROVE  SweepInv'
  <1>1. /\ job.step = "marks" /\ UNCHANGED <<rest, since>> /\ OrphansLeft(Orphans)
        /\ missing' = [m \in Monitors |-> IF m \notin Orphans THEN None
                           ELSE IF missing[m] = None THEN job.at ELSE missing[m]]
        /\ \A m \in Monitors \ Orphans : since[m] = None
    BY DEF MarksRead
  <1>2. /\ Orphans \subseteq Monitors \ job.conf /\ job.at <= now
        /\ job.at \in Nat /\ now \in Nat
    BY <1>1 DEF SweepInv, SweepHolds, MarksTypeOK, Jobs
  <1>3. missing' \in [Monitors -> Nat \cup {None}]
    BY <1>1, <1>2 DEF SweepInv, MarksTypeOK
  <1>4. \A m \in Orphans : m \notin job.conf /\ missing'[m] # None
    BY <1>1, <1>2 DEF None
  <1>5. job' \in Jobs /\ SweepHolds' /\ (job'.step = "idle" \/ job'.at = job.at)
    BY <1>1, <1>2, <1>4, OrphansLeftHolds DEF Sweeping
  <1>6. MarksTypeOK'
    BY <1>1, <1>3, <1>5 DEF SweepInv, MarksTypeOK, rest
  <1>7. MarksAreEarned'
    <2>. SUFFICES ASSUME NEW m \in Monitors
                  PROVE  /\ since'[m] # None => missing'[m] # None /\ missing'[m] <= since'[m]
                         /\ missing'[m] # None => missing'[m] <= now'
                         /\ missing'[m] # None /\ job'.step # "idle" => missing'[m] <= job'.at
      BY DEF MarksAreEarned
    <2>1. CASE m \notin Orphans
      BY <2>1, <1>1
    <2>2. CASE m \in Orphans /\ missing[m] = None
      <3>1. missing'[m] = job.at /\ since[m] = None
        BY <2>2, <1>1 DEF SweepInv, MarksAreEarned
      <3>. QED BY <3>1, <1>1, <1>2, <1>5 DEF rest
    <2>3. CASE m \in Orphans /\ missing[m] # None
      <3>1. missing'[m] = missing[m] /\ missing[m] <= now /\ missing[m] <= job.at
        BY <2>3, <1>1 DEF SweepInv, MarksAreEarned
      <3>. QED BY <3>1, <2>3, <1>1, <1>5 DEF SweepInv, MarksAreEarned, rest
    <2>. QED BY <2>1, <2>2, <2>3
  <1>. QED BY <1>5, <1>6, <1>7 DEF SweepInv

LEMMA SweepMarks ==
    ASSUME SweepInv, NEW m \in Monitors, Mark(m)
    PROVE  SweepInv'
  <1>1. /\ job.step = "orphans" /\ m \in job.left /\ UNCHANGED <<rest, missing>>
        /\ since' = [since EXCEPT ![m] = IF @ = None THEN job.at ELSE @]
        /\ OrphansLeft(job.left \ {m})
    BY DEF Mark
  <1>2. /\ job.left \ {m} \in SUBSET Monitors /\ job.at \in Nat
        /\ \A p \in job.left : p \notin job.conf /\ missing[p] # None
    BY <1>1 DEF SweepInv, SweepHolds, MarksTypeOK, Jobs
  <1>3. job' \in Jobs /\ SweepHolds' /\ (job'.step = "idle" \/ job'.at = job.at)
    BY <1>1, <1>2, OrphansLeftHolds DEF Sweeping
  <1>4. since' \in [Monitors -> Nat \cup {None}]
    BY <1>1, <1>2 DEF SweepInv, MarksTypeOK
  <1>5. MarksTypeOK'
    BY <1>1, <1>3, <1>4 DEF SweepInv, MarksTypeOK, rest
  <1>6. \A p \in Monitors : since'[p] = since[p] \/ (p = m /\ since'[p] = job.at)
    BY <1>1 DEF SweepInv, MarksTypeOK
  <1>7. MarksAreEarned'
    BY <1>1, <1>2, <1>3, <1>6 DEF SweepInv, MarksAreEarned, rest
  <1>. QED BY <1>3, <1>5, <1>7 DEF SweepInv

\* The running sweep goes on within the same id.
LEMMA SweepGoesOn ==
    ASSUME SweepInv, job.step \in Wiping \cup {"orphans", "raw", "prune_hourly"}, job' \in Jobs,
           UNCHANGED <<rest, since, missing>>,
           job'.at = job.at, job'.conf = job.conf, job'.left = job.left, job'.found = job.found,
           job'.step = job.step \/ (job'.step \in Wiping /\ job.step \in Wiping \cup {"orphans"})
    PROVE  SweepInv'
  <1>1. MarksTypeOK' /\ now <= now'
    BY DEF SweepInv, MarksTypeOK, rest
  <1>2. job.step # "idle"
    BY DEF Wiping
  <1>. QED BY <1>1, <1>2, SweepsOn

LEMMA SweepRunsOut ==
    ASSUME SweepInv, RunOut
    PROVE  SweepInv'
  <1>1. /\ job' \in Jobs /\ job'.step = job.step /\ job'.at = job.at /\ job'.conf = job.conf
        /\ job'.left = job.left /\ job'.found = job.found
    BY MarksJob DEF RunOut, Jobs
  <1>. QED BY <1>1, SweepGoesOn DEF RunOut, Deleting, Wiping

LEMMA SweepWipes ==
    ASSUME SweepInv, NEW m \in Monitors,
           Expire(m) \/ WipeSlice(m) \/ WipeSlicesEnd(m) \/ WipeHourly(m) \/ WipeDaily(m)
    PROVE  SweepInv'
  <1>. USE MarksJob
  <1>2. ASSUME NEW s \in {"wipe_checks", "wipe_hourly", "wipe_daily", "wipe_mark"}, NEW v \in SUBSET Monitors,
               job' = [job EXCEPT !.step = s, !.victim = v],
               job.step \in Wiping \cup {"orphans"}, UNCHANGED <<rest, since, missing>>
        PROVE  SweepInv'
    <2>1. /\ job' \in Jobs /\ job'.step = s /\ job'.at = job.at /\ job'.conf = job.conf
          /\ job'.left = job.left /\ job'.found = job.found
      BY <1>2 DEF Jobs, Steps
    <2>. QED BY <1>2, <2>1, SweepGoesOn DEF Wiping
  <1>3. CASE Expire(m)
    BY <1>3, <1>2 DEF Expire, Wiping
  <1>4. CASE WipeSlice(m)
    BY <1>4, SweepGoesOn DEF WipeSlice, Wiping
  <1>5. job.victim \in SUBSET Monitors /\ \A s : [job EXCEPT !.step = s]
                                              = [job EXCEPT !.step = s, !.victim = job.victim]
    BY DEF Jobs
  <1>6. CASE WipeSlicesEnd(m)
    <2>1. job.step = "wipe_checks" /\ job' = [job EXCEPT !.step = "wipe_hourly", !.victim = job.victim]
      BY <1>5, <1>6 DEF WipeSlicesEnd
    <2>. QED BY <1>2, <1>5, <1>6, <2>1 DEF WipeSlicesEnd, Wiping
  <1>7. CASE WipeHourly(m)
    <2>1. job.step = "wipe_hourly" /\ job' = [job EXCEPT !.step = "wipe_daily", !.victim = job.victim]
      BY <1>5, <1>7 DEF WipeHourly
    <2>. QED BY <1>2, <1>5, <1>7, <2>1 DEF WipeHourly, Wiping
  <1>8. CASE WipeDaily(m)
    <2>1. job.step = "wipe_daily" /\ job' = [job EXCEPT !.step = "wipe_mark", !.victim = job.victim]
      BY <1>5, <1>8 DEF WipeDaily
    <2>. QED BY <1>2, <1>5, <1>8, <2>1 DEF WipeDaily, Wiping
  <1>. QED BY <1>3, <1>4, <1>6, <1>7, <1>8

LEMMA SweepWiped ==
    ASSUME SweepInv, NEW m \in Monitors, WipeMark(m)
    PROVE  SweepInv'
  <1>1. /\ job.step = "wipe_mark" /\ UNCHANGED <<rest, missing>>
        /\ since' = [since EXCEPT ![m] = None] /\ OrphansLeft(job.left \ {m})
    BY DEF WipeMark
  <1>2. /\ job.left \ {m} \in SUBSET Monitors
        /\ \A p \in job.left : p \notin job.conf /\ missing[p] # None
    BY <1>1 DEF SweepInv, SweepHolds, MarksTypeOK, Jobs, Wiping
  <1>3. job' \in Jobs /\ SweepHolds' /\ (job'.step = "idle" \/ job'.at = job.at)
    BY <1>1, <1>2, OrphansLeftHolds DEF Sweeping, Wiping
  <1>4. MarksTypeOK'
    BY <1>1, <1>3 DEF SweepInv, MarksTypeOK, rest
  <1>5. \A p \in Monitors : since'[p] = since[p] \/ since'[p] = None
    BY <1>1 DEF SweepInv, MarksTypeOK
  <1>6. MarksAreEarned'
    BY <1>1, <1>3, <1>5 DEF SweepInv, MarksAreEarned, rest
  <1>. QED BY <1>3, <1>4, <1>6 DEF SweepInv

LEMMA SweepNext ==
    ASSUME SweepInv, [HistoryNext]_history
    PROVE  SweepInv'
  <1>1. CASE UNCHANGED history
    BY <1>1 DEF history, SweepInv, MarksTypeOK, MarksAreEarned, SweepHolds, Orphans
  <1>2. CASE HistoryNext
    <2>1. CASE Maintain
      BY <2>1, SweepTask, SweepFails, SweepReads, SweepDrops, SweepMarksRead, SweepMarks,
         SweepWipes, SweepWiped, SweepRunsOut DEF Maintain
    <2>. QED BY <1>2, <2>1, SweepDaemon, SweepStop DEF HistoryNext, HistoryStep
  <1>. QED BY <1>1, <1>2

\* A mark is as old as the run of sweeps that found its id missing, however
\* configurations change, statements fail and the daemon stops in between.
THEOREM SweepInvariant == HistorySpec => []SweepInv
  BY SweepInit, SweepNext, PTL DEF HistorySpec

\* A sweep deletes an id's history only when every sweep for a grace found the
\* id missing (maintenance.rs: "a later removal starts a fresh grace period").
THEOREM SweptAreMarked == HistorySpec => SweptIsLongGone
  <1>1. ASSUME SweepInv, [HistoryNext]_history
        PROVE  [\A m \in wiped' \ wiped :
                   /\ m \notin job.conf /\ missing[m] # None
                   /\ job.at >= missing[m] + Grace]_history
    <2>1. ASSUME NEW m \in Monitors, Expire(m)
          PROVE  \A p \in wiped' \ wiped :
                   /\ p \notin job.conf /\ missing[p] # None
                   /\ job.at >= missing[p] + Grace
      <3>1. m \in job.left /\ job.step = "orphans" /\ since[m] # None /\ job.at - since[m] >= Grace
        BY <2>1 DEF Expire, Expired
      <3>2. m \notin job.conf /\ missing[m] # None /\ missing[m] <= since[m]
        <4>1. m \notin job.conf /\ missing[m] # None
          BY <1>1, <3>1 DEF SweepInv, SweepHolds
        <4>2. missing[m] <= since[m]
          BY <1>1, <3>1 DEF SweepInv, MarksAreEarned
        <4>. QED BY <4>1, <4>2
      <3>3. since[m] \in Nat /\ missing[m] \in Nat /\ job.at \in Nat /\ Grace \in Nat
        <4>1. job.at \in Nat
          BY <1>1, MarksJob DEF Jobs
        <4>. QED BY <1>1, <3>1, <3>2, <4>1, HistoryConstants DEF SweepInv, MarksTypeOK
      <3>4. job.at >= missing[m] + Grace
        BY <3>1, <3>2, <3>3
      <3>. QED BY <2>1, <3>2, <3>4 DEF Expire
    <2>2. CASE \A m \in Monitors : ~Expire(m)
      <3>1. wiped' = wiped
        BY <1>1, <2>2 DEF HistoryNext, HistoryStep, Maintain, history, Tick, Reload, Stamp, Commit,
           InsertFails, Stop, Begin, RollUp, FillHour, FillEnds, RollDays, RunOut, PruneHourlySlice,
           PruneHourlyEnds, PruneDaily, PruneRawSlice, PruneRawEnds, Sweep, MarksRead, Fails,
           DropMark, Mark, WipeSlice, WipeSlicesEnd, WipeHourly, WipeDaily, WipeMark
      <3>. QED BY <3>1
    <2>. QED BY <2>1, <2>2
  <1>. QED BY <1>1, SweepInvariant, PTL DEF HistorySpec, SweptIsLongGone
=============================================================================
