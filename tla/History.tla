------------------------------ MODULE History ------------------------------
(***************************************************************************)
(* The history of checks and what keeps it within its retention: the raw   *)
(* rows, the hourly and daily buckets they are rolled up into, and the     *)
(* maintenance task that rolls up, prunes and sweeps (db/retention.rs,     *)
(* maintenance.rs).  One action is one SQL statement: probes, reloads,     *)
(* readers, a shutdown or a crash come between any two of them.            *)
(*                                                                         *)
(* Time is counted in units; Hour and Day are the code's 3600 and 86400    *)
(* scaled down.  A check has a time and a monitor; every check carries a   *)
(* latency sample, so a histogram is the number of samples it counts.      *)
(***************************************************************************)
EXTENDS Integers, FiniteSets, FiniteSetsExt

CONSTANTS
    Monitors,      \* ids that may be configured
    Retention,     \* Retention[m]: units raw rows are kept (retention_days)
    Hour,          \* 3600 s
    Day,           \* 86400 s
    RollLag,       \* HOURLY_ROLLUP_LAG_SECS
    DailyAfter,    \* DOWNSAMPLE_DAILY_AFTER_DAYS
    Keep,          \* AGGREGATE_RETENTION_DAYS
    Grace,         \* ORPHAN_GRACE_SECS
    PruneSlice,    \* PRUNE_SLICE_SECS
    OrphanSlice,   \* ORPHAN_SLICE_SECS
    CommitDelay,   \* longest time between a stamp and its commit (busy_timeout)
    JobSpan,       \* bound: the time one tick of the task takes
    Failing,       \* the maintenance statements that may fail

    MaxTime,       \* bound: the clock
    MaxChecks,     \* bound: checks ever committed
    MaxReloads     \* bound: configuration changes

Steps == {"idle", "roll", "fill", "daily", "prune_hourly", "prune_daily",
          "raw", "marks", "orphans",
          "wipe_checks", "wipe_hourly", "wipe_daily", "wipe_mark"}

\* A retention outlasts the hour being probed and the lag of its roll-up; a
\* check is committed before the roll-up of its hour, an hour is rolled up
\* before its day.
ASSUME HistoryAssumption ==
    /\ {Hour, Day, RollLag, DailyAfter, Keep, Grace, PruneSlice, OrphanSlice}
           \subseteq Nat \ {0}
    /\ {CommitDelay, JobSpan, MaxTime, MaxChecks, MaxReloads} \subseteq Nat
    /\ Day % Hour = 0
    /\ CommitDelay <= RollLag /\ RollLag <= DailyAfter
    /\ Retention \in [Monitors -> Nat]
    /\ \A m \in Monitors : Retention[m] >= Hour + RollLag
    /\ Failing \subseteq Steps

VARIABLES
    now,       \* the wall clock
    config,    \* the configured ids
    pending,   \* pending[m]: the check stamped but not committed, or None
    raw,       \* the table checks
    hourly,    \* the table checks_hourly
    daily,     \* the table checks_daily
    since,     \* orphan_since:<id> in the table meta, or None
    job,       \* the maintenance task
    recorded,  \* observer: every check committed so far
    wiped,     \* observer: ids whose history a sweep deleted
    missing,   \* observer: since which sweep every sweep found the id missing
    reloads    \* bound counter

history == <<now, config, pending, raw, hourly, daily, since, job,
             recorded, wiped, missing, reloads>>

None == -1
Checks == [id : Monitors, t : Nat]
\* latency_hist is NULL (None) until fill_latency_histograms computed it.
HourBuckets == [id : Monitors, at : Nat, count : Nat, hist : Nat \cup {None}]
DayBuckets == [id : Monitors, at : Nat, count : Nat]

HourOf(t) == (t \div Hour) * Hour
DayOf(t) == (t \div Day) * Day
Within(rows, from, to) == {c \in rows : from <= c.t /\ c.t < to}
Starting(buckets, from, to) == {b \in buckets : from <= b.at /\ b.at < to}
Of(rows, m) == {x \in rows : x.id = m}
Counted(buckets) == MapThenSumSet(LAMBDA b : b.count, buckets)

\* INSERT OR IGNORE: a bucket is written once.
Insert(buckets, new) ==
    buckets \cup {b \in new : \A o \in buckets : o.id # b.id \/ o.at # b.at}

\* Where the roll-up into a table goes on: above its newest bucket.
Floor(buckets, width) ==
    IF buckets = {} THEN 0 ELSE Max({b.at : b \in buckets}) + width

Idle == [step |-> "idle", kind |-> "rollup", at |-> 0, conf |-> {},
         late |-> FALSE, left |-> {}, victim |-> {}, found |-> {}]

HistoryTypeOK ==
    /\ now \in Nat /\ reloads \in Nat
    /\ config \subseteq Monitors /\ wiped \subseteq Monitors
    /\ pending \in [Monitors -> Nat \cup {None}]
    /\ raw \subseteq Checks /\ recorded \subseteq Checks
    /\ hourly \subseteq HourBuckets /\ daily \subseteq DayBuckets
    /\ since \in [Monitors -> Nat \cup {None}]
    /\ missing \in [Monitors -> Nat \cup {None}]
    /\ job \in [step : Steps, kind : {"prune", "rollup"}, at : Nat,
               conf : SUBSET Monitors, late : BOOLEAN, left : SUBSET Monitors,
               victim : SUBSET Monitors,
               found : SUBSET (Monitors \X {"checks", "hourly", "daily"})]

HistoryInit ==
    /\ now = 0 /\ config = Monitors
    /\ pending = [m \in Monitors |-> None]
    /\ raw = {} /\ hourly = {} /\ daily = {}
    /\ since = [m \in Monitors |-> None]
    /\ job = Idle
    /\ recorded = {} /\ wiped = {} /\ reloads = 0
    /\ missing = [m \in Monitors |-> None]

(***************************************************************************)
(* The rest of the daemon: probes, reloads, the clock, stops and starts.   *)
(***************************************************************************)

\* insert_check takes the time, then waits for the write lock.
Stamp(m) ==
    /\ m \in config /\ pending[m] = None
    /\ Cardinality(recorded) + Cardinality({p \in Monitors : pending[p] # None})
           < MaxChecks
    /\ pending' = [pending EXCEPT ![m] = now]
    /\ UNCHANGED <<now, config, raw, hourly, daily, since, job,
                   recorded, wiped, missing, reloads>>

\* INSERT OR IGNORE on UNIQUE(monitor_id, time); the monitor's task may be
\* gone by then.
Commit(m) ==
    /\ pending[m] # None
    /\ LET c == [id |-> m, t |-> pending[m]] IN
          raw' = raw \cup {c} /\ recorded' = recorded \cup {c}
    /\ pending' = [pending EXCEPT ![m] = None]
    /\ UNCHANGED <<now, config, hourly, daily, since, job, wiped, missing, reloads>>

\* "database is locked": the check is lost.
InsertFails(m) ==
    /\ pending[m] # None
    /\ pending' = [pending EXCEPT ![m] = None]
    /\ UNCHANGED <<now, config, raw, hourly, daily, since, job,
                   recorded, wiped, missing, reloads>>

Reload(ids) ==
    /\ ids # config /\ reloads < MaxReloads
    /\ config' = ids /\ reloads' = reloads + 1
    /\ UNCHANGED <<now, pending, raw, hourly, daily, since, job,
                   recorded, wiped, missing>>

\* A statement waits for the write lock at most busy_timeout.
Tick ==
    /\ now < MaxTime
    /\ \A m \in Monitors : pending[m] # None => now < pending[m] + CommitDelay
    /\ job.step # "idle" => now < job.at + JobSpan
    /\ now' = now + 1
    /\ UNCHANGED <<config, pending, raw, hourly, daily, since, job,
                   recorded, wiped, missing, reloads>>

\* A shutdown drops the prune between two statements; so does a crash.  The
\* daemon starts again: a downtime is time in which nothing happens.
Stop ==
    /\ job.step # "idle" \/ \E m \in Monitors : pending[m] # None
    /\ job' = Idle
    /\ pending' = [m \in Monitors |-> None]
    /\ UNCHANGED <<now, config, raw, hourly, daily, since, recorded, wiped,
                   missing, reloads>>

(***************************************************************************)
(* The maintenance task.                                                   *)
(***************************************************************************)
rest == <<now, config, pending, recorded, reloads>>

\* A tick of the prune timer or of the roll-up timer.
Begin(kind) ==
    /\ job.step = "idle"
    /\ job' = [Idle EXCEPT !.step = "roll", !.kind = kind, !.at = now,
                           !.conf = IF kind = "prune" THEN config ELSE {}]
    /\ UNCHANGED <<rest, raw, hourly, daily, since, wiped, missing>>

Goto(step) == job' = [job EXCEPT !.step = step, !.left = {}]

\* roll_up_recent alone, or at the head of roll_up_history.
RolledUp == IF job.kind = "rollup" THEN job' = Idle ELSE Goto("daily")

\* (mutated: up to the current hour, late commits left out)
RollUpEager ==
    /\ job.step = "roll"
    /\ LET rows == Within(raw, Floor(hourly, Hour), HourOf(job.at))
           bucket(c) == [id |-> c.id, at |-> HourOf(c.t), hist |-> None,
                         count |-> Cardinality({d \in Of(rows, c.id) :
                                                   HourOf(d.t) = HourOf(c.t)})]
       IN hourly' = Insert(hourly, {bucket(c) : c \in rows})
    /\ Goto("fill")
    /\ UNCHANGED <<rest, raw, daily, since, wiped, missing>>

\* downsample_hourly: the hours that ended RollLag ago, above the newest bucket.
RollUp ==
    /\ job.step = "roll"
    /\ LET rows == Within(raw, Floor(hourly, Hour), HourOf(job.at - RollLag))
           bucket(c) == [id |-> c.id, at |-> HourOf(c.t), hist |-> None,
                         count |-> Cardinality({d \in Of(rows, c.id) :
                                                   HourOf(d.t) = HourOf(c.t)})]
       IN hourly' = Insert(hourly, {bucket(c) : c \in rows})
    /\ Goto("fill")
    /\ UNCHANGED <<rest, raw, daily, since, wiped, missing>>

Unfilled == {b.at : b \in {x \in hourly : /\ x.at >= job.at - Day - Hour
                                         /\ x.hist = None}}

\* fill_latency_histograms: one hour's rows are read, then its buckets written.
FillHour ==
    /\ job.step = "fill" /\ Unfilled # {}
    /\ LET hour == Max(Unfilled)
           rows == Within(raw, hour, hour + Hour)
       IN hourly' = {IF b.at = hour /\ b.hist = None
                       THEN [b EXCEPT !.hist = Cardinality(Of(rows, b.id))]
                       ELSE b : b \in hourly}
    /\ UNCHANGED <<rest, raw, daily, since, job, wiped, missing>>

FillEnds ==
    /\ job.step = "fill" /\ Unfilled = {}
    /\ RolledUp
    /\ UNCHANGED <<rest, raw, hourly, daily, since, wiped, missing>>

DailyCutoff == job.at - DailyAfter

\* downsample_daily: the whole days below the cutoff, above the newest one.
RollDays ==
    /\ job.step = "daily"
    /\ LET old == {b \in Starting(hourly, Floor(daily, Day), DailyCutoff) :
                      DayOf(b.at) + Day <= DailyCutoff}
           bucket(b) == [id |-> b.id, at |-> DayOf(b.at),
                         count |-> Counted({h \in Of(old, b.id) :
                                              DayOf(h.at) = DayOf(b.at)})]
       IN daily' = Insert(daily, {bucket(b) : b \in old})
    /\ Goto("prune_hourly")
    /\ UNCHANGED <<rest, raw, hourly, since, wiped, missing>>

\* Pace::out_of_time: once late, the tick deletes no further slice.
Deleting ==
    \/ job.step \in {"prune_hourly", "wipe_checks"}
    \/ job.step = "raw" /\ job.left # {}

RunOut ==
    /\ Deleting /\ ~job.late
    /\ job' = [job EXCEPT !.late = TRUE]
    /\ UNCHANGED <<rest, raw, hourly, daily, since, wiped, missing>>

\* delete_oldest_slice: the rows of one span from the oldest one on.
Lesser(x, y) == IF x < y THEN x ELSE y
SliceEnd(oldest, cutoff, width) == Lesser(oldest + width, cutoff)

\* (mutated: the hours of a day not yet rolled up as well)
HourlyCutoffMidDay == DailyCutoff
HourlyCutoff == DayOf(DailyCutoff)
OldHours == {b.at : b \in {x \in hourly : x.at < HourlyCutoff}}

PruneHourlySlice ==
    /\ job.step = "prune_hourly" /\ ~job.late /\ OldHours # {}
    /\ LET from == Min(OldHours) IN
          hourly' = hourly \ Starting(hourly, from, SliceEnd(from, HourlyCutoff, Hour))
    /\ UNCHANGED <<rest, raw, daily, since, job, wiped, missing>>

PruneHourlyEnds ==
    /\ job.step = "prune_hourly" /\ (job.late \/ OldHours = {})
    /\ Goto("prune_daily")
    /\ UNCHANGED <<rest, raw, hourly, daily, since, wiped, missing>>

PruneDaily ==
    /\ job.step = "prune_daily"
    /\ daily' = {b \in daily : b.at >= job.at - Keep}
    /\ job' = [job EXCEPT !.step = "raw", !.left = job.conf]
    /\ UNCHANGED <<rest, raw, hourly, since, wiped, missing>>

\* prune_with: one sliced delete per distinct cutoff, in any order.
Group == {m \in job.left : Retention[m] = Retention[CHOOSE p \in job.left : TRUE]}
RawCutoff == job.at - Retention[CHOOSE m \in Group : TRUE]
OldRows == {c.t : c \in {x \in raw : x.id \in Group /\ x.t < RawCutoff}}

PruneRawSlice ==
    /\ job.step = "raw" /\ job.left # {} /\ ~job.late /\ OldRows # {}
    /\ LET from == Min(OldRows)
           gone == Within(raw, from, SliceEnd(from, RawCutoff, PruneSlice))
       IN raw' = raw \ {c \in gone : c.id \in Group}
    /\ UNCHANGED <<rest, hourly, daily, since, job, wiped, missing>>

PruneRawEnds ==
    /\ job.step = "raw" /\ job.left # {} /\ (job.late \/ OldRows = {})
    /\ job' = [job EXCEPT !.left = @ \ Group]
    /\ UNCHANGED <<rest, raw, hourly, daily, since, wiped, missing>>

\* delete_orphans reads which ids each table holds...
Sweep ==
    /\ job.step = "raw" /\ job.left = {}
    /\ LET held == [table \in {"checks", "hourly", "daily"} |->
                      IF table = "checks" THEN {c.id : c \in raw}
                      ELSE IF table = "hourly" THEN {b.id : b \in hourly}
                      ELSE {b.id : b \in daily}]
       IN job' = [job EXCEPT !.step = "marks",
                     !.found = {o \in (Monitors \ job.conf) \X DOMAIN held :
                                  o[1] \in held[o[2]]}]
    /\ UNCHANGED <<rest, raw, hourly, daily, since, wiped, missing>>

Orphans == {o[1] : o \in job.found}
OrphansLeft(ids) ==
    job' = IF ids = {} THEN Idle
           ELSE [job EXCEPT !.step = "orphans", !.left = ids, !.victim = {}]

\* ... drops the marks of those that came back or have no rows...
DropMark(m) ==
    /\ job.step = "marks" /\ m \notin Orphans /\ since[m] # None
    /\ since' = [since EXCEPT ![m] = None]
    /\ UNCHANGED <<rest, raw, hourly, daily, job, wiped, missing>>

\* (mutated: the stale marks stay)
MarksReadStale ==
    /\ job.step = "marks"
    /\ missing' = [m \in Monitors |-> IF m \notin Orphans THEN None
                        ELSE IF missing[m] = None THEN job.at ELSE missing[m]]
    /\ OrphansLeft(Orphans)
    /\ UNCHANGED <<rest, raw, hourly, daily, since, wiped>>

MarksRead ==
    /\ job.step = "marks"
    /\ \A m \in Monitors \ Orphans : since[m] = None
    /\ missing' = [m \in Monitors |-> IF m \notin Orphans THEN None
                        ELSE IF missing[m] = None THEN job.at ELSE missing[m]]
    /\ OrphansLeft(Orphans)
    /\ UNCHANGED <<rest, raw, hourly, daily, since, wiped>>

Expired(m) == since[m] # None /\ job.at - since[m] >= Grace

\* (mutated: the mark is dated back)
MarkBackdated(m) ==
    /\ job.step = "orphans" /\ m \in job.left /\ ~Expired(m)
    /\ since' = [since EXCEPT ![m] = IF @ = None THEN job.at - Grace ELSE @]
    /\ OrphansLeft(job.left \ {m})
    /\ UNCHANGED <<rest, raw, hourly, daily, wiped, missing>>

\* ... marks the ones missing for the first time...
Mark(m) ==
    /\ job.step = "orphans" /\ m \in job.left /\ ~Expired(m)
    /\ since' = [since EXCEPT ![m] = IF @ = None THEN job.at ELSE @]
    /\ OrphansLeft(job.left \ {m})
    /\ UNCHANGED <<rest, raw, hourly, daily, wiped, missing>>

\* ... and deletes the ones missing for the whole grace, a table at a time.
Expire(m) ==
    /\ job.step = "orphans" /\ m \in job.left /\ Expired(m)
    /\ job' = [job EXCEPT !.step = "wipe_checks", !.victim = {m}]
    /\ wiped' = wiped \cup {m}
    /\ UNCHANGED <<rest, raw, hourly, daily, since, missing>>

Victim(m) == job.victim = {m}
Left(m) == {c.t : c \in Of(raw, m)}

WipeSlice(m) ==
    /\ job.step = "wipe_checks" /\ Victim(m) /\ ~job.late
    /\ <<m, "checks">> \in job.found /\ Left(m) # {}
    /\ raw' = raw \ Within(Of(raw, m), Min(Left(m)), Min(Left(m)) + OrphanSlice)
    /\ UNCHANGED <<rest, hourly, daily, since, job, wiped, missing>>

WipeSlicesEnd(m) ==
    /\ job.step = "wipe_checks" /\ Victim(m)
    /\ job.late \/ <<m, "checks">> \notin job.found \/ Left(m) = {}
    /\ job' = [job EXCEPT !.step = "wipe_hourly"]
    /\ UNCHANGED <<rest, raw, hourly, daily, since, wiped, missing>>

WipeHourly(m) ==
    /\ job.step = "wipe_hourly" /\ Victim(m)
    /\ hourly' = IF <<m, "hourly">> \in job.found THEN hourly \ Of(hourly, m) ELSE hourly
    /\ job' = [job EXCEPT !.step = "wipe_daily"]
    /\ UNCHANGED <<rest, raw, daily, since, wiped, missing>>

WipeDaily(m) ==
    /\ job.step = "wipe_daily" /\ Victim(m)
    /\ daily' = IF <<m, "daily">> \in job.found THEN daily \ Of(daily, m) ELSE daily
    /\ job' = [job EXCEPT !.step = "wipe_mark"]
    /\ UNCHANGED <<rest, raw, hourly, since, wiped, missing>>

WipeMark(m) ==
    /\ job.step = "wipe_mark" /\ Victim(m)
    /\ since' = [since EXCEPT ![m] = None]
    /\ OrphansLeft(job.left \ {m})
    /\ UNCHANGED <<rest, raw, hourly, daily, wiped, missing>>

\* roll_up_history logs a failure and goes on; prune_with returns it.
Fails ==
    /\ job.step \in Failing
    /\ CASE job.step \in {"roll", "fill"} -> RolledUp
         [] job.step = "daily" -> Goto("prune_hourly")
         [] job.step = "prune_hourly" -> Goto("prune_daily")
         [] job.step = "prune_daily" ->
              job' = [job EXCEPT !.step = "raw", !.left = job.conf]
         [] OTHER -> job' = Idle
    /\ UNCHANGED <<rest, raw, hourly, daily, since, wiped, missing>>

Maintain ==
    \/ \E kind \in {"prune", "rollup"} : Begin(kind)
    \/ RollUp \/ FillHour \/ FillEnds \/ RollDays
    \/ RunOut \/ PruneHourlySlice \/ PruneHourlyEnds \/ PruneDaily
    \/ PruneRawSlice \/ PruneRawEnds \/ Sweep \/ MarksRead \/ Fails
    \/ \E m \in Monitors :
         \/ DropMark(m) \/ Mark(m) \/ Expire(m)
         \/ WipeSlice(m) \/ WipeSlicesEnd(m) \/ WipeHourly(m) \/ WipeDaily(m)
         \/ WipeMark(m)

HistoryStep ==
    \/ Tick \/ Maintain
    \/ \E ids \in SUBSET Monitors : Reload(ids)
    \/ \E m \in Monitors : Stamp(m) \/ Commit(m) \/ InsertFails(m)

HistoryNext == HistoryStep \/ Stop

HistorySpec == HistoryInit /\ [][HistoryNext]_history

(***************************************************************************)
(* Properties.                                                             *)
(***************************************************************************)
Day0(m, d) == {c \in Of(recorded, m) : DayOf(c.t) = d}
Hour0(m, h) == {c \in Of(recorded, m) : HourOf(c.t) = h}

\* For the year it is kept a bucket counts every check of its monitor and
\* span, whatever committed late, was pruned or interrupted before it was
\* written ("a complete hour aggregated from still-complete raw data is
\* final").  Once the newest bucket was pruned, hours are rolled up again from
\* what is left of the raw rows: their day is in a daily bucket by then.
HoursAreComplete ==
    \A b \in hourly :
        \/ b.id \in wiped \/ DayOf(b.at) < now - Keep
        \/ b.count = Cardinality(Hour0(b.id, b.at)) /\ b.hist \in {None, b.count}
        \/ \E d \in daily : d.id = b.id /\ d.at = DayOf(b.at)

DaysAreComplete ==
    \A b \in daily :
        \/ b.id \in wiped \/ b.at < now - Keep
        \/ b.count = Cardinality(Day0(b.id, b.at))

\* A check is in the raw rows, in the bucket of its hour or in the bucket of
\* its day for a year ("downsample before any deletion").
NothingIsLost ==
    \A c \in recorded :
        \/ c.id \in wiped
        \/ DayOf(c.t) < now - Keep
        \/ c \in raw
        \/ \E b \in hourly : b.id = c.id /\ b.at = HourOf(c.t)
        \/ \E b \in daily : b.id = c.id /\ b.at = DayOf(c.t)

\* A sweep deletes an id's history only when every sweep for a grace found
\* the id missing ("a later removal starts a fresh grace period").
SweptIsLongGone ==
    [][\A m \in wiped' \ wiped :
         /\ m \notin job.conf /\ missing[m] # None
         /\ job.at >= missing[m] + Grace]_history
============================================================================
