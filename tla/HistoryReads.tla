---------------------------- MODULE HistoryReads ----------------------------
(***************************************************************************)
(* The readers of the history while it is being written, rolled up and     *)
(* pruned: the report's bars (daily_all, db/aggregates.rs) and the status  *)
(* page's incremental caches of its 24 h figures, its bars and its         *)
(* sparklines (WindowCache, DailyCache, SparklineCache, db/window.rs).  A  *)
(* read is several statements; any statement of the rest of the daemon     *)
(* comes between two of them.  Counts are kept per monitor and day, or per *)
(* monitor and bucket of the sparkline.                                    *)
(***************************************************************************)
EXTENDS History, Functions

CONSTANTS
    Readers,    \* the reads a behaviour may make: "report", "window", "bars", "spark"
    WindowSpan, \* the 24 h of the page's figures
    Bucket,     \* bucket_secs of the sparklines
    BarSpan,    \* the days of bars shown
    TailLag,    \* TAIL_LAG_SECS, SPARKLINE_CLOSE_LAG_SECS
    ReadSpan,   \* bound: the time a read takes
    MaxReads    \* bound: reads of a behaviour

ASSUME ReadAssumption ==
    /\ Readers \subseteq {"report", "window", "bars", "spark"}
    /\ {WindowSpan, BarSpan, Bucket, TailLag} \subseteq Nat \ {0}
    /\ {ReadSpan, MaxReads} \subseteq Nat
    \* A late commit is settled; the window and the raw rows it reads are kept.
    /\ CommitDelay <= TailLag
    /\ \A m \in Monitors : Retention[m] > WindowSpan + ReadSpan
    /\ BarSpan <= Keep - ReadSpan

VARIABLES
    reader,    \* which of the reads this behaviour makes
    rd,        \* the read in progress
    cache,     \* what the reader keeps from one read to the next
    rolled,    \* a roll-up tick ran in this unit of time
    reads      \* bound counter

readers == <<reader, rd, cache, rolled, reads>>

Days == {d \in 0 .. MaxTime : d % Day = 0}
Width == IF reader = "spark" THEN Bucket ELSE Day
SlotOf(t) == (t \div Width) * Width
Slots == Monitors \X {d \in 0 .. MaxTime : d % Width = 0}
Zero == [s \in Slots |-> 0]
Plus(f, g) == [s \in Slots |-> f[s] + g[s]]
Minus(f, g) == [s \in Slots |-> f[s] - g[s]]

\* GROUP BY monitor_id, day: the raw rows, and the buckets.
RawDays(from, to) ==
    [s \in Slots |-> Cardinality({c \in Within(raw, from, to) :
                                    c.id = s[1] /\ SlotOf(c.t) = s[2]})]
BucketDays(buckets, from, to) ==
    [s \in Slots |-> Counted({b \in Starting(buckets, from, to) :
                                b.id = s[1] /\ DayOf(b.at) = s[2]})]
FromDay(f, day) == [s \in Slots |-> IF s[2] >= day THEN f[s] ELSE 0]

CeilTo(t, step) == ((t + step - 1) \div step) * step
Greater(x, y) == IF x < y THEN y ELSE x
Forever == MaxTime + 1

\* hourly_frontier: hours below it are in checks_hourly.
Frontier(otherwise) == IF hourly = {} THEN otherwise ELSE Floor(hourly, Hour)

\* WindowCache: lead [lead_since, start), middle [start, end), tail [end, tail_end).
\* DailyCache:  middle [start, end), tail [tail_start, tail_end).
Empty == [ready |-> FALSE, start |-> 0, lead_since |-> 0, lead |-> Zero,
          end |-> 0, middle |-> Zero, tail_start |-> 0, tail_end |-> 0, tail |-> Zero]

Resting == [pc |-> "rest", at |-> 0, from |-> 0, frontier |-> 0, sum |-> Zero, base |-> {}]

ReadsInit ==
    /\ HistoryInit
    /\ reader \in Readers
    /\ rd = Resting /\ cache = Empty /\ rolled = FALSE /\ reads = 0

Step(pc) == rd' = [rd EXCEPT !.pc = pc]

From(t) == Greater(t - (IF reader \in {"window", "spark"} THEN WindowSpan ELSE BarSpan), 0)

\* What a read started at the time at for the rows from on takes as frontier.
FrontierOf(from, at) ==
    IF reader = "window"
      THEN Greater(Frontier(CeilTo(from, Hour)), CeilTo(from, Hour))
      ELSE Lesser(Greater(from, Frontier(from)), at + 1)

\* The timestamp is taken first; the first statement reads the frontier.
BeginRead ==
    /\ rd.pc = "rest" /\ reads < MaxReads /\ reads' = reads + 1
    /\ rd' = [pc |-> "first", at |-> now, from |-> From(now),
              frontier |-> FrontierOf(From(now), now), sum |-> Zero, base |-> recorded]
    /\ UNCHANGED <<reader, cache>>

(***************************************************************************)
(* daily_all: raw rows above the frontier, hours below it, daily buckets.  *)
(***************************************************************************)
ReportRaw ==
    /\ reader = "report" /\ rd.pc = "first"
    /\ rd' = [rd EXCEPT !.pc = "hours", !.sum = RawDays(rd.frontier, rd.at + 1)]
    /\ UNCHANGED <<reader, cache, reads>>

ReportHours ==
    /\ reader = "report" /\ rd.pc = "hours"
    /\ rd' = [rd EXCEPT !.pc = "days",
                 !.sum = Plus(@, BucketDays(hourly, rd.from, rd.frontier))]
    /\ UNCHANGED <<reader, cache, reads>>

\* merge_days: the source with the most samples wins.
MergeDays(sum, buckets) ==
    [s \in Slots |-> IF buckets[s] > sum[s] THEN buckets[s] ELSE sum[s]]

ReadDays ==
    /\ reader \in {"report", "bars"} /\ rd.pc = "days"
    /\ rd' = [rd EXCEPT !.pc = "done",
                 !.sum = MergeDays(@, BucketDays(daily, rd.from, rd.at + 1))]
    /\ UNCHANGED <<reader, cache, reads>>

(***************************************************************************)
(* WindowCache::refresh_inner.                                             *)
(***************************************************************************)
FirstHour == CeilTo(rd.from, Hour)

\* (mutated: a row before the lead is uncounted as well)
WindowLeadOff ==
    /\ reader = "window" /\ rd.pc = "first"
    /\ LET fresh == \/ ~cache.ready \/ cache.start # FirstHour
                    \/ rd.from < cache.lead_since \/ rd.frontier < cache.end
       IN cache' = IF fresh
            THEN [Empty EXCEPT !.ready = TRUE, !.start = FirstHour,
                     !.end = FirstHour, !.tail_end = FirstHour,
                     !.lead_since = rd.from, !.lead = RawDays(rd.from, FirstHour)]
            ELSE [cache EXCEPT !.lead = Minus(@, RawDays(cache.lead_since - 1, rd.from)),
                               !.lead_since = rd.from]
    /\ Step("middle")
    /\ UNCHANGED <<reader, reads>>

\* A fresh cache reads the partial first hour; a later refresh of the same
\* hour uncounts the rows the window slid past.
WindowLead ==
    /\ reader = "window" /\ rd.pc = "first"
    /\ LET fresh == \/ ~cache.ready \/ cache.start # FirstHour
                    \/ rd.from < cache.lead_since \/ rd.frontier < cache.end
       IN cache' = IF fresh
            THEN [Empty EXCEPT !.ready = TRUE, !.start = FirstHour,
                     !.end = FirstHour, !.tail_end = FirstHour,
                     !.lead_since = rd.from, !.lead = RawDays(rd.from, FirstHour)]
            ELSE [cache EXCEPT !.lead = Minus(@, RawDays(cache.lead_since, rd.from)),
                               !.lead_since = rd.from]
    /\ Step("middle")
    /\ UNCHANGED <<reader, reads>>

\* (mutated: the tail is kept when its hour was rolled up)
WindowMiddleKeepsTail ==
    /\ reader = "window" /\ rd.pc = "middle"
    /\ cache' = IF cache.end < rd.frontier
         THEN [cache EXCEPT !.middle = Plus(@, BucketDays(hourly, cache.end, rd.frontier)),
                            !.end = rd.frontier]
         ELSE cache
    /\ Step("tail")
    /\ UNCHANGED <<reader, reads>>

\* add_rolled_up: the tail's rows below the new frontier are in the middle now.
WindowMiddle ==
    /\ reader = "window" /\ rd.pc = "middle"
    /\ cache' = IF cache.end < rd.frontier
         THEN [cache EXCEPT !.middle = Plus(@, BucketDays(hourly, cache.end, rd.frontier)),
                            !.end = rd.frontier, !.tail = Zero, !.tail_end = rd.frontier]
         ELSE cache
    /\ Step("tail")
    /\ UNCHANGED <<reader, reads>>

\* The rows older than TailLag are final and kept.
Settled == Greater(rd.at - TailLag, cache.tail_end)

WindowTail ==
    /\ reader = "window" /\ rd.pc = "tail"
    /\ cache' = [cache EXCEPT !.tail = Plus(@, RawDays(cache.tail_end, Settled)),
                              !.tail_end = Settled]
    /\ Step("live")
    /\ UNCHANGED <<reader, reads>>

WindowLive ==
    /\ reader = "window" /\ rd.pc = "live"
    /\ rd' = [rd EXCEPT !.pc = "done",
                 !.sum = Plus(RawDays(cache.tail_end, Forever),
                              Plus(cache.lead, Plus(cache.middle, cache.tail)))]
    /\ UNCHANGED <<reader, cache, reads>>

(***************************************************************************)
(* DailyCache::refresh_inner.                                              *)
(***************************************************************************)
FirstDay == CeilTo(rd.from, Day)

\* Reset when the window or the frontier moved back, slide, then extend.
BarsHours ==
    /\ reader = "bars" /\ rd.pc = "first"
    /\ LET end == Greater(rd.frontier, FirstDay)
           stale == cache.start > FirstDay \/ cache.end < FirstDay \/ cache.end > end
           kept == IF stale THEN [Empty EXCEPT !.start = FirstDay, !.end = FirstDay]
                   ELSE [cache EXCEPT !.start = FirstDay, !.middle = FromDay(@, FirstDay)]
       IN cache' = [kept EXCEPT !.end = end,
                       !.middle = Plus(@, BucketDays(hourly, kept.end, end))]
    /\ Step("tail")
    /\ UNCHANGED <<reader, reads>>

\* (mutated: the tail is kept when the frontier moved)
BarsTailKept ==
    /\ reader = "bars" /\ rd.pc = "tail"
    /\ LET kept == [cache EXCEPT !.tail_start = rd.frontier,
                               !.tail_end = Greater(@, rd.frontier)]
           settled == Greater(rd.at - TailLag, kept.tail_end)
       IN cache' = [kept EXCEPT !.tail = Plus(@, RawDays(kept.tail_end, settled)),
                                !.tail_end = settled]
    /\ Step("head")
    /\ UNCHANGED <<reader, reads>>

\* The settled rows above the frontier, started over when it moved.
BarsTail ==
    /\ reader = "bars" /\ rd.pc = "tail"
    /\ LET moved == cache.tail_start # rd.frontier \/ cache.tail_end < rd.frontier
           kept == IF moved THEN [cache EXCEPT !.tail_start = rd.frontier,
                                     !.tail_end = rd.frontier, !.tail = Zero]
                   ELSE cache
           settled == Greater(rd.at - TailLag, kept.tail_end)
       IN cache' = [kept EXCEPT !.tail = Plus(@, RawDays(kept.tail_end, settled)),
                                !.tail_end = settled]
    /\ Step("head")
    /\ UNCHANGED <<reader, reads>>

\* The window's partial first day is read from its hours each time.
BarsHead ==
    /\ reader = "bars" /\ rd.pc = "head"
    /\ rd' = [rd EXCEPT !.pc = "live",
                 !.sum = Plus(Plus(cache.middle, cache.tail),
                              BucketDays(hourly, rd.from, Lesser(FirstDay, rd.frontier)))]
    /\ UNCHANGED <<reader, cache, reads>>

BarsLive ==
    /\ reader = "bars" /\ rd.pc = "live"
    /\ rd' = [rd EXCEPT !.pc = "days", !.sum = Plus(@, RawDays(cache.tail_end, rd.at + 1))]
    /\ UNCHANGED <<reader, cache, reads>>

(***************************************************************************)
(* SparklineCache::refresh: middle holds the closed buckets below end.     *)
(***************************************************************************)
FirstBucket == SlotOf(rd.from)

\* The partial first bucket is read each time.
SparkLead ==
    /\ reader = "spark" /\ rd.pc = "first"
    /\ cache' = IF cache.end < FirstBucket + Bucket
                  THEN [Empty EXCEPT !.end = FirstBucket + Bucket] ELSE cache
    /\ rd' = [rd EXCEPT !.pc = "live", !.sum = RawDays(rd.from, FirstBucket + Bucket)]
    /\ UNCHANGED <<reader, reads>>

CloseBefore == SlotOf(rd.at - TailLag)
\* (mutated: the bucket the clock just left is closed at once)
ClosingEarly(f) == [s \in Slots |-> IF s[2] + Bucket <= rd.at THEN f[s] ELSE 0]

Closing(f) == [s \in Slots |-> IF s[2] + Bucket <= CloseBefore THEN f[s] ELSE 0]

\* A bucket that ended TailLag ago is aggregated once.
SparkLive ==
    /\ reader = "spark" /\ rd.pc = "live"
    /\ LET fresh == RawDays(cache.end, Forever)
           kept == FromDay(cache.middle, FirstBucket + Bucket)
       IN /\ cache' = [cache EXCEPT !.middle = Plus(kept, Closing(fresh)),
                                    !.end = Greater(@, CloseBefore)]
          /\ rd' = [rd EXCEPT !.pc = "done", !.sum = Plus(@, Plus(kept, fresh))]
    /\ UNCHANGED <<reader, reads>>

\* A statement fails: the page shows no data, the caches start over (the
\* sparklines keep theirs).
ReadFails ==
    /\ rd.pc \notin {"rest", "done"}
    /\ rd' = Resting
    /\ cache' = IF reader = "spark" THEN cache ELSE Empty
    /\ UNCHANGED <<reader, reads>>

EndRead ==
    /\ rd.pc = "done" /\ rd' = Resting
    /\ UNCHANGED <<reader, cache, reads>>

Read ==
    \/ BeginRead \/ ReportRaw \/ ReportHours \/ ReadDays
    \/ WindowLead \/ WindowMiddle \/ WindowTail \/ WindowLive
    \/ BarsHours \/ BarsTail \/ BarsHead \/ BarsLive \/ SparkLead \/ SparkLive
    \/ ReadFails \/ EndRead

\* Roll-ups run every ROLLUP_INTERVAL from the start on, prunes hours apart and
\* ROLLUP_INTERVAL after a start: a prune follows a roll-up, and a read is
\* shorter than the minutes between the two.
PruneFollowsRollUp ==
    job.step = "idle" /\ job'.step = "roll" /\ job'.kind = "prune" =>
        /\ rolled
        /\ rd.pc \in {"rest", "done"} \/ rd.frontier = FrontierOf(rd.from, rd.at)

\* A read does not outlast ReadSpan.
Proceed ==
    /\ HistoryStep /\ PruneFollowsRollUp
    /\ rd.pc # "rest" => now' <= rd.at + ReadSpan
    /\ rolled' = (now' = now /\ (rolled \/ (job.step = "roll" /\ job'.step = "fill")))
    /\ UNCHANGED <<reader, rd, cache, reads>>

\* What is kept from one read to the next is in memory.
StopReads ==
    /\ Stop
    /\ rd' = Resting /\ cache' = Empty /\ rolled' = FALSE
    /\ UNCHANGED <<reader, reads>>

ReadsNext == (Read /\ UNCHANGED <<history, rolled>>) \/ Proceed \/ StopReads

ReadsSpec == ReadsInit /\ [][ReadsNext]_<<history, readers>>

(***************************************************************************)
(* Properties.                                                             *)
(***************************************************************************)
ReadsTypeOK ==
    /\ reader \in Readers /\ rolled \in BOOLEAN /\ reads \in 0 .. MaxReads
    /\ rd.pc \in {"rest", "first", "hours", "middle", "tail", "head", "live", "days", "done"}
    /\ {rd.at, rd.from, rd.frontier} \subseteq Nat /\ rd.base \subseteq recorded
    /\ rd.sum \in [Slots -> Nat]
    /\ {cache.lead, cache.middle, cache.tail} \subseteq [Slots -> Nat]

InWindow(rows, m) == Cardinality({c \in Of(rows, m) : c.t >= rd.from})
InDay(rows, m, d) == Cardinality({c \in Of(rows, m) : DayOf(c.t) = d /\ c.t <= rd.at})
Total(f, m) == MapThenSumSet(LAMBDA s : f[s], {s \in Slots : s[1] = m})

\* The 24 h figures and sparklines count every check committed before the
\* refresh began, and none twice nor one that was never committed ("Returns
\* exactly what window_stats_all returns").
WindowIsExact ==
    reader \in {"window", "spark"} /\ rd.pc = "done" =>
        \A m \in Monitors \ wiped :
            /\ InWindow(rd.base, m) <= Total(rd.sum, m)
            /\ Total(rd.sum, m) <= InWindow(recorded, m)

\* The bars of every day that starts in the range count each check once,
\* whichever of raw rows, hourly and daily buckets hold it by then, while
\* roll-ups and prunes commit in between.
BarsAreExact ==
    reader \in {"report", "bars"} /\ rd.pc = "done" =>
        \A m \in Monitors \ wiped, d \in {x \in Days : x >= rd.from} :
            /\ InDay(rd.base, m, d) <= rd.sum[<<m, d>>]
            /\ rd.sum[<<m, d>>] <= InDay(recorded, m, d)

\* Both: no report, page or sparkline is told a count that never held.
ReadsAreExact == WindowIsExact /\ BarsAreExact
============================================================================
