------------------------------ MODULE Figures ------------------------------
(***************************************************************************)
(* What the stored checks of a monitor are turned into: its state on the   *)
(* page (db/checks.rs), its burn-rate alerts and error budget (slo.rs,     *)
(* scheduler.rs), the month's report (report.rs), the replay of other      *)
(* thresholds (tune.rs), the histogram its percentiles are read from       *)
(* (histogram.rs).                                                         *)
(*                                                                         *)
(* The checks come in one at a time, a unit of time apart; next to them    *)
(* runs the alert state of the monitor's loop, which sees each once and    *)
(* keeps no history.  Minutes are units of time; days and lookbacks are    *)
(* scaled to a few of them.  Mutes and restarts are left to MonitorLoop.   *)
(* The histogram has fewer buckets than the code's, by the same rule.      *)
(***************************************************************************)
EXTENDS Integers, Sequences, FiniteSets, SequencesExt

CONSTANTS
    MonitorRules,   \* [threshold, alert_on_degraded, slo]: what is configured
    NoGoal,       \* no availability objective
    DaySpan, MonthStart, MonthEnd, WindowDays,
    FastLong, FastShort, SlowLong, SlowShort,   \* the lookbacks of burn alerts
    GAP_RATIO, MAX_RECOMMENDED,
    MaxChecks,                                  \* bound
    SUB_BITS, MaxLatency, VARINT_BASE,          \* the histogram's scale
    LatenciesSeen, HoursRolled, MaxSamples      \* bounds: inputs, samples held

VARIABLES
    rules,      \* the rules of the monitor
    trail,      \* its checks; the i-th came at time i
    alarm,      \* the alert state of its loop
    told,       \* the alerts its loop sent: [what, at]
    log,        \* its incidents: [started, ended]
    counts,     \* the histogram of a sliding window: samples per bucket
    window      \* the samples of that window, oldest first

figuresVars == <<rules, trail, alarm, told, log, counts, window>>

Loop(threshold) == INSTANCE AlertState WITH FailThreshold <- threshold

Lasting == 0   \* the end of an incident that is not over
Now == Len(trail)
Least(a, b) == IF a < b THEN a ELSE b
Most(a, b) == IF a > b THEN a ELSE b

(* Counting the checks. *)

Seen(from, until) == {t \in DOMAIN trail : t >= from /\ t <= until}
Of(outcome, times) == Cardinality({t \in times : trail[t] = outcome})
Available(times) == Cardinality(times) - Of("down", times)

(* The state of the monitor on the page. *)

\* (mutated: the oldest and the newest of the checks are enough)
DerivedFromTheEnds(checks, threshold) ==
    IF checks = <<>> THEN "unknown"
    ELSE IF Last(checks) # "down" THEN Last(checks)
    ELSE IF checks[1] = "down" THEN "down" ELSE "degraded"

\* The newest checks, as many as the threshold, all of them failed.
DeriveStatus(checks, threshold) ==
    IF checks = <<>> THEN "unknown"
    ELSE IF Last(checks) # "down" THEN Last(checks)
    ELSE IF Len(checks) >= threshold /\ ToSet(checks) = {"down"} THEN "down" ELSE "degraded"

RecentChecks(n) == SubSeq(trail, Most(1, Now - n + 1), Now)
PageState == DeriveStatus(RecentChecks(rules.threshold), rules.threshold)

(* Availability objectives: targets in basis points, burn rates in tenths. *)

Budget(target) == 10000 - Least(target, 9999)
FastThreshold == (WindowDays * 24) \div 5
SlowThreshold == (WindowDays * 24) \div 12

BurnRate(available, total, target) ==
    IF total = 0 THEN 0
    ELSE ((total - available) * 100000) \div (total * Budget(target))

BudgetMinutes(days, target) == (days * DaySpan * Budget(target)) \div 10000
ConsumedMinutes(available, total, covered) ==
    IF total = 0 THEN 0 ELSE ((total - available) * covered) \div total

BurnOver(checks, lookback, target) ==
    LET times == {t \in DOMAIN checks : t >= Len(checks) - lookback}
        up == {t \in times : checks[t] # "down"}
    IN BurnRate(Cardinality(up), Cardinality(times), target)

\* (mutated: the short lookback is not asked)
LongBurns(checks, long, short, threshold, target) ==
    BurnOver(checks, long, target) >= threshold

BothBurn(checks, long, short, threshold, target) ==
    BurnOver(checks, long, target) >= threshold /\ BurnOver(checks, short, target) >= threshold

\* The edges latched after a check.
EvaluateBurn(checks, burn, target) ==
    LET cool == IF BurnOver(checks, FastLong, target) < FastThreshold
                THEN burn \ {"fast"} ELSE burn
    IN IF BothBurn(checks, FastLong, FastShort, FastThreshold, target) THEN {"fast", "slow"}
       ELSE IF BothBurn(checks, SlowLong, SlowShort, SlowThreshold, target)
            THEN cool \cup {"slow"}
       ELSE IF BurnOver(checks, SlowLong, target) < SlowThreshold
            THEN cool \ {"slow"} ELSE cool

\* Sent when an edge is latched; the fast one stands for both.
BurnAlert(before, after) ==
    IF "fast" \in after \ before THEN {"burn fast"}
    ELSE IF "slow" \in after \ before THEN {"burn slow"} ELSE {}

Burns(s, checks, on) ==
    LET judged == on.slo # NoGoal /\ (Last(checks) = "down" \/ s.burn # {})
    IN IF judged THEN [s EXCEPT !.burn = EvaluateBurn(checks, @, on.slo)] ELSE s

(* The loop of the monitor. *)

Slow(check, on) == check = "degraded" /\ on.alert_on_degraded

Observe(s, check, on) ==
    IF check = "down" THEN Loop(on.threshold)!ObserveDown(s)
    ELSE IF Slow(check, on) THEN Loop(on.threshold)!ObserveDegraded(s)
    ELSE Loop(on.threshold)!ObserveUp(s)

\* The alert an observation calls for.
Transition(s, check, on) ==
    IF check = "down" THEN IF Loop(on.threshold)!ConfirmsDown(s) THEN "down" ELSE "none"
    ELSE IF Slow(check, on)
         THEN IF Loop(on.threshold)!ConfirmsDegraded(s) THEN "degraded" ELSE "none"
    ELSE IF Loop(on.threshold)!EndsAlert(s) THEN "healthy" ELSE "none"

Settle(s, alert) == IF alert = "none" THEN s ELSE [s EXCEPT !.level = alert]

Ticked(s, checks, on) ==
    LET burnt == Burns(s, checks, on)
        seen == Observe(burnt, Last(checks), on)
        alert == Transition(seen, Last(checks), on)
    IN [state |-> Settle(seen, alert),
        alerts |-> BurnAlert(s.burn, burnt.burn) \cup ({alert} \ {"none"})]

\* An incident opens with a confirmed down and ends with any check that answers.
Incidents(check, alerts, at) ==
    IF check # "down"
    THEN [i \in DOMAIN log |-> IF log[i].ended = Lasting THEN [log[i] EXCEPT !.ended = at] ELSE log[i]]
    ELSE IF "down" \in alerts /\ \A i \in DOMAIN log : log[i].ended # Lasting
    THEN Append(log, [started |-> at, ended |-> Lasting]) ELSE log

Check(outcome) ==
    /\ window = <<>> /\ Len(trail) < MaxChecks
    /\ trail' = Append(trail, outcome)
    /\ LET tick == Ticked(alarm, trail', rules)
           at == Len(trail')
       IN /\ alarm' = tick.state
          /\ told' = told \cup {[what |-> what, at |-> at] : what \in tick.alerts}
          /\ log' = Incidents(outcome, tick.alerts, at)
    /\ UNCHANGED <<rules, counts, window>>

(* The month's report. *)

DayOf(t) == t \div DaySpan
DaysIn(from, until) == (until - from + DaySpan - 1) \div DaySpan
CoveredEnd == Least(MonthEnd, Now)

\* The counts of each day, of the checks between two moments, both included.
DailyAll(from, until) ==
    [day \in {DayOf(t) : t \in Seen(from, until)} |->
        {t \in Seen(from, until) : DayOf(t) = day}]

\* The days the file of the month names: a bucket past its end is dropped.
MonthOf(daily) == [day \in {d \in DOMAIN daily : d < DayOf(MonthEnd)} |-> daily[day]]

UptimePoints(part, total) == (part * 10000 + total \div 2) \div total

IncidentsBetween(since, until) ==
    {i \in DOMAIN log : log[i].started < until /\ (log[i].ended = Lasting \/ log[i].ended > since)}

\* (mutated: what an incident had already lasted before the month is counted)
OverlapUnclipped(incident) ==
    Least(IF incident.ended = Lasting THEN Now ELSE incident.ended, CoveredEnd) - incident.started

Overlap(incident) ==
    Least(IF incident.ended = Lasting THEN Now ELSE incident.ended, CoveredEnd)
        - Most(incident.started, MonthStart)

Summed(indices, value(_)) == FoldSeq(+, 0, [i \in 1..Len(log) |->
                                             IF i \in indices THEN value(i) ELSE 0])

Repaired(indices) ==
    {i \in indices : log[i].ended # Lasting /\ log[i].ended >= MonthStart /\ log[i].ended < MonthEnd}

BuildReport ==
    LET daily == MonthOf(DailyAll(MonthStart, CoveredEnd))
        times == UNION {daily[day] : day \in DOMAIN daily}
        overlapping == {i \in IncidentsBetween(MonthStart, CoveredEnd) : Overlap(log[i]) > 0}
        repaired == Repaired(overlapping)
        total == Cardinality(times)
    IN [up |-> Of("up", times), down |-> Of("down", times), total |-> total,
        days |-> [day \in 0..DaysIn(MonthStart, CoveredEnd) - 1 |->
                    LET date == DayOf(MonthStart) + day
                    IN IF date \in DOMAIN daily THEN Of("down", daily[date]) ELSE 0],
        uptime |-> IF total = 0 THEN -1 ELSE UptimePoints(Available(times), total),
        incidents |-> Cardinality(overlapping),
        downtime |-> Summed(overlapping, LAMBDA i : Overlap(log[i])),
        mttr |-> IF repaired = {} THEN -1
                 ELSE Summed(repaired, LAMBDA i : log[i].ended - log[i].started)
                        \div Cardinality(repaired)]

SloColumns(report, target) ==
    [met |-> report.uptime >= target,
     budget |-> BudgetMinutes(DaysIn(MonthStart, CoveredEnd), target),
     consumed |-> ConsumedMinutes(report.total - report.down, report.total,
                                  CoveredEnd - MonthStart)]

(* The page's bar of days. *)

DayCell(times) ==
    LET permille == (Available(times) * 1000) \div Cardinality(times)
    IN IF times = {} THEN "empty"
       ELSE IF Of("up", times) = Cardinality(times) THEN "up"
       ELSE IF permille >= 900 THEN "degraded" ELSE "down"

BuildBar(days) ==
    [day \in DayOf(Now) - days + 1 .. DayOf(Now) |-> DayCell({t \in DOMAIN trail : DayOf(t) = day})]

LongUptime(bar) ==
    LET times == {t \in DOMAIN trail : DayOf(t) \in DOMAIN bar}
    IN IF times = {} THEN -1 ELSE (Available(times) * 1000) \div Cardinality(times)

\* The line of the budget on a card.
BudgetView(target) ==
    LET times == {t \in DOMAIN trail : DayOf(t) >= DayOf(Now) - WindowDays}
        days == Cardinality({DayOf(t) : t \in times})
        left == Most(0, BudgetMinutes(WindowDays, target)
                        - ConsumedMinutes(Available(times), Cardinality(times),
                                          Least(days, WindowDays) * DaySpan))
    IN IF left = 0 THEN "breached"
       ELSE IF left * 4 <= BudgetMinutes(WindowDays, target) THEN "low" ELSE "met"

(* The replay of other thresholds. *)

AddRun(acc, check) ==
    IF check = "down" THEN [acc EXCEPT !.current = @ + 1]
    ELSE IF acc.current > 0 THEN [runs |-> Append(acc.runs, acc.current), current |-> 0] ELSE acc

FailureRuns(checks) ==
    LET all == FoldLeft(AddRun, [runs |-> <<>>, current |-> 0], checks)
    IN IF all.current > 0 THEN Append(all.runs, all.current) ELSE all.runs

AlertsAt(runs, threshold) == Cardinality({i \in DOMAIN runs : runs[i] >= Most(threshold, 1)})

NoAdvice == [recommended |-> 0, flap_max |-> 0, smallest_outage |-> 0]

\* The lowest of the widest jumps between two tiers splits flaps from outages.
RecommendThreshold(runs) ==
    LET tiers == SetToSortSeq(ToSet(runs), <)
        wider(i, j) == tiers[i + 1] * tiers[j] > tiers[j + 1] * tiers[i]
        split == CHOOSE i \in 1..Len(tiers) - 1 :
                    \A j \in 1..Len(tiers) - 1 :
                        ~wider(j, i) /\ (j < i => wider(i, j))
    IN IF Len(tiers) < 2 \/ tiers[split + 1] < GAP_RATIO * tiers[split] THEN NoAdvice
       ELSE [recommended |-> IF tiers[split] + 1 <= MAX_RECOMMENDED THEN tiers[split] + 1 ELSE 0,
             flap_max |-> tiers[split], smallest_outage |-> tiers[split + 1]]

(* Latencies. *)

LINEAR_BELOW == 2 ^ (SUB_BITS + 1)
Log2(n) == CHOOSE e \in 0..20 : 2 ^ e <= n /\ n < 2 ^ (e + 1)
Clamped(latency) == Most(0, Least(latency, MaxLatency))

BucketOf(latency) ==
    LET value == Clamped(latency)
        shift == Log2(value) - SUB_BITS
    IN IF value < LINEAR_BELOW THEN value
       ELSE shift * 2 ^ SUB_BITS + value \div 2 ^ shift

\* (mutated: the upper end of the bucket)
UpperEnd(bucket) ==
    IF bucket < LINEAR_BELOW THEN bucket
    ELSE LET shift == bucket \div 2 ^ SUB_BITS - 1
         IN (bucket - shift * 2 ^ SUB_BITS) * 2 ^ shift + 2 ^ shift

Midpoint(bucket) ==
    IF bucket < LINEAR_BELOW THEN bucket
    ELSE LET shift == bucket \div 2 ^ SUB_BITS - 1
         IN (bucket - shift * 2 ^ SUB_BITS) * 2 ^ shift + 2 ^ shift \div 2

MAX_BUCKET == BucketOf(MaxLatency)

\* The vector grows to the highest bucket in use and never ends with a zero.
AddCount(hist, bucket, count) ==
    IF count = 0 THEN hist
    ELSE [i \in 1..Most(Len(hist), bucket + 1) |->
            (IF i <= Len(hist) THEN hist[i] ELSE 0) + (IF i = bucket + 1 THEN count ELSE 0)]

Trimmed(hist) ==
    SubSeq(hist, 1, CHOOSE n \in 0..Len(hist) :
                        /\ n > 0 => hist[n] # 0
                        /\ \A i \in n + 1..Len(hist) : hist[i] = 0)

Unrecorded(hist, latency) ==
    LET slot == BucketOf(latency) + 1
    IN Trimmed(IF slot <= Len(hist) THEN [hist EXCEPT ![slot] = Most(@ - 1, 0)] ELSE hist)

HistogramOf(samples) ==
    LET buckets == {BucketOf(samples[i]) : i \in DOMAIN samples}
        length == IF samples = <<>> THEN 0
                  ELSE 1 + CHOOSE b \in buckets : \A other \in buckets : other <= b
    IN [slot \in 1..length |->
            Cardinality({i \in DOMAIN samples : BucketOf(samples[i]) = slot - 1})]

RECURSIVE Varint(_)
Varint(n) ==
    IF n < VARINT_BASE THEN <<n>>
    ELSE <<(n % VARINT_BASE) + VARINT_BASE>> \o Varint(n \div VARINT_BASE)

\* The version, then for each bucket in use how far it is from the last one,
\* and its count.
Encode(hist) ==
    LET pair(acc, i) ==
            IF hist[i] = 0 THEN acc
            ELSE [bytes |-> acc.bytes \o Varint(i - 1 - acc.last) \o Varint(hist[i]),
                  last |-> i - 1]
    IN FoldLeft(pair, [bytes |-> <<1>>, last |-> 0], [i \in DOMAIN hist |-> i]).bytes

Blank0 == [ok |-> TRUE, value |-> 0, scale |-> 1, delta |-> -1, bucket |-> 0, entries |-> <<>>]

\* A byte of a varint; with the last one of a pair, its entry.
ReadByte(acc, byte) ==
    LET value == acc.value + (byte % VARINT_BASE) * acc.scale
        bucket == acc.bucket + acc.delta
    IN IF byte >= VARINT_BASE
       THEN [acc EXCEPT !.value = value, !.scale = @ * VARINT_BASE]
       ELSE IF acc.delta < 0
       THEN [acc EXCEPT !.delta = value, !.value = 0, !.scale = 1]
       ELSE [acc EXCEPT !.ok = @ /\ bucket <= MAX_BUCKET, !.bucket = bucket, !.delta = -1,
                        !.entries = Append(@, [bucket |-> bucket, count |-> value]),
                        !.value = 0, !.scale = 1]

Entries(bytes) ==
    LET read == FoldLeft(ReadByte, Blank0, Tail(bytes))
    IN [read EXCEPT !.ok = @ /\ bytes[1] = 1 /\ read.delta < 0 /\ read.scale = 1]

MergeEncoded(hist, bytes) ==
    LET read == Entries(bytes)
    IN IF read.ok
       THEN FoldLeft(LAMBDA h, e : AddCount(h, e.bucket, e.count), hist, read.entries)
       ELSE hist

Percentile(hist, p) ==
    LET n == FoldSeq(+, 0, hist)
        rank == Most(1, Least(n, (p * n + 99) \div 100))
        upto(i) == FoldSeq(+, 0, SubSeq(hist, 1, i))
    IN Midpoint((CHOOSE i \in DOMAIN hist :
                    upto(i) >= rank /\ \A j \in 1..i - 1 : upto(j) < rank) - 1)

\* The sample that holds the rank, of the samples themselves: tune.rs sorts them.
RankedSample(samples, p) ==
    LET sorted == SortSeq(samples, <)
        n == Len(sorted)
    IN sorted[Least(n, Most(1, (p * n + 99) \div 100))]

RoundUpNice(ms) ==
    LET step == CASE ms < 100 -> 10
                  [] ms \in 100..999 -> 50
                  [] ms \in 1000..9999 -> 100
                  [] ms >= 10000 -> 500
    IN IF ms <= 0 THEN 0 ELSE ((ms + step - 1) \div step) * step

Sampled == trail = <<>> /\ rules = CHOOSE r \in MonitorRules : TRUE

Records(latency) ==
    /\ Sampled /\ Len(window) < MaxSamples
    /\ window' = Append(window, latency)
    /\ counts' = AddCount(counts, BucketOf(latency), 1)
    /\ UNCHANGED <<rules, trail, alarm, told, log>>

Slides ==
    /\ window # <<>>
    /\ window' = Tail(window) /\ counts' = Unrecorded(counts, Head(window))
    /\ UNCHANGED <<rules, trail, alarm, told, log>>

\* The stored histogram of an hour, whole.
MergesHour(samples) ==
    /\ Sampled /\ Len(window) + Len(samples) <= MaxSamples
    /\ window' = window \o samples
    /\ counts' = MergeEncoded(counts, Encode(HistogramOf(samples)))
    /\ UNCHANGED <<rules, trail, alarm, told, log>>

\* Or damaged: of another version, short of its last byte, out of range.
Damaged(bytes) ==
    {[bytes EXCEPT ![1] = 2], Front(bytes), bytes \o Varint(MAX_BUCKET + 1) \o <<1>>}

MergesDamaged(samples) ==
    /\ window # <<>>
    /\ \E bytes \in Damaged(Encode(HistogramOf(samples))) : counts' = MergeEncoded(counts, bytes)
    /\ UNCHANGED <<rules, trail, alarm, told, log, window>>

FiguresInit ==
    /\ rules \in MonitorRules
    /\ trail = <<>> /\ alarm = Loop(1)!Fresh /\ told = {} /\ log = <<>>
    /\ counts = <<>> /\ window = <<>>

FiguresNext ==
    \/ \E outcome \in {"up", "degraded", "down"} : Check(outcome)
    \/ \E latency \in LatenciesSeen : Records(latency)
    \/ Slides
    \/ \E samples \in HoursRolled : MergesHour(samples) \/ MergesDamaged(samples)

(* Properties. *)

\* The loop with another threshold, over the checks so far.
Replayed(threshold) ==
    LET on == [rules EXCEPT !.threshold = threshold]
        step(acc, i) ==
            LET tick == Ticked(acc.state, SubSeq(trail, 1, i), on)
            IN [state |-> tick.state,
                downs |-> acc.downs + (IF "down" \in tick.alerts THEN 1 ELSE 0)]
    IN FoldLeft(step, [state |-> Loop(1)!Fresh, downs |-> 0], [i \in DOMAIN trail |-> i]).downs

\* Where the newest check that answered stands.
AnsweredAt == {t \in DOMAIN trail : trail[t] # "down"}

\* The page is computed from the stored checks, the alerts by a machine that
\* sees each check once, the advice by cutting the history into runs: the
\* three agree.  The page says down only of a monitor whose down was announced
\* and up only of one whose recovery was; a slow answer alone may show before
\* the machine settles.  With slowness not alerted on, the table of another
\* threshold counts the alerts a loop with that threshold would have sent,
\* and with the advised one it would have sent one for every outage and none
\* for a flap.
PageAgreesWithAlerts ==
    /\ PageState = "down" => alarm.level = "down"
    /\ PageState = "up" => alarm.level = "healthy"
    /\ alarm.level = "down" /\ PageState # "down" =>
        rules.alert_on_degraded /\ \E t \in AnsweredAt : t > Now - rules.threshold
    /\ ~rules.alert_on_degraded => \A threshold \in 1..4 :
        AlertsAt(FailureRuns(trail), threshold) = Replayed(threshold)
    /\ LET runs == FailureRuns(trail)
           advice == RecommendThreshold(runs)
       IN advice.recommended # 0 =>
            \A i \in DOMAIN runs :
                \/ runs[i] >= advice.smallest_outage /\ advice.recommended <= runs[i]
                \/ runs[i] <= advice.flap_max /\ advice.recommended > runs[i]

\* The report clips incidents to the part of the month that is over and adds
\* up days: its downtime is the time an incident was open in it, each day's
\* count stands in its own cell, a month within its objective has not spent
\* more than its budget (up to the rounding of the uptime to a basis point),
\* and a bar without a failed check goes with a whole uptime.
ReportIsHonest ==
    /\ Now >= MonthStart =>
        LET report == BuildReport
            down(t) == \E i \in DOMAIN log :
                            log[i].started <= t /\ (log[i].ended = Lasting \/ t < log[i].ended)
        IN /\ report.downtime = Cardinality({t \in MonthStart..CoveredEnd - 1 : down(t)})
           /\ report.mttr >= 0 => report.incidents > 0
           /\ \A day \in DOMAIN report.days :
                report.days[day] = Of("down", {t \in DOMAIN trail :
                    /\ DayOf(t) = DayOf(MonthStart) + day})
           /\ rules.slo # NoGoal /\ report.total > 0 =>
                LET columns == SloColumns(report, rules.slo)
                IN columns.met => columns.consumed <= columns.budget
    /\ LET bar == BuildBar(2)
       IN LongUptime(bar) >= 0 =>
            (LongUptime(bar) = 1000 <=> \A t \in DOMAIN trail :
                                            DayOf(t) \in DOMAIN bar => trail[t] # "down")

\* A page is for a burn that is still on: both lookbacks burned at that check,
\* and between two of them the long one had cooled.
PagesAreOfNow ==
    rules.slo # NoGoal =>
        LET at(t) == SubSeq(trail, 1, t)
            fast == {e \in told : e.what = "burn fast"}
        IN /\ \A e \in fast :
                \A lookback \in {FastLong, FastShort} :
                    BurnOver(at(e.at), lookback, rules.slo) >= FastThreshold
           /\ \A e, f \in fast : e.at < f.at =>
                \E t \in e.at..f.at : BurnOver(at(t), FastLong, rules.slo) < FastThreshold

\* Both: whoever reads the same checks, the page, the loop, the budget's pages
\* or the advice, comes to the same.
ChecksAreReadAlike == PageAgreesWithAlerts /\ PagesAreOfNow

\* Whatever is recorded, slides out or is merged from a stored hour, the
\* histogram is that of the window and nothing of a damaged one is in it; a
\* percentile read from it is within the width of a bucket of the sample that
\* holds the rank, exact where buckets are one millisecond wide, and at most
\* one sample in a hundred is above the threshold advised for slowness.
PercentilesAreClose ==
    /\ counts = HistogramOf(window)
    /\ window # <<>> => \A p \in {50, 95, 99} :
        LET shown == Percentile(counts, p)
            sample == Clamped(RankedSample(window, p))
            apart == Most(shown - sample, sample - shown)
        IN /\ apart * LINEAR_BELOW <= sample
           /\ sample < LINEAR_BELOW => apart = 0
    /\ window # <<>> =>
        100 * Cardinality({i \in DOMAIN window :
                window[i] > RoundUpNice(Most(1, RankedSample(window, 99)))}) <= Len(window)

\* Both: the report's figures are those of the month, the percentiles those of
\* the samples.
FiguresAreHonest == ReportIsHonest /\ PercentilesAreClose
=============================================================================
