----------------------------- MODULE Heartbeat -----------------------------
(***************************************************************************)
(* Heartbeats (heartbeat.rs, db/checks.rs): the rows a push monitor (or a  *)
(* watched peer) and its watcher write, one a second, and the watcher's    *)
(* judgement: is the job late for a run of its schedule, or silent for     *)
(* longer than its interval?                                               *)
(***************************************************************************)
EXTENDS Integers, FiniteSetsExt

CONSTANTS
    Runs,          \* the runs of the cron schedule, in seconds
    Grace,         \* how late a heartbeat may be for a run
    Interval,      \* the interval of a monitor without a schedule
    LastSecond,    \* bound: the clock
    MaxPushes,     \* bound: heartbeats received
    MaxBeatFaults  \* bound: statements that fail, restarts

ASSUME HeartbeatAssumption ==
    /\ Runs \subseteq Nat
    /\ {Grace, Interval, LastSecond, MaxPushes, MaxBeatFaults} \subseteq Nat

VARIABLES
    clock,       \* the wall clock
    cadence,     \* "cron" or "every"
    rows,        \* checks: what each second holds, at most one row
    expected,    \* heartbeat_expected:<id> in meta, NotYet without a row
    watch,       \* the watcher's task: [pc, expected, now] and its last verdict
    pushed,      \* history: the last push of each second
    firstWatch,  \* history: when a task first watched the monitor
    blind,       \* history: that moment was not read, or not stored
    pushes, beatFaults  \* bound counters

beatVars == <<clock, cadence, rows, expected, watch, pushed, firstWatch, blind, pushes, beatFaults>>

NotYet == -1
Seconds == 0..LastSecond
Statuses == {"up", "down"}
NoRow == [source |-> "none", status |-> "down"]
MissRow == [source |-> "miss", status |-> "down"]
PushRow(status) == [source |-> "push", status |-> status]
NotRunning == [pc |-> "off", expected |-> NotYet, now |-> 0, verdict |-> "unknown"]
BetweenTicks(w) == [NotRunning EXCEPT !.pc = "idle", !.expected = w.expected]

\* The first second may hold a row older than the source column.
OldRows == {NoRow, [source |-> "probe", status |-> "up"]}

HeartbeatInit ==
    /\ clock = 0 /\ cadence \in {"cron", "every"}
    /\ \E first \in OldRows :
          rows = [s \in Seconds |-> IF s = 0 THEN first ELSE NoRow]
    /\ expected = NotYet /\ watch = NotRunning
    /\ pushed = [s \in Seconds |-> "none"]
    /\ firstWatch = NotYet /\ blind = FALSE /\ pushes = 0 /\ beatFaults = 0

BeatFault == beatFaults < MaxBeatFaults /\ beatFaults' = beatFaults + 1

SecondPasses ==
    /\ clock < LastSecond /\ clock' = clock + 1
    /\ UNCHANGED <<cadence, rows, expected, watch, pushed, firstWatch, blind, pushes, beatFaults>>

---------------------------------------------------------------------------
(* The rows *)

\* Mutant: a miss overwrites the second it shares with a push.
LastWins(held, row) == row

\* A push overwrites what holds its second; a miss never does.
Kept(held, row) == IF row.source = "push" \/ held = NoRow THEN row ELSE held

InsertRow(row) == rows' = [rows EXCEPT ![clock] = Kept(@, row)]

\* Mutant: a recorded miss reads as a heartbeat.
AnyRow(row) == row # NoRow

\* A row without a source counts unless it is down.
IsHeartbeat(row) == row.source = "push" \/ (row.source = "probe" /\ row.status # "down")

Beats == {s \in Seconds : IsHeartbeat(rows[s])}
LastBeat == IF Beats = {} THEN NotYet ELSE Max(Beats)

Push ==
    /\ pushes < MaxPushes /\ pushes' = pushes + 1
    /\ \E status \in Statuses :
          InsertRow(PushRow(status)) /\ pushed' = [pushed EXCEPT ![clock] = status]
    /\ UNCHANGED <<clock, cadence, expected, watch, firstWatch, blind, beatFaults>>

---------------------------------------------------------------------------
(* The cadence *)

\* Mutant: the allowance is the whole grace, whatever the gap between runs.
WholeGrace(next, after) == Grace

\* How early a heartbeat may be for a run.
Early(next, after) == Min({Grace, (after - next) \div 2})

RunsAfter(s) == {r \in Runs : r > s}

\* cron_due: the run the heartbeat after `last` must answer, NotYet without.
CronDue(last, seen) ==
    IF RunsAfter(last) = {} THEN NotYet
    ELSE LET next == Min(RunsAfter(last))
             after == IF RunsAfter(next) = {} THEN next ELSE Min(RunsAfter(next))
         IN IF seen /\ after # next /\ next - last <= Early(next, after) THEN after ELSE next

Overdue(since, seen, now) ==
    IF cadence = "every" THEN now - since > Interval
    ELSE LET due == CronDue(since, seen) IN due # NotYet /\ now > due + Grace

---------------------------------------------------------------------------
(* The watcher *)

\* The task starts: when a heartbeat was first expected, stored the first time.
StartWatch ==
    /\ watch.pc = "off"
    /\ firstWatch' = IF firstWatch = NotYet THEN clock ELSE firstWatch
    /\ LET since == IF expected = NotYet THEN clock ELSE expected IN
       /\ watch' = [NotRunning EXCEPT !.pc = "idle", !.expected = since]
       /\ \/ expected' = since /\ UNCHANGED <<blind, beatFaults>>
          \/ expected = NotYet /\ BeatFault /\ blind' = TRUE /\ UNCHANGED expected
    /\ UNCHANGED <<clock, cadence, rows, pushed, pushes>>

\* The stored moment cannot be read: this start, and nothing is stored.
StartBlind ==
    /\ watch.pc = "off" /\ BeatFault
    /\ firstWatch' = IF firstWatch = NotYet THEN clock ELSE firstWatch
    /\ watch' = [NotRunning EXCEPT !.pc = "idle", !.expected = clock]
    /\ blind' = TRUE
    /\ UNCHANGED <<clock, cadence, rows, expected, pushed, pushes>>

\* A tick takes the time before it reads the rows; it reads them once the
\* database answers.
TakeTime ==
    /\ watch.pc = "idle"
    /\ watch' = [watch EXCEPT !.pc = "judging", !.now = clock]
    /\ UNCHANGED <<clock, cadence, rows, expected, pushed, firstWatch, blind, pushes, beatFaults>>

\* The job's own word when it is on time.
Verdict(last, now) ==
    LET since == IF last = NotYet THEN watch.expected ELSE last IN
    IF Overdue(since, last # NotYet, now) THEN "overdue"
    ELSE IF last = NotYet THEN "unknown" ELSE rows[last].status

Judge ==
    /\ watch.pc = "judging"
    /\ LET verdict == Verdict(LastBeat, watch.now) IN
       watch' = [watch EXCEPT !.verdict = verdict,
                              !.pc = IF verdict = "overdue" THEN "missed" ELSE "judged"]
    /\ UNCHANGED <<clock, cadence, rows, expected, pushed, firstWatch, blind, pushes, beatFaults>>

\* The miss takes the time again: a push may have come since.
RecordMiss ==
    /\ watch.pc = "missed"
    /\ \/ InsertRow(MissRow) /\ UNCHANGED beatFaults
       \/ BeatFault /\ UNCHANGED rows
    /\ watch' = BetweenTicks(watch)
    /\ UNCHANGED <<clock, cadence, expected, pushed, firstWatch, blind, pushes>>

Judged ==
    /\ watch.pc = "judged"
    /\ watch' = BetweenTicks(watch)
    /\ UNCHANGED <<clock, cadence, rows, expected, pushed, firstWatch, blind, pushes, beatFaults>>

\* The rows cannot be read: nothing to react to.
Unread ==
    /\ watch.pc = "judging" /\ BeatFault
    /\ watch' = BetweenTicks(watch)
    /\ UNCHANGED <<clock, cadence, rows, expected, pushed, firstWatch, blind, pushes>>

\* A crash, or a reload that replaces the task.
StopWatch ==
    /\ watch.pc # "off" /\ BeatFault
    /\ watch' = NotRunning
    /\ UNCHANGED <<clock, cadence, rows, expected, pushed, firstWatch, blind, pushes>>

HeartbeatNext ==
    \/ SecondPasses \/ Push \/ StartWatch \/ StartBlind \/ TakeTime \/ Judge
    \/ RecordMiss \/ Judged \/ Unread \/ StopWatch

---------------------------------------------------------------------------
(* Properties *)

\* What counts for a run: a heartbeat, no earlier than the grace or half the
\* gap to the next run.  Pushes are counted here, not rows.
Heard == {s \in Seconds : pushed[s] # "none"} \cup (Beats \cap {0})
Answers(s, run) ==
    s >= run - (IF RunsAfter(run) = {} THEN 0 ELSE Min({Grace, (Min(RunsAfter(run)) - run) \div 2}))
Lapsed(run, now) == firstWatch < run /\ run + Grace < now

\* An on-time verdict means that every run whose grace is over was answered,
\* or, without a schedule, that a heartbeat came within the interval: no run
\* is swallowed by a heartbeat that was early for it, no silence by the misses
\* recorded during it, a restart does not push the deadline back.  Exempt: a
\* start whose expectation could not be read or stored.
RunIsNotSwallowed ==
    (watch.pc = "judged" /\ ~blind) =>
        IF cadence = "cron"
        THEN \A run \in Runs : Lapsed(run, watch.now) => \E s \in Heard : Answers(s, run)
        ELSE \E s \in Heard \cup {firstWatch} : watch.now - s <= Interval

\* What heartbeat.rs says of the allowance: "capped at half the gap between runs
\* so a frequent schedule can never skip a real run this way".  A heartbeat for
\* one run does not count for the next: it is more than half of the gap between
\* the two away from it.
RunsBefore(run) == {r \in Runs : r < run}
NoRunIsSkipped ==
    (watch.pc = "judged" /\ ~blind /\ cadence = "cron") =>
        \A run \in Runs : Lapsed(run, watch.now) /\ RunsBefore(run) # {} =>
            \E s \in Heard : 2 * (run - s) <= run - Max(RunsBefore(run))

\* A late verdict is never given while a heartbeat that answers every lapsed
\* run, or came within the interval, had been received when the tick began;
\* and each second that received a push keeps its last one, whatever the
\* watcher recorded in the same second.
PushWins ==
    /\ \A s \in Seconds : pushed[s] # "none" => rows[s] = PushRow(pushed[s])
    /\ watch.pc = "missed" =>
        IF cadence = "cron"
        THEN \E run \in Runs : run + Grace < watch.now /\ \A s \in Heard : s >= watch.now \/ s < run
        ELSE \A s \in Heard : s >= watch.now \/ watch.now - s > Interval

\* Neither verdict is given by mistake.
VerdictIsEarned == RunIsNotSwallowed /\ PushWins
=============================================================================
