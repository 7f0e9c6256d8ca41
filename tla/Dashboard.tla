----------------------------- MODULE Dashboard ------------------------------
(***************************************************************************)
(* `hora top` (crates/hora/src/top): the dashboard over the API.  The UI   *)
(* loop never waits: keys, the ticker, the sparkline's timer and finished  *)
(* fetches are taken in any order, every request runs as a task of its own *)
(* and reports through a channel.  The server goes on meanwhile: its       *)
(* monitors change, it refuses, it is slow.                                *)
(***************************************************************************)
EXTENDS Integers, Sequences, FiniteSets, SequencesExt

CONSTANTS
    Sessions,   \* the lists of monitors the server may show, as sequences, the first
                \*   one shown; bounds: reloads of the server, writes typed
    Nothing,    \* no monitor, no summary, no input
    Slots       \* the results channel holds no more (8 in the code)

\* What a session's server may list, and a summary of it as it is shown.
Listed(s) == s.rows \cup {s.first}
Summaries(s) == [rows : Listed(s), ver : 0..s.reloads]

ASSUME DashboardAssumption ==
    \A s \in Sessions :
        /\ s.reloads \in Nat /\ \A rows \in Listed(s) : rows \in Seq(ToSet(rows))
        /\ Nothing \notin Summaries(s)

VARIABLES
    session,
    app,        \* App, with the loop's spark_due and the silence aimed at by `s`
    tasks,      \* the fetches spawned and not finished nor aborted
    results,    \* the channel to the loop
    server,     \* its monitors, and how often they changed
    handed,     \* the writes handed to the fetcher, in order
    performed   \* the writes the server did, in order

dashboardVars == <<session, app, tasks, results, server, handed, performed>>

---------------------------------------------------------------------------
(* The app *)

IsOn == app.loop = "on"

SelectedIn(summary, row) ==
    IF summary = Nothing \/ row > Len(summary.rows) THEN Nothing ELSE summary.rows[row]
Selected == SelectedIn(app.summary, app.row)

\* select_delta: up or down, around the ends.
SelectDelta(delta) ==
    LET count == IF app.summary = Nothing THEN 0 ELSE Len(app.summary.rows)
    IN IF count = 0 THEN app.row ELSE ((app.row - 1 + delta) % count) + 1

---------------------------------------------------------------------------
(* The fetcher: at most one task per kind. *)

InFlight(kind) == \E t \in tasks : t.kind = kind
Task(kind, what) == [kind |-> kind, what |-> what, pc |-> "asked", answer |-> Nothing]

\* (mutated: a fetch is started whatever is already running)
WithAnother == tasks \cup {Task("summary", Nothing)}
WithSummary == IF InFlight("summary") THEN tasks ELSE tasks \cup {Task("summary", Nothing)}

\* A task that has sent its result is aborted too late.
WithSpark(id) == {t \in tasks : t.kind # "spark"} \cup {Task("spark", id)}

\* start_action: refused up front without a token, or behind another action.
StartAction(write) ==
    IF app.token /\ ~InFlight("action") /\ Len(handed) < session.writes
    THEN /\ tasks' = tasks \cup {Task("action", write)}
         /\ handed' = Append(handed, [write EXCEPT !.id = IF write.kind = "silence"
                                                        THEN app.aimed ELSE Nothing])
    ELSE UNCHANGED <<tasks, handed>>

---------------------------------------------------------------------------
(* The loop *)

ServerRests == UNCHANGED <<results, server, performed>>

TopTick ==
    /\ IsOn
    /\ tasks' = IF app.cooling THEN tasks ELSE WithSummary
    /\ UNCHANGED <<app, handed>> /\ ServerRests

\* The deadline of the back-off passes.
CooldownEnds ==
    /\ IsOn /\ app.cooling
    /\ app' = [app EXCEPT !.cooling = FALSE]
    /\ UNCHANGED <<tasks, handed>> /\ ServerRests

SparkTimer ==
    /\ IsOn /\ app.sparkDue
    /\ app' = [app EXCEPT !.sparkDue = FALSE]
    /\ tasks' = IF Selected = Nothing THEN tasks ELSE WithSpark(Selected)
    /\ UNCHANGED handed /\ ServerRests

Moves(delta) ==
    /\ IsOn /\ app.input = Nothing
    /\ app' = [app EXCEPT !.row = SelectDelta(delta), !.spark = Nothing, !.sparkDue = TRUE]
    /\ UNCHANGED <<tasks, handed>> /\ ServerRests

\* `a`, or `s` on a monitor: the bar keeps the monitor it is opened for.
OpensBar ==
    /\ IsOn /\ app.input = Nothing
    /\ \/ app' = [app EXCEPT !.input = [kind |-> "announce", id |-> Nothing]]
       \/ /\ Selected # Nothing
          /\ app' = [app EXCEPT !.input = [kind |-> "silence", id |-> Selected],
                                !.aimed = Selected]
    /\ UNCHANGED <<tasks, handed>> /\ ServerRests

\* Enter takes the bar; what was typed makes an action, or is invalid.
Submits ==
    /\ IsOn /\ app.input # Nothing
    /\ app' = [app EXCEPT !.input = Nothing, !.aimed = Nothing]
    /\ StartAction(app.input) \/ UNCHANGED <<tasks, handed>>
    /\ ServerRests

Escapes ==
    /\ IsOn /\ app.input # Nothing
    /\ app' = [app EXCEPT !.input = Nothing, !.aimed = Nothing]
    /\ UNCHANGED <<tasks, handed>> /\ ServerRests

\* `C`: the announcements are cleared.
Clears ==
    /\ IsOn /\ app.input = Nothing
    /\ StartAction([kind |-> "clear", id |-> Nothing])
    /\ UNCHANGED app /\ ServerRests

\* apply: a summary is folded in, the selection kept on its monitor.
ApplySummary(answer) ==
    IF answer.status = "ok"
    THEN LET at == {i \in DOMAIN answer.rows : answer.rows[i] = Selected}
             row == IF Selected = Nothing THEN app.row
                    ELSE IF at = {} THEN 1
                    ELSE CHOOSE i \in at : TRUE
             summary == [rows |-> answer.rows, ver |-> answer.ver]
             now == SelectedIn(summary, row)
         IN /\ app' = [app EXCEPT !.summary = summary, !.row = row]
            /\ tasks' = IF now = Nothing THEN tasks ELSE WithSpark(now)
    ELSE /\ app' = [app EXCEPT !.cooling = @ \/ answer.status = "limited"]
         /\ UNCHANGED tasks

ApplySpark(id, answer) ==
    /\ app' = IF Selected = id
              THEN [app EXCEPT !.spark = IF answer.status = "ok" THEN id ELSE Nothing]
              ELSE app
    /\ UNCHANGED tasks

ApplyAction == tasks' = WithSummary /\ UNCHANGED app

Apply ==
    /\ IsOn /\ results # <<>>
    /\ results' = Tail(results)
    /\ LET done == Head(results)
       IN CASE done.kind = "summary" -> ApplySummary(done.answer)
            [] done.kind = "spark" -> ApplySpark(done.what, done.answer)
            [] done.kind = "action" -> ApplyAction
    /\ UNCHANGED <<server, handed, performed>>

\* `q`, Esc, Ctrl-C: the fetcher is dropped, and what is in flight abandoned.
Quits ==
    /\ IsOn
    /\ app' = [app EXCEPT !.loop = "off"]
    /\ tasks' = {}
    /\ UNCHANGED handed /\ ServerRests

---------------------------------------------------------------------------
(* The tasks and the server *)

Becomes(t, pc, answer) == tasks' = (tasks \ {t}) \cup {[t EXCEPT !.pc = pc, !.answer = answer]}

\* The server answers with what it shows at this moment, or does what is asked.
Serves(t) ==
    /\ t.pc = "asked" /\ t.kind # "spark"
    /\ Becomes(t, "answered",
               IF t.kind = "summary"
               THEN [status |-> "ok", rows |-> server.rows, ver |-> server.reloads]
               ELSE [status |-> "ok"])
    /\ performed' = IF t.kind = "action" THEN Append(performed, t.what) ELSE performed
    /\ UNCHANGED <<app, results, server, handed>>

\* A refusal, a rate limit; no answer in time, though a write may have been done.
Refuses(t) ==
    /\ t.pc = "asked" /\ t.kind # "spark"
    /\ \E status \in IF t.kind = "summary" THEN {"limited", "error"} ELSE {"error"} :
          Becomes(t, "answered", [status |-> status])
    /\ \/ UNCHANGED performed
       \/ t.kind = "action" /\ performed' = Append(performed, t.what)
    /\ UNCHANGED <<app, results, server, handed>>

\* A latency series comes as it is.  tx.send waits for a slot; what an abort finds afterwards has ended.
Reports(t) ==
    /\ Len(results) < Slots
    /\ \E answer \in IF t.kind = "spark" THEN [status : {"ok", "error"}] ELSE {t.answer} :
          /\ answer # Nothing
          /\ results' = Append(results, [kind |-> t.kind, what |-> t.what, answer |-> answer])
    /\ tasks' = tasks \ {t}
    /\ UNCHANGED <<app, server, handed, performed>>

\* A reload of the server changes the list.
ServerReloads ==
    /\ IsOn /\ server.reloads < session.reloads
    /\ \E rows \in session.rows \ {server.rows} :
          server' = [rows |-> rows, reloads |-> server.reloads + 1]
    /\ UNCHANGED <<app, tasks, results, handed, performed>>

---------------------------------------------------------------------------

DashboardInit ==
    /\ session \in Sessions
    /\ \E loop \in {"on", "none"}, token \in BOOLEAN :
          app = [loop |-> loop, token |-> token, summary |-> Nothing, row |-> 1,
                 spark |-> Nothing, sparkDue |-> FALSE, input |-> Nothing, aimed |-> Nothing,
                 cooling |-> FALSE]
    /\ server = [rows |-> session.first, reloads |-> 0]
    /\ tasks = {} /\ results = <<>> /\ handed = <<>> /\ performed = <<>>

DashboardNext ==
    /\ UNCHANGED session
    /\ \/ TopTick \/ CooldownEnds \/ SparkTimer
       \/ \E delta \in {-1, 1} : Moves(delta)
       \/ OpensBar \/ Submits \/ Escapes \/ Clears \/ Apply \/ Quits \/ ServerReloads
       \/ \E t \in tasks : Serves(t) \/ Refuses(t) \/ Reports(t)

---------------------------------------------------------------------------
(* Properties *)

\* The selection stays on its monitor while that is listed, wherever a refresh
\* moves it; nothing shown is replaced by something the server said earlier.
SelectionIsKept ==
    /\ Selected' # Selected =>
          \/ Selected = Nothing
          \/ app'.sparkDue /\ app'.summary = app.summary
          \/ Selected \notin ToSet(app'.summary.rows)
    /\ app.summary # Nothing => app'.summary.ver >= app.summary.ver

\* A silence is of the monitor that was highlighted when its bar was opened; the
\* writes reach the server in the order handed, each at most once, and one that
\* is told done was done.
WritesAreMeant ==
    /\ \E kept \in SUBSET DOMAIN handed :
          performed = [i \in 1..Cardinality(kept) |->
                         handed[CHOOSE k \in kept : Cardinality({j \in kept : j <= k}) = i]]
    /\ \A i \in DOMAIN results :
          results[i].kind = "action" /\ results[i].answer.status = "ok"
            => results[i].what \in ToSet(performed)

\* The sparkline shown is of the selected monitor, or one is about to be: when the
\* monitor it was of left the list, the next's is at hand.
SparkIsOfTheSelected ==
    IsOn /\ app.spark # Nothing /\ Selected # Nothing =>
        \/ app.spark = Selected
        \/ \E t \in tasks : t.kind = "spark" /\ t.what = Selected
        \/ \E i \in DOMAIN results : results[i].kind = "spark" /\ results[i].what = Selected

\* ScreenIsTrue: what hora top shows and sends is what the operator sees and means.
ScreenIsTrue ==
    [][SelectionIsKept /\ WritesAreMeant' /\ SparkIsOfTheSelected']_dashboardVars
=============================================================================
