---------------------------- MODULE MonitorLoop ----------------------------
(***************************************************************************)
(* The probing loop of each monitor (`run` in scheduler.rs): a tick, the   *)
(* incident bookkeeping, the anti-flap state machine and the alert.  The   *)
(* loop is an async task: it can be aborted by the supervisor at any       *)
(* .await, and the process can die there; `pc` names the .await a task is  *)
(* suspended at, and an action is the code up to the next one.             *)
(*                                                                         *)
(* A task's own variables (state, open_incident, tick) die with it.  The   *)
(* AlertCell belongs to the supervisor and dies with the process.  The     *)
(* incidents table outlives both.                                          *)
(***************************************************************************)
EXTENDS AlertState, AlertMessages

CONSTANTS
    SloMonitors,        \* those with slo_uptime, whose burn rate is evaluated
    AlertOnDegraded,    \* alerts.alert_on_degraded
    MaxFailures,        \* bound: database statements that fail
    MaxAborts,          \* bound: tasks aborted (edited) or panicked
    MaxCrashes,         \* bound: deaths of the process
    MaxInbox,           \* bound: alerts not yet read by the coalescer
    NoState             \* an AlertCell no task has seeded yet

ASSUME MonitorLoopAssumption ==
    /\ SloMonitors \subseteq Monitors
    /\ AlertOnDegraded \in BOOLEAN
    /\ MaxFailures \in Nat /\ MaxAborts \in Nat /\ MaxCrashes \in Nat
    /\ MaxInbox \in Nat \ {0}
    /\ NoState \notin AlertStates

VARIABLES
    pc,             \* pc[m]: the .await the task of m is suspended at
    state,          \* state[m]: the task's AlertState
    open_incident,  \* open_incident[m]: the task holds the newest open incident
    tick,           \* tick[m]: what this tick found
    cell,           \* cell[m]: the AlertCell, NoState until first seeded
    incidents,      \* incidents[m]: the open incidents, oldest first, each
                    \*   with its local_only column
    failures, aborts, crashes   \* how much of each bound is spent

taskVars == <<pc, state, open_incident, tick>>
budget == <<failures, aborts, crashes>>
loopVars == <<taskVars, cell, incidents, inbox, budget>>

Routings == {"unset", "local", "confirmed"}
Awaits == {"attach", "seed", "idle", "close", "burn", "record", "ask",
           "route", "announce", "reask", "tell"}

LoopTypeOK ==
    /\ pc \in [Monitors -> Awaits]
    /\ state \in [Monitors -> AlertStates]
    /\ open_incident \in [Monitors -> BOOLEAN]
    /\ tick \in [Monitors ->
                    [outcome: Outcomes, muted: BOOLEAN, local: BOOLEAN]]
    /\ cell \in [Monitors -> AlertStates \union {NoState}]
    /\ incidents \in [Monitors -> Seq(Routings)]
    /\ inbox \in Seq(AlertMsg)
    /\ failures \in 0..MaxFailures
    /\ aborts \in 0..MaxAborts
    /\ crashes \in 0..MaxCrashes

LoopInit ==
    /\ pc = [m \in Monitors |-> "attach"]
    /\ state = [m \in Monitors |-> Fresh]
    /\ open_incident = [m \in Monitors |-> FALSE]
    /\ tick = [m \in Monitors |->
                  [outcome |-> "up", muted |-> FALSE, local |-> FALSE]]
    /\ cell = [m \in Monitors |-> NoState]
    /\ incidents = [m \in Monitors |-> <<>>]
    /\ inbox = <<>>
    /\ failures = 0 /\ aborts = 0 /\ crashes = 0

---------------------------------------------------------------------------
(* Helpers *)

\* A statement of the database succeeds, or fails and is only logged.
Statement(ok) ==
    /\ ok \/ failures < MaxFailures
    /\ failures' = IF ok THEN failures ELSE failures + 1
    /\ UNCHANGED <<aborts, crashes>>

\* The open incidents of one monitor after each statement on them.
Opened(rows) == Append(rows, "unset")
Closed(rows) == SubSeq(rows, 1, Len(rows) - 1)
\* Mutant: the column is written the wrong way round.
RoutedInverted(rows, local) ==
    [rows EXCEPT ![Len(rows)] = IF local THEN "confirmed" ELSE "local"]

Routed(rows, local) ==
    [rows EXCEPT ![Len(rows)] = IF local THEN "local" ELSE "confirmed"]

\* The task of m goes on to another .await, its cell holding c; or it is done
\* with the tick and has written its state back.
Suspend(m, where, s, c) ==
    /\ pc' = [pc EXCEPT ![m] = where]
    /\ state' = [state EXCEPT ![m] = s]
    /\ cell' = [cell EXCEPT ![m] = c]

\* Mutant: the state is not written back.
SettleUnsaved(m, s) == Suspend(m, "idle", s, cell[m])

Settle(m, s) == Suspend(m, "idle", s, s)

---------------------------------------------------------------------------
(* The start of a task *)

\* Mutant: a task that finds a state in its cell looks no further.
FoundAtStart(m, ok) == ok /\ incidents[m] # <<>> /\ cell[m] = NoState

\* find_open_incident, when the query succeeds.
Found(m, ok) == ok /\ incidents[m] # <<>>

\* A task starts from the state left by the previous one, or from the one an
\* open incident stands for.
Attach(m, ok) ==
    /\ pc[m] = "attach"
    /\ Statement(ok)
    /\ open_incident' = [open_incident EXCEPT ![m] = Found(m, ok)]
    /\ \/ cell[m] # NoState /\ Settle(m, cell[m])
       \/ cell[m] = NoState /\ ~Found(m, ok) /\ Settle(m, Fresh)
       \/ /\ cell[m] = NoState /\ Found(m, ok)
          /\ Suspend(m, "seed", ResumedDown, NoState)
    /\ UNCHANGED <<tick, incidents, inbox>>

\* Mutant: the coalescer's memory stays wiped.
TellsNothing(m, routing) == UNCHANGED inbox

\* The routing of a local-only down is told to the coalescer, whose memory the
\* restart wiped.
TellsRouting(m, routing) ==
    \/ routing = "unset" /\ UNCHANGED inbox
    \/ routing # "unset" /\ Send(ResumedLocalOnly(m, routing = "confirmed"))

\* resume_local_only, once the incident's routing is read.
Seed(m, ok) ==
    LET routing == IF ok THEN incidents[m][Len(incidents[m])] ELSE "unset"
    IN  /\ pc[m] = "seed"
        /\ Statement(ok)
        /\ Settle(m, [state[m] EXCEPT !.local_only_asked = (routing = "local")])
        /\ TellsRouting(m, routing)
        /\ UNCHANGED <<open_incident, tick, incidents>>

---------------------------------------------------------------------------
(* The reaction to an unmuted outcome, once the incident is dealt with.  It *)
(* is the end of the actions that lead to it: s is the task's state, c what *)
(* the cell holds until the task settles.                                   *)

\* Mutant: the peers are asked before anything is recorded.
AskUnrecorded(m) == "ask"

\* The incident is opened first, unless the task holds one already.
Confirmation(m) == IF open_incident[m] THEN "ask" ELSE "record"

ReactDown(m, s, c) ==
    LET seen == ObserveDown(s)
    IN  /\ \/ /\ ConfirmsDown(seen)
              /\ Suspend(m, Confirmation(m), seen, c)
           \/ AwaitsPeers(seen) /\ Suspend(m, "reask", seen, c)
           \/ ~ConfirmsDown(seen) /\ Settle(m, seen)
        /\ UNCHANGED inbox

ReactDegraded(m, s, c) ==
    LET seen == ObserveDegraded(s)
    IN  /\ \/ ConfirmsDegraded(seen) /\ Suspend(m, "tell", seen, c)
           \/ ~ConfirmsDegraded(seen) /\ Settle(m, seen)
        /\ UNCHANGED inbox

ReactUp(m, s) ==
    LET seen == ObserveUp(s)
    IN  \/ /\ EndsAlert(seen)
           /\ Send(Recovered(m))
           /\ Settle(m, [seen EXCEPT !.level = "healthy"])
        \/ ~EndsAlert(seen) /\ Settle(m, seen) /\ UNCHANGED inbox

React(m, outcome, s, c) ==
    \/ outcome = "down" /\ ReactDown(m, s, c)
    \/ outcome = "degraded" /\ AlertOnDegraded /\ ReactDegraded(m, s, c)
    \/ outcome = "degraded" /\ ~AlertOnDegraded /\ ReactUp(m, s)
    \/ outcome = "up" /\ ReactUp(m, s)

BurnDue(m, outcome) ==
    m \in SloMonitors /\ (outcome = "down" \/ state[m].burn # {})

\* A muted tick stops here; the checks are recorded, the alerts are not moved.
Judge(m, outcome, muted) ==
    \/ muted /\ Suspend(m, "idle", state[m], cell[m]) /\ UNCHANGED inbox
    \/ /\ ~muted /\ BurnDue(m, outcome)
       /\ Suspend(m, "burn", state[m], cell[m]) /\ UNCHANGED inbox
    \/ ~muted /\ ~BurnDue(m, outcome) /\ React(m, outcome, state[m], cell[m])

---------------------------------------------------------------------------
(* The tick *)

\* One outcome, and whether maintenance or a silence mutes this tick.  Any up
\* tick first takes the open incident, to close it.  A tick without outcome
\* (a push monitor inside its first window) changes nothing.
Tick(m, outcome, muted) ==
    /\ pc[m] = "idle"
    /\ Len(inbox) < MaxInbox
    /\ tick' = [tick EXCEPT ![m].outcome = outcome, ![m].muted = muted]
    /\ \/ /\ IsUp(outcome) /\ open_incident[m]
          /\ Suspend(m, "close", state[m], cell[m])
          /\ open_incident' = [open_incident EXCEPT ![m] = FALSE]
          /\ UNCHANGED inbox
       \/ /\ ~(IsUp(outcome) /\ open_incident[m])
          /\ Judge(m, outcome, muted)
          /\ UNCHANGED open_incident
    /\ UNCHANGED <<incidents, budget>>

\* close_open_incident: the row is closed, or the failure logged.
Close(m, ok) ==
    /\ pc[m] = "close"
    /\ Statement(ok)
    /\ incidents' = IF ok THEN [incidents EXCEPT ![m] = Closed(@)] ELSE incidents
    /\ Judge(m, tick[m].outcome, tick[m].muted)
    /\ UNCHANGED <<open_incident, tick>>

\* The burn windows hotter than their threshold; unreadable ones are not.
Windows == [hour: BOOLEAN, five_minutes: BOOLEAN,
            six_hours: BOOLEAN, half_hour: BOOLEAN]

Cooled(burn, hot) ==
    (burn \ IF hot.hour THEN {} ELSE {"fast"})
          \ IF hot.six_hours THEN {} ELSE {"slow"}

\* evaluate_burn: a page is edge-triggered and re-arms when its long window
\* cools.
EvaluateBurn(burn, hot) ==
    IF hot.hour /\ hot.five_minutes
    THEN IF "fast" \in burn THEN burn ELSE {"fast", "slow"}
    ELSE Cooled(burn, hot)
           \union IF hot.six_hours /\ hot.half_hour THEN {"slow"} ELSE {}

Burn(m, hot) ==
    LET s == [state[m] EXCEPT !.burn = EvaluateBurn(@, hot)]
    IN  /\ pc[m] = "burn"
        /\ React(m, tick[m].outcome, s, s)
        /\ UNCHANGED <<open_incident, tick, incidents, budget>>

---------------------------------------------------------------------------
(* confirm_down and reconfirm_local_down *)

\* The incident is recorded before the peers are asked; a failed insert never
\* blocks the alert.
Record(m, ok) ==
    /\ pc[m] = "record"
    /\ Statement(ok)
    /\ incidents' = IF ok THEN [incidents EXCEPT ![m] = Opened(@)] ELSE incidents
    /\ open_incident' = [open_incident EXCEPT ![m] = ok]
    /\ pc' = [pc EXCEPT ![m] = "ask"]
    /\ UNCHANGED <<state, tick, cell, inbox>>

\* The peers' answer about a down just confirmed.
Ask(m, local) ==
    /\ pc[m] = "ask"
    /\ tick' = [tick EXCEPT ![m].local = local]
    /\ pc' = [pc EXCEPT ![m] =
                 IF local /\ open_incident[m] THEN "route" ELSE "announce"]
    /\ UNCHANGED <<state, open_incident, cell, incidents, inbox, budget>>

\* Their answer about a local-only down that lasts.
AskAgain(m, local) ==
    /\ pc[m] = "reask"
    /\ tick' = [tick EXCEPT ![m].local = local]
    /\ \/ local /\ Settle(m, state[m])
       \/ /\ ~local
          /\ Suspend(m, IF open_incident[m] THEN "route" ELSE "announce",
                     state[m], cell[m])
    /\ UNCHANGED <<open_incident, incidents, inbox, budget>>

\* record_routing: how the down is about to be routed.
Route(m, ok) ==
    /\ pc[m] = "route"
    /\ Statement(ok)
    /\ incidents' = IF ok THEN [incidents EXCEPT ![m] = Routed(@, tick[m].local)]
                          ELSE incidents
    /\ pc' = [pc EXCEPT ![m] = "announce"]
    /\ UNCHANGED <<state, open_incident, tick, cell, inbox>>

\* Mutant: the alert is sent, the cell written at the end of a later tick.
AnnounceUnsaved(m) ==
    /\ pc[m] = "announce"
    /\ Send(Down(m, tick[m].local))
    /\ Suspend(m, "idle", [state[m] EXCEPT !.level = "down"], cell[m])
    /\ UNCHANGED <<open_incident, tick, incidents, budget>>

\* The alert is handed to the coalescer and the state written back, with no
\* .await in between.
Announce(m) ==
    /\ pc[m] = "announce"
    /\ Send(Down(m, tick[m].local))
    /\ Settle(m, [state[m] EXCEPT !.level = "down",
                                  !.local_only_asked = tick[m].local])
    /\ UNCHANGED <<open_incident, tick, incidents, budget>>

\* alert_degraded has dispatched the event itself, past the coalescer.
Tell(m) ==
    /\ pc[m] = "tell"
    /\ Settle(m, [state[m] EXCEPT !.level = "degraded"])
    /\ UNCHANGED <<open_incident, tick, incidents, inbox, budget>>

---------------------------------------------------------------------------
(* Interruptions *)

\* The rows of m if the statement its task is waiting for is still executed.
Interrupted(m) ==
    CASE pc[m] = "close" -> Closed(incidents[m])
      [] pc[m] = "record" -> Opened(incidents[m])
      [] pc[m] = "route" -> Routed(incidents[m], tick[m].local)
      [] OTHER -> incidents[m]

\* The supervisor aborts the task (the monitor was edited) or finds it
\* panicked, and starts another: the cell survives.
Abort(m, executed) ==
    /\ aborts < MaxAborts
    /\ aborts' = aborts + 1
    /\ pc' = [pc EXCEPT ![m] = "attach"]
    /\ open_incident' = [open_incident EXCEPT ![m] = FALSE]
    /\ incidents' = IF executed THEN [incidents EXCEPT ![m] = Interrupted(m)]
                                ELSE incidents
    /\ state' = [state EXCEPT ![m] = Fresh]
    /\ UNCHANGED <<tick, cell, inbox, failures, crashes>>

\* The process dies and starts again: only the database survives.
Crash(executed) ==
    /\ crashes < MaxCrashes
    /\ crashes' = crashes + 1
    /\ pc' = [m \in Monitors |-> "attach"]
    /\ state' = [m \in Monitors |-> Fresh]
    /\ open_incident' = [m \in Monitors |-> FALSE]
    /\ cell' = [m \in Monitors |-> NoState]
    /\ incidents' = [m \in Monitors |->
                        IF m \in executed THEN Interrupted(m) ELSE incidents[m]]
    /\ inbox' = <<>>
    /\ UNCHANGED <<tick, failures, aborts>>

---------------------------------------------------------------------------

\* What the task of m does by itself.
Step(m) ==
    \/ \E ok \in BOOLEAN :
          Attach(m, ok) \/ Seed(m, ok) \/ Close(m, ok) \/ Record(m, ok) \/ Route(m, ok)
    \/ \E outcome \in Outcomes, muted \in BOOLEAN : Tick(m, outcome, muted)
    \/ \E hot \in Windows : Burn(m, hot)
    \/ \E local \in BOOLEAN : Ask(m, local) \/ AskAgain(m, local)
    \/ Announce(m)
    \/ Tell(m)

Interruption ==
    \/ \E m \in Monitors, executed \in BOOLEAN : Abort(m, executed)
    \/ \E executed \in SUBSET Monitors : Crash(executed)

LoopNext == (\E m \in Monitors : Step(m)) \/ Interruption

\* The runtime keeps scheduling a task that is ready, and time passes: a
\* local-only down that lasts is due for another question again and again.
LoopFairness ==
    \A m \in Monitors :
        /\ WF_loopVars(Step(m))
        /\ SF_loopVars(Step(m) /\ pc'[m] = "reask")
===========================================================================
