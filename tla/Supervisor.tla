----------------------------- MODULE Supervisor -----------------------------
(***************************************************************************)
(* The supervisor (supervisor.rs): the configuration is read again when    *)
(* its file changes or on SIGHUP, and the tasks of one kind (`Fleet`:      *)
(* monitors, or watched peers) are reconciled with it; a task that         *)
(* panicked is found and restarted; at shutdown every task is awaited.     *)
(*                                                                         *)
(* The file is edited, and its watcher calls back, while the supervisor    *)
(* runs: an action is its code up to the next read of either.  A text is   *)
(* a value and Parsed what config::parse makes of it.                      *)
(***************************************************************************)
EXTENDS Naturals

CONSTANTS
    Ids,            \* the ids a configuration may name
    Texts,          \* what the file may contain
    Parsed,         \* Parsed[t][m]: the spec of m, or absent; or Invalid
    Invalid,
    Capacity,       \* the reload signals the channel holds
    MaxEdits,       \* bound: changes of the file
    MaxPanics       \* bound: tasks that panic

Specs == UNION {{Parsed[t][m] : m \in Ids} : t \in {u \in Texts : Parsed[u] # Invalid}}

ASSUME SupervisorAssumption ==
    /\ \A t \in Texts : Parsed[t] # Invalid => Parsed[t] \in [Ids -> Specs]
    /\ "absent" \in Specs
    /\ Capacity \in Nat \ {0} /\ MaxEdits \in Nat /\ MaxPanics \in Nat
    /\ "missing" \notin Texts

VARIABLES
    disk,           \* the text of the file, or "missing"
    config,         \* the configuration in force (`tx`)
    last_raw,       \* the text last applied
    sup,            \* where the supervisor is
    signals,        \* the reload signals not yet received
    event,          \* a change of the file is on its way to the watcher
    running,        \* running[m]: the task of m, or NoTask
    alert_states,   \* alert_states[m]: the AlertCell of m
    shutdown,       \* the shutdown signal
    unwatched,      \* the last change of the file escaped the watcher (history)
    edits, panics   \* how much of each bound is spent

file == <<disk, event, unwatched, edits>>
fleet == <<running, alert_states>>
supervisorVars ==
    <<file, config, last_raw, sup, signals, fleet, shutdown, panics>>

Tasks == [spec: Specs \ {"absent"}, alive: BOOLEAN, told: BOOLEAN, turn: BOOLEAN]
NoTask == [spec |-> "absent", alive |-> FALSE, told |-> FALSE, turn |-> FALSE]

SupervisorTypeOK ==
    /\ disk \in Texts \union {"missing"}
    /\ config \in [Ids -> Specs]
    /\ last_raw \in Texts \union {"missing"}
    /\ sup \in {"loaded", "started", "remembering", "selecting", "settling",
                "reading", "reaping", "draining", "done"}
    /\ signals \in 0..Capacity
    /\ running \in [Ids -> Tasks \union {NoTask}]
    /\ alert_states \in [Ids -> {"none", "empty", "seeded"}]
    /\ event \in BOOLEAN /\ shutdown \in BOOLEAN /\ unwatched \in BOOLEAN
    /\ edits \in 0..MaxEdits /\ panics \in 0..MaxPanics

\* `serve` has loaded a valid configuration.
Init ==
    /\ disk \in {t \in Texts : Parsed[t] # Invalid}
    /\ config = Parsed[disk] /\ last_raw = "missing"
    /\ sup = "loaded" /\ signals = 0
    /\ running = [m \in Ids |-> NoTask]
    /\ alert_states = [m \in Ids |-> "none"]
    /\ event = FALSE /\ shutdown = FALSE /\ unwatched = FALSE
    /\ edits = 0 /\ panics = 0

---------------------------------------------------------------------------
(* The fleet *)

\* Mutant: a task is kept for its id.
KeptById(task, spec) == task # NoTask /\ spec # "absent"

\* Mutant: a reload restarts everything.
KeptNever(task, spec) == FALSE

\* `retire` leaves alone a task of the spec desired, also one that is dead.
Kept(task, spec) == task # NoTask /\ task.spec = spec

\* Mutant: a state belongs to the task that wrote it.
StateOfTask(m, spec) ==
    IF spec # "absent" /\ alert_states[m] # "none" /\ Kept(running[m], spec)
    THEN alert_states[m]
    ELSE IF spec = "absent" THEN "none" ELSE "empty"

\* The alert state of m: dropped when m is not configured, else created once.
StateOf(m, spec) ==
    CASE spec = "absent" -> "none"
      [] spec # "absent" /\ alert_states[m] = "none" -> "empty"
      [] OTHER -> alert_states[m]

\* Mutant: the receiver of a new task takes the present signal for seen.
ToldIfLate == shutdown

\* A new task's receiver has yet to see the shutdown signal, even one already
\* sent: it is a clone of the supervisor's, which has not looked.
ToldAlready == FALSE

Spawned(m, spec) ==
    [spec |-> spec, alive |-> TRUE, told |-> ToldAlready, turn |-> ~running[m].turn]

\* reconcile: tasks removed or changed are aborted, the missing ones spawned.
Reconcile(desired, tasks) ==
    /\ running' = [m \in Ids |->
          CASE desired[m] = "absent" -> NoTask
            [] Kept(tasks[m], desired[m]) -> tasks[m]
            [] OTHER -> Spawned(m, desired[m])]
    /\ alert_states' = [m \in Ids |-> StateOf(m, desired[m])]

---------------------------------------------------------------------------
(* The supervisor *)

Proceed(from, to) == sup = from /\ sup' = to

\* The first tasks are started.
Start ==
    /\ Proceed("loaded", "started")
    /\ Reconcile(config, running)
    /\ UNCHANGED <<file, config, last_raw, signals, shutdown, panics>>

\* The text taken for the one applied is read.
Remember ==
    /\ Proceed("started", "remembering")
    /\ last_raw' = disk
    /\ UNCHANGED <<file, config, signals, fleet, shutdown, panics>>

\* reload_signals: the file is watched from now on.
Watch ==
    /\ Proceed("remembering", "selecting")
    /\ UNCHANGED <<file, config, last_raw, signals, fleet, shutdown, panics>>

\* A reload signal; the debounce begins.
Receive ==
    /\ Proceed("selecting", "settling")
    /\ signals > 0
    /\ signals' = signals - 1
    /\ UNCHANGED <<file, config, last_raw, fleet, shutdown, panics>>

\* The debounce is over and what piled up is drained.
Settle ==
    /\ Proceed("settling", "reading")
    /\ signals' = 0
    /\ UNCHANGED <<file, config, last_raw, fleet, shutdown, panics>>

\* Mutant: the text applied at startup is compared with for ever.
RememberedAtStart(raw) == last_raw

Remembered(raw) == raw

\* A file that cannot be read, has not changed or is refused is left at that.
Applies(raw) == raw # "missing" /\ raw # last_raw /\ Parsed[raw] # Invalid

Reload ==
    /\ Proceed("reading", "selecting")
    /\ \/ /\ Applies(disk)
          /\ last_raw' = Remembered(disk)
          /\ config' = Parsed[disk]
          /\ Reconcile(Parsed[disk], running)
       \/ ~Applies(disk) /\ UNCHANGED <<last_raw, config, fleet>>
    /\ UNCHANGED <<file, signals, shutdown, panics>>

\* The liveness check: a task that ends once shutdown began is not dead.
Check ==
    /\ sup = "selecting"
    /\ sup' = IF shutdown THEN "draining" ELSE "reaping"
    /\ UNCHANGED <<file, config, last_raw, signals, fleet, shutdown, panics>>

\* reap_dead and, if it found any, reconcile.
Reap ==
    LET survivors ==
            [m \in Ids |-> IF running[m].alive THEN running[m] ELSE NoTask]
    IN  /\ Proceed("reaping", "selecting")
        /\ \/ survivors # running /\ Reconcile(config, survivors)
           \/ survivors = running /\ UNCHANGED fleet
        /\ UNCHANGED <<file, config, last_raw, signals, shutdown, panics>>

\* The shutdown signal is seen in the select.
Leave ==
    /\ shutdown
    /\ Proceed("selecting", "draining")
    /\ UNCHANGED <<file, config, last_raw, signals, fleet, shutdown, panics>>

\* Every task is awaited.
Drain ==
    /\ Proceed("draining", "done")
    /\ \A m \in Ids : ~running[m].alive
    /\ running' = [m \in Ids |-> NoTask]
    /\ UNCHANGED <<file, config, last_raw, signals, alert_states, shutdown, panics>>

Supervise ==
    \/ Start \/ Remember \/ Watch
    \/ Receive \/ Settle \/ Reload
    \/ Check \/ Reap
    \/ Leave \/ Drain

---------------------------------------------------------------------------
(* The tasks *)

Ends(m) == running' = [running EXCEPT ![m].alive = FALSE]

\* A task writes its alert state to its cell.
Seed(m) ==
    /\ running[m].alive
    /\ alert_states' = [alert_states EXCEPT ![m] = "seeded"]
    /\ UNCHANGED <<file, config, last_raw, sup, signals, running, shutdown, panics>>

Panic(m) ==
    /\ running[m].alive
    /\ panics < MaxPanics
    /\ panics' = panics + 1
    /\ Ends(m)
    /\ UNCHANGED <<file, config, last_raw, sup, signals, alert_states, shutdown>>

\* A task sees the shutdown signal and leaves its loop.
Finish(m) ==
    /\ running[m].alive
    /\ shutdown /\ ~running[m].told
    /\ Ends(m)
    /\ UNCHANGED <<file, config, last_raw, sup, signals, alert_states, shutdown, panics>>

---------------------------------------------------------------------------
(* The file, its watcher, and the operator *)

Watching == sup \notin {"loaded", "started", "remembering"}

Edit(text) ==
    /\ edits < MaxEdits /\ text # disk
    /\ edits' = edits + 1
    /\ disk' = text
    /\ event' = Watching /\ unwatched' = ~Watching
    /\ UNCHANGED <<config, last_raw, sup, signals, fleet, shutdown, panics>>

\* Mutant: the channel is unbounded.
SignalledAlways == signals + 1

\* A signal more than the channel holds is dropped.
Signalled == IF signals < Capacity THEN signals + 1 ELSE signals

\* The watcher calls back.
Notify ==
    /\ event
    /\ event' = FALSE
    /\ signals' = Signalled
    /\ UNCHANGED <<disk, unwatched, edits, config, last_raw, sup, fleet, shutdown, panics>>

\* SIGHUP: sent as soon as the channel has room.
Hangup ==
    /\ Watching /\ signals < Capacity
    /\ signals' = signals + 1
    /\ UNCHANGED <<file, config, last_raw, sup, fleet, shutdown, panics>>

Stop ==
    /\ ~shutdown
    /\ shutdown' = TRUE
    /\ UNCHANGED <<file, config, last_raw, sup, signals, fleet, panics>>

Next ==
    \/ Supervise
    \/ \E m \in Ids : Seed(m) \/ Panic(m) \/ Finish(m)
    \/ \E text \in Texts \union {"missing"} : Edit(text)
    \/ Notify \/ Hangup \/ Stop

\* The runtime runs the supervisor, whose branches are all taken again and again
\* when they are ready, and the tasks; the watcher reports what it watches.
Fairness ==
    /\ WF_supervisorVars(Supervise)
    /\ SF_supervisorVars(Receive) /\ SF_supervisorVars(Check)
    /\ \A m \in Ids : WF_supervisorVars(Finish(m))
    /\ WF_supervisorVars(Notify)

Spec == Init /\ [][Next]_supervisorVars
FairSpec == Spec /\ Fairness

---------------------------------------------------------------------------

\* Between two reloads the tasks are those of the configuration in force, each
\* with the spec it names and a cell, whatever panicked, was reaped or was edited
\* several times since.
RunsWhatIsConfigured ==
    sup \in {"selecting", "settling", "reading", "reaping"} =>
        \A m \in Ids :
            /\ running[m].spec = config[m]
            /\ alert_states[m] = "none" <=> config[m] = "absent"

\* The alert state of an id is lost only when a configuration without it comes
\* into force: no edit, panic or liveness check starts it over.
StateOutlivesTasks ==
    [][\A m \in Ids :
          alert_states[m] = "seeded" /\ alert_states'[m] # "seeded"
            => config'[m] = "absent"]_supervisorVars

\* A task that lives is interrupted only by a change of its own spec ("unchanged
\* monitors keep running untouched").
UnchangedKeepsRunning ==
    [][\A m \in Ids :
          running[m].alive /\ running'[m].turn # running[m].turn
            => config'[m] # config[m]]_supervisorVars

Serves(t) ==
    /\ config = Parsed[t]
    /\ \A m \in Ids : running[m].alive <=> Parsed[t][m] # "absent"

Rests(t) == disk = t /\ Parsed[t] # Invalid /\ ~shutdown

\* An edit made while the file is watched takes effect in the end, however many
\* edits, half-written texts, signals and panics come before or meanwhile; the
\* signals that are drained or dropped are never missed.
EditIsApplied ==
    \A t \in Texts : <>[](Rests(t) /\ ~unwatched) => <>[]Serves(t)

\* A shutdown ends, also one that comes between a liveness check and its restarts
\* or in the middle of a reload.
StopCompletes == shutdown ~> sup = "done"

\* The head of supervisor.rs ("On SIGHUP or a change to the config file, the file
\* is re-read and the running monitor tasks are reconciled") and the configuration
\* page ("Anywhere: kill -HUP"): a file that stays is in force in the end if the
\* operator keeps asking.  The text compared with is read after the configuration
\* was: an edit in between passes for applied, and no signal brings it in.
HangupReloads ==
    \A t \in Texts :
        <>[]Rests(t) /\ []<>(sup = "reading") => <>[](config = Parsed[t])

\* Both: what the operator asks for, an edit or a stop, takes effect in the end.
RequestsTakeEffect == EditIsApplied /\ StopCompletes
=============================================================================
