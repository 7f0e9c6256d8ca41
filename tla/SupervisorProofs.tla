-------------------------- MODULE SupervisorProofs --------------------------
(***************************************************************************)
(* Theorems about the supervisor, for every set of ids, every set of texts *)
(* and whatever they parse to: a fleet runs what is configured, and only a *)
(* change of its own spec interrupts a task.                               *)
(***************************************************************************)
EXTENDS Supervisor, TLAPS

\* From its first reconcile to the shutdown a fleet is that of the configuration,
\* also between two steps of a reload.
Fits ==
    \A m \in Ids :
        /\ running[m].spec = config[m]
        /\ alert_states[m] = "none" <=> config[m] = "absent"

FleetInv ==
    /\ SupervisorTypeOK
    /\ sup = "loaded" => \A m \in Ids : running[m] = NoTask
    /\ sup \notin {"loaded", "draining", "done"} => Fits

\* A reconcile with a configuration makes the fleet fit it, whatever tasks it
\* starts from.
LEMMA ReconcileFits ==
    ASSUME SupervisorTypeOK, NEW STATE desired, desired \in [Ids -> Specs],
           NEW STATE tasks, tasks \in [Ids -> Tasks \union {NoTask}],
           Reconcile(desired, tasks)
    PROVE  /\ running' \in [Ids -> Tasks \union {NoTask}]
           /\ alert_states' \in [Ids -> {"none", "empty", "seeded"}]
           /\ \A m \in Ids :
                /\ running'[m].spec = desired[m]
                /\ alert_states'[m] = "none" <=> desired[m] = "absent"
<1>1. ASSUME NEW m \in Ids
      PROVE  /\ running[m].turn \in BOOLEAN
             /\ tasks[m] \in Tasks \union {NoTask}
             /\ desired[m] \in Specs
  <2>1. running[m] \in Tasks \/ running[m] = NoTask
        BY <1>1 DEF SupervisorTypeOK
  <2>2. running[m].turn \in BOOLEAN
    <3>1. CASE running[m] \in Tasks
          BY <3>1 DEF Tasks
    <3>2. CASE running[m] = NoTask
      <4>1. running[m].turn = FALSE
            BY <3>2 DEF NoTask
      <4>2. QED BY <4>1
    <3>3. QED BY <2>1, <3>1, <3>2
  <2>3. QED BY <1>1, <2>2
<1>2. ASSUME NEW m \in Ids, desired[m] # "absent"
      PROVE  Spawned(m, desired[m]) \in Tasks
      BY <1>1, <1>2 DEF Spawned, ToldAlready, Tasks
<1>3. ASSUME NEW m \in Ids
      PROVE  /\ running'[m] \in Tasks \union {NoTask}
             /\ running'[m].spec = desired[m]
  <2>1. CASE desired[m] = "absent"
    <3>1. ~Kept(tasks[m], desired[m])
      <4>1. tasks[m] # NoTask => tasks[m].spec # "absent"
            BY <1>1, <1>3 DEF Tasks
      <4>2. QED BY <2>1, <4>1 DEF Kept
    <3>2. running'[m] = NoTask
          BY <1>3, <2>1, <3>1 DEF Reconcile
    <3>3. NoTask.spec = "absent"
          BY DEF NoTask
    <3>4. QED BY <2>1, <3>2, <3>3
  <2>2. CASE desired[m] # "absent" /\ Kept(tasks[m], desired[m])
        BY <1>1, <1>3, <2>2 DEF Reconcile, Kept
  <2>3. CASE desired[m] # "absent" /\ ~Kept(tasks[m], desired[m])
    <3>1. running'[m] = Spawned(m, desired[m])
          BY <1>3, <2>3 DEF Reconcile
    <3>2. QED BY <1>2, <1>3, <2>3, <3>1 DEF Spawned
  <2>4. QED BY <2>1, <2>2, <2>3
<1>4. ASSUME NEW m \in Ids
      PROVE  /\ alert_states'[m] \in {"none", "empty", "seeded"}
             /\ alert_states'[m] = "none" <=> desired[m] = "absent"
      BY <1>4 DEF Reconcile, StateOf, SupervisorTypeOK
<1>5. QED BY <1>3, <1>4 DEF Reconcile

LEMMA FleetInit == Init => FleetInv
<1> SUFFICES ASSUME Init PROVE FleetInv
    OBVIOUS
<1>1. config \in [Ids -> Specs]
      BY SupervisorAssumption DEF Init
<1>2. running \in [Ids -> Tasks \union {NoTask}]
      BY DEF Init
<1>3. SupervisorTypeOK
  <2>1. event \in BOOLEAN /\ shutdown \in BOOLEAN /\ unwatched \in BOOLEAN
        BY DEF Init
  <2>2. /\ signals \in 0..Capacity
        /\ edits \in 0..MaxEdits /\ panics \in 0..MaxPanics
        BY SupervisorAssumption DEF Init
  <2>3. QED BY <1>1, <1>2, <2>1, <2>2 DEF Init, SupervisorTypeOK
<1>4. QED BY <1>3 DEF Init, FleetInv

\* A step that moves the supervisor on and leaves configuration and fleet alone.
LEMMA FleetWaits ==
    ASSUME FleetInv, UNCHANGED <<config, fleet>>, SupervisorTypeOK',
           sup' = "loaded" => sup = "loaded",
           sup' \in {"draining", "done"} \/ sup \notin {"draining", "done"},
           sup' \in {"loaded", "draining", "done"} \/ sup # "loaded"
    PROVE  FleetInv'
BY DEF FleetInv, Fits, fleet

LEMMA FleetStep == FleetInv /\ [Next]_supervisorVars => FleetInv'
<1> SUFFICES ASSUME FleetInv, [Next]_supervisorVars PROVE FleetInv'
    OBVIOUS
<1> USE SupervisorAssumption
<1>1. CASE Start
  <2>1. config \in [Ids -> Specs] /\ running \in [Ids -> Tasks \union {NoTask}]
        BY DEF FleetInv, SupervisorTypeOK
  <2>2. /\ running' \in [Ids -> Tasks \union {NoTask}]
        /\ alert_states' \in [Ids -> {"none", "empty", "seeded"}]
        /\ \A m \in Ids :
             /\ running'[m].spec = config[m]
             /\ alert_states'[m] = "none" <=> config[m] = "absent"
        BY <1>1, <2>1, ReconcileFits DEF FleetInv, Start
  <2>3. SupervisorTypeOK'
        BY <1>1, <2>2 DEF Start, Proceed, FleetInv, SupervisorTypeOK, file
  <2>4. QED BY <1>1, <2>2, <2>3 DEF Start, Proceed, FleetInv, Fits
<1>2. CASE Reload
  <2>1. CASE Applies(disk) /\ Reconcile(Parsed[disk], running)
    <3>1. disk \in Texts /\ Parsed[disk] # Invalid
          BY <2>1 DEF Applies, FleetInv, SupervisorTypeOK
    <3>2. /\ Parsed[disk] \in [Ids -> Specs]
          /\ running \in [Ids -> Tasks \union {NoTask}]
          BY <3>1 DEF FleetInv, SupervisorTypeOK
    <3>3. /\ running' \in [Ids -> Tasks \union {NoTask}]
          /\ alert_states' \in [Ids -> {"none", "empty", "seeded"}]
          /\ \A m \in Ids :
               /\ running'[m].spec = Parsed[disk][m]
               /\ alert_states'[m] = "none" <=> Parsed[disk][m] = "absent"
          BY <2>1, <3>2, ReconcileFits DEF FleetInv
    <3>4. config' = Parsed[disk] /\ last_raw' = disk
          BY <1>2, <2>1 DEF Reload, Remembered
    <3>5. SupervisorTypeOK'
          BY <1>2, <3>1, <3>2, <3>3, <3>4
          DEF Reload, Proceed, FleetInv, SupervisorTypeOK, file
    <3>6. QED BY <1>2, <3>3, <3>4, <3>5 DEF Reload, Proceed, FleetInv, Fits
  <2>2. CASE UNCHANGED <<last_raw, config, fleet>>
    <3>1. SupervisorTypeOK'
          BY <1>2, <2>2 DEF Reload, Proceed, FleetInv, SupervisorTypeOK, file, fleet
    <3>2. QED BY <1>2, <2>2, <3>1, FleetWaits DEF Reload, Proceed
  <2>3. QED BY <1>2, <2>1, <2>2 DEF Reload
<1>3. CASE Reap
  <2> DEFINE survivors ==
          [m \in Ids |-> IF running[m].alive THEN running[m] ELSE NoTask]
  <2>1. CASE Reconcile(config, survivors)
    <3>1. /\ config \in [Ids -> Specs]
          /\ survivors \in [Ids -> Tasks \union {NoTask}]
          BY DEF FleetInv, SupervisorTypeOK
    <3>2. /\ running' \in [Ids -> Tasks \union {NoTask}]
          /\ alert_states' \in [Ids -> {"none", "empty", "seeded"}]
          /\ \A m \in Ids :
               /\ running'[m].spec = config[m]
               /\ alert_states'[m] = "none" <=> config[m] = "absent"
      <4> HIDE DEF survivors
      <4> QED BY <2>1, <3>1, ReconcileFits DEF FleetInv
    <3>3. SupervisorTypeOK'
          BY <1>3, <3>2 DEF Reap, Proceed, FleetInv, SupervisorTypeOK, file
    <3>4. QED BY <1>3, <3>2, <3>3 DEF Reap, Proceed, FleetInv, Fits
  <2>2. CASE UNCHANGED fleet
    <3>1. SupervisorTypeOK'
          BY <1>3, <2>2 DEF Reap, Proceed, FleetInv, SupervisorTypeOK, file, fleet
    <3>2. QED BY <1>3, <2>2, <3>1, FleetWaits DEF Reap, Proceed
  <2>3. QED BY <1>3, <2>1, <2>2 DEF Reap
<1>4. CASE Remember
  <2>1. SupervisorTypeOK'
        BY <1>4 DEF Remember, Proceed, FleetInv, SupervisorTypeOK, file, fleet
  <2>2. QED BY <1>4, <2>1, FleetWaits DEF Remember, Proceed
<1>5. CASE Watch
  <2>1. SupervisorTypeOK'
        BY <1>5 DEF Watch, Proceed, FleetInv, SupervisorTypeOK, file, fleet
  <2>2. QED BY <1>5, <2>1, FleetWaits DEF Watch, Proceed
<1>6. CASE Receive
  <2>1. SupervisorTypeOK'
        BY <1>6 DEF Receive, Proceed, FleetInv, SupervisorTypeOK, file, fleet
  <2>2. QED BY <1>6, <2>1, FleetWaits DEF Receive, Proceed
<1>7. CASE Settle
  <2>1. SupervisorTypeOK'
        BY <1>7 DEF Settle, Proceed, FleetInv, SupervisorTypeOK, file, fleet
  <2>2. QED BY <1>7, <2>1, FleetWaits DEF Settle, Proceed
<1>8. CASE Check
  <2>1. SupervisorTypeOK'
        BY <1>8 DEF Check, FleetInv, SupervisorTypeOK, file, fleet
  <2>2. QED BY <1>8, <2>1, FleetWaits DEF Check
<1>9. CASE Leave
  <2>1. SupervisorTypeOK'
        BY <1>9 DEF Leave, Proceed, FleetInv, SupervisorTypeOK, file, fleet
  <2>2. QED BY <1>9, <2>1, FleetWaits DEF Leave, Proceed
<1>10. CASE Drain
  <2>1. running' \in [Ids -> Tasks \union {NoTask}]
        BY <1>10 DEF Drain
  <2>2. SupervisorTypeOK'
        BY <1>10, <2>1 DEF Drain, Proceed, FleetInv, SupervisorTypeOK, file
  <2>3. QED BY <1>10, <2>2 DEF Drain, Proceed, FleetInv
<1>11. ASSUME NEW m \in Ids, Seed(m) PROVE FleetInv'
  <2>1. SupervisorTypeOK'
        BY <1>11 DEF Seed, FleetInv, SupervisorTypeOK, file
  <2>2. running[m] # NoTask
        BY <1>11 DEF Seed, NoTask
  <2>3. sup # "loaded"
        BY <1>11, <2>2 DEF FleetInv
  <2>4. running[m].spec # "absent"
        BY <1>11, <2>2 DEF FleetInv, SupervisorTypeOK, Tasks
  <2>5. alert_states'[m] = "seeded"
        BY <1>11 DEF Seed, FleetInv, SupervisorTypeOK
  <2>6. \A k \in Ids : k # m => alert_states'[k] = alert_states[k]
        BY <1>11 DEF Seed, FleetInv, SupervisorTypeOK
  <2>7. QED BY <1>11, <2>1, <2>3, <2>4, <2>5, <2>6 DEF Seed, FleetInv, Fits
<1>12. ASSUME NEW m \in Ids, Ends(m),
              UNCHANGED <<file, config, last_raw, sup, signals, alert_states, shutdown>>,
              panics' \in 0..MaxPanics, running[m].alive
       PROVE  FleetInv'
  <2>1. running[m] \in Tasks
        BY <1>12 DEF FleetInv, SupervisorTypeOK, NoTask
  <2>2. /\ running' \in [Ids -> Tasks \union {NoTask}]
        /\ \A k \in Ids : running'[k].spec = running[k].spec
    <3>1. [running[m] EXCEPT !.alive = FALSE] \in Tasks
          BY <2>1 DEF Tasks
    <3>2. [running[m] EXCEPT !.alive = FALSE].spec = running[m].spec
          BY <2>1 DEF Tasks
    <3>3. running' = [running EXCEPT ![m] = [running[m] EXCEPT !.alive = FALSE]]
          BY <1>12 DEF Ends, FleetInv, SupervisorTypeOK
    <3>4. QED BY <1>12, <3>1, <3>2, <3>3 DEF FleetInv, SupervisorTypeOK
  <2>3. SupervisorTypeOK'
        BY <1>12, <2>2 DEF FleetInv, SupervisorTypeOK, file
  <2>4. sup # "loaded"
        BY <1>12 DEF FleetInv, NoTask
  <2>5. QED BY <1>12, <2>2, <2>3, <2>4 DEF FleetInv, Fits
<1>13. ASSUME NEW m \in Ids, Panic(m) PROVE FleetInv'
  <2>1. panics' \in 0..MaxPanics
        BY <1>13 DEF Panic, FleetInv, SupervisorTypeOK
  <2>2. QED BY <1>12, <1>13, <2>1 DEF Panic
<1>14. ASSUME NEW m \in Ids, Finish(m) PROVE FleetInv'
       BY <1>12, <1>14 DEF Finish, FleetInv, SupervisorTypeOK
<1>15. ASSUME NEW text \in Texts \union {"missing"}, Edit(text) PROVE FleetInv'
  <2>1. SupervisorTypeOK'
        BY <1>15 DEF Edit, Watching, FleetInv, SupervisorTypeOK, fleet
  <2>2. QED BY <1>15, <2>1, FleetWaits DEF Edit
<1>16. CASE Notify
  <2>1. SupervisorTypeOK'
    <3>1. signals' \in 0..Capacity
          BY <1>16 DEF Notify, Signalled, FleetInv, SupervisorTypeOK
    <3>2. event' \in BOOLEAN
          BY <1>16 DEF Notify
    <3>3. QED BY <1>16, <3>1, <3>2 DEF Notify, FleetInv, SupervisorTypeOK, fleet
  <2>2. QED BY <1>16, <2>1, FleetWaits DEF Notify
<1>17. CASE Hangup
  <2>1. SupervisorTypeOK'
        BY <1>17 DEF Hangup, FleetInv, SupervisorTypeOK, file, fleet
  <2>2. QED BY <1>17, <2>1, FleetWaits DEF Hangup
<1>18. CASE Stop
  <2>1. SupervisorTypeOK'
        BY <1>18 DEF Stop, FleetInv, SupervisorTypeOK, file, fleet
  <2>2. QED BY <1>18, <2>1, FleetWaits DEF Stop
<1>19. CASE UNCHANGED supervisorVars
       BY <1>19 DEF supervisorVars, file, fleet, FleetInv, Fits, SupervisorTypeOK
<1>20. QED
  BY <1>1, <1>2, <1>3, <1>4, <1>5, <1>6, <1>7, <1>8, <1>9, <1>10, <1>11, <1>13,
     <1>14, <1>15, <1>16, <1>17, <1>18, <1>19
  DEF Next, Supervise

\* The inductive invariant: the variables keep their types, and the fleet fits the
\* configuration in force from the first reconcile of `supervise` to its end.
THEOREM FleetInvariant == Spec => []FleetInv
<1>1. QED BY FleetInit, FleetStep, PTL DEF Spec

\* The variables of the supervisor keep their types.
THEOREM SupervisorTypeCorrect == Spec => []SupervisorTypeOK
<1>1. FleetInv => SupervisorTypeOK
      BY DEF FleetInv
<1>2. QED BY <1>1, FleetInvariant, PTL

\* Whatever was edited, panicked or was reaped, between two reloads exactly the
\* configured tasks exist, with the specs configured, and a cell for each.
THEOREM FleetIsConfigured == Spec => []RunsWhatIsConfigured
<1>1. FleetInv => RunsWhatIsConfigured
      BY DEF FleetInv, Fits, RunsWhatIsConfigured
<1>2. QED BY <1>1, FleetInvariant, PTL

\* A living task is replaced or stopped only by a change of its own spec: neither
\* the reload of another's nor the reaping of the dead touches it.
THEOREM TouchesOnlyChanged == Spec => UnchangedKeepsRunning
<1>1. ASSUME FleetInv, [Next]_supervisorVars, NEW m \in Ids,
             running[m].alive, running'[m].turn # running[m].turn
      PROVE  config'[m] # config[m]
  <2>1. running' # running /\ sup # "loaded"
        BY <1>1 DEF FleetInv, NoTask
  <2>2. CASE Reload
    <3>1. Reconcile(Parsed[disk], running) /\ config' = Parsed[disk]
          BY <2>1, <2>2 DEF Reload, fleet
    <3>2. running[m].spec = config[m]
          BY <1>1, <2>2 DEF Reload, Proceed, FleetInv, Fits
    <3>3. running[m] # NoTask /\ running[m].spec # "absent"
          BY <1>1 DEF FleetInv, SupervisorTypeOK, Tasks, NoTask
    <3>4. QED BY <1>1, <3>1, <3>2, <3>3 DEF Reconcile, Kept
  <2>3. CASE Reap
    <3> DEFINE survivors ==
            [k \in Ids |-> IF running[k].alive THEN running[k] ELSE NoTask]
    <3>1. Reconcile(config, survivors)
          BY <2>1, <2>3 DEF Reap, fleet
    <3>2. running[m].spec = config[m]
          BY <1>1, <2>3 DEF Reap, Proceed, FleetInv, Fits
    <3>3. running[m] # NoTask /\ running[m].spec # "absent"
          BY <1>1 DEF FleetInv, SupervisorTypeOK, Tasks, NoTask
    <3>4. survivors[m] = running[m]
          BY <1>1
    <3>5. QED BY <1>1, <3>1, <3>2, <3>3, <3>4 DEF Reconcile, Kept
  <2>4. CASE Drain
        BY <1>1, <2>4 DEF Drain
  <2>5. ASSUME NEW k \in Ids, Ends(k) PROVE FALSE
    <3>1. running[m] \in Tasks
          BY <1>1 DEF FleetInv, SupervisorTypeOK, NoTask
    <3>2. [running[m] EXCEPT !.alive = FALSE].turn = running[m].turn
          BY <3>1 DEF Tasks
    <3>3. running'[m] = running[m] \/ running'[m] = [running[m] EXCEPT !.alive = FALSE]
          BY <1>1, <2>5 DEF Ends, FleetInv, SupervisorTypeOK
    <3>4. QED BY <1>1, <3>2, <3>3
  <2>6. QED
    BY <1>1, <2>1, <2>2, <2>3, <2>4, <2>5
    DEF Next, Supervise, Start, Remember, Watch, Receive, Settle, Check, Leave, Proceed,
        Seed, Panic, Finish, Edit, Notify, Hangup, Stop, supervisorVars, fleet
<1>2. FleetInv /\ [Next]_supervisorVars
        => [\A m \in Ids :
              running[m].alive /\ running'[m].turn # running[m].turn
                => config'[m] # config[m]]_supervisorVars
      BY <1>1
<1>3. QED BY <1>2, FleetInvariant, PTL DEF Spec, UnchangedKeepsRunning

\* An alert state is lost only with the id: a reload, a panic or a liveness check
\* never starts a configured monitor over.
THEOREM StatesOutliveTasks == Spec => StateOutlivesTasks
<1>1. ASSUME SupervisorTypeOK, [Next]_supervisorVars, NEW m \in Ids,
             alert_states[m] = "seeded", alert_states'[m] # "seeded"
      PROVE  config'[m] = "absent"
  <2>1. ASSUME NEW STATE desired, NEW STATE tasks, Reconcile(desired, tasks)
        PROVE  desired[m] = "absent"
        BY <1>1, <2>1 DEF Reconcile, StateOf
  <2>2. CASE Start
        BY <2>1, <2>2 DEF Start
  <2>3. CASE Reload
        BY <1>1, <2>1, <2>3 DEF Reload, fleet
  <2>4. CASE Reap
        BY <1>1, <2>1, <2>4 DEF Reap, fleet
  <2>5. ASSUME NEW k \in Ids, Seed(k) PROVE FALSE
        BY <1>1, <2>5 DEF Seed, SupervisorTypeOK
  <2>6. QED
    BY <1>1, <2>2, <2>3, <2>4, <2>5
    DEF Next, Supervise, Remember, Watch, Receive, Settle, Check, Leave, Drain, Panic,
        Finish, Edit, Notify, Hangup, Stop, supervisorVars, fleet
<1>2. SupervisorTypeOK /\ [Next]_supervisorVars
        => [\A m \in Ids :
              alert_states[m] = "seeded" /\ alert_states'[m] # "seeded"
                => config'[m] = "absent"]_supervisorVars
      BY <1>1
<1>3. QED BY <1>2, SupervisorTypeCorrect, PTL DEF Spec, StateOutlivesTasks
=============================================================================
