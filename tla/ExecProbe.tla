----------------------------- MODULE ExecProbe -----------------------------
(***************************************************************************)
(* One exec probe (exec.rs): the plugin is run in a process group of its   *)
(* own, its output is read while it runs, and the probe ends with its exit *)
(* code, with the monitor's timeout, or dropped with its task.             *)
(*                                                                         *)
(* A pipe holds at most PipeSize chunks: a plugin that writes into a full  *)
(* one waits.  What the plugin leaves running ("helper") stays in the      *)
(* group and may keep the pipes open; stdout and stderr are one pipe, as   *)
(* they are read together.  Processes are prompt: time passes only while   *)
(* they wait.                                                              *)
(***************************************************************************)
EXTENDS Naturals

CONSTANTS
    Codes,          \* exit codes; 2 stands for every other one and for a signal
    MaxOutput,      \* bound: chunks a plugin writes
    PipeSize,       \* what a pipe holds
    PluginTimeout,  \* the monitor's timeout
    OutputGrace     \* OUTPUT_GRACE

ASSUME ExecAssumption ==
    /\ {MaxOutput, OutputGrace} \subseteq Nat
    /\ {PipeSize, PluginTimeout} \subseteq Nat \ {0}

VARIABLES
    plugin,     \* what this plugin does: [output, code, hangs, helper]
    child,      \* "none", "running", "exited" or "reaped"
    helper,     \* what it left behind: "none", "holding" the pipes, "detached" from
                \*   them, or "dead"
    unwritten,  \* chunks the plugin has still to write
    pipe,       \* chunks in the pipe
    probe,      \* "resolve", "run", "grace", "expired" or "done"
    drained,    \* whether the readers saw the end of the output
    armed,      \* whether the ProcessGroup still holds the id
    left,       \* what is left of the current timer
    verdict     \* how the probe ended: "up", "degraded", "down", "timed_out", "dropped"

execVars == <<plugin, child, helper, unwritten, pipe, probe, drained, armed, left, verdict>>

Helpers == {"none", "holding", "detached"}
Plugins == [output : 0..MaxOutput, code : Codes, hangs : BOOLEAN, helper : Helpers]

ExecInit ==
    /\ plugin \in Plugins
    /\ child = "none" /\ helper = "none" /\ unwritten = 0 /\ pipe = 0
    /\ probe = "resolve" /\ drained = FALSE /\ armed = FALSE /\ left = 0
    /\ verdict = "none"

\* outcome_for
OutcomeFor(code) ==
    CASE code = 0 -> "up" [] code = 1 -> "degraded" [] OTHER -> "down"

Conclude(how) == probe' = "done" /\ verdict' = how

---------------------------------------------------------------------------
(* The plugin and what it starts *)

HoldsPipe == child = "running" \/ helper = "holding"

Writes ==
    /\ child = "running" /\ unwritten > 0 /\ pipe < PipeSize
    /\ pipe' = pipe + 1 /\ unwritten' = unwritten - 1
    /\ UNCHANGED <<plugin, child, helper, probe, drained, armed, left, verdict>>

Exits ==
    /\ child = "running" /\ unwritten = 0 /\ ~plugin.hangs
    /\ child' = "exited"
    /\ UNCHANGED <<plugin, helper, unwritten, pipe, probe, drained, armed, left, verdict>>

\* What was left behind ends by itself.
HelperEnds ==
    /\ helper \in {"holding", "detached"} /\ child # "running"
    /\ helper' = "dead"
    /\ UNCHANGED <<plugin, child, unwritten, pipe, probe, drained, armed, left, verdict>>

---------------------------------------------------------------------------
(* The probe *)

\* resolve, then spawn: each may fail, which is a down.
Spawn ==
    /\ probe = "resolve"
    /\ \/ Conclude("down") /\ UNCHANGED <<child, helper, unwritten, armed, left>>
       \/ /\ probe' = "run" /\ child' = "running" /\ armed' = TRUE /\ left' = PluginTimeout
          /\ helper' = plugin.helper /\ unwritten' = plugin.output
          /\ UNCHANGED verdict
    /\ UNCHANGED <<plugin, pipe, drained>>

\* Mutant: the output is read once the plugin has exited.
ReadsOnceExited == probe = "grace"

\* read_capped, concurrently with the wait; what exceeds the cap is drained too.
ReadsNow == probe \in {"run", "grace"}

Reads ==
    /\ ReadsNow /\ pipe > 0 /\ pipe' = pipe - 1
    /\ UNCHANGED <<plugin, child, helper, unwritten, probe, drained, armed, left, verdict>>

AtEof == pipe = 0 /\ ~HoldsPipe

EndOfOutput ==
    /\ probe = "run" /\ ~drained /\ AtEof /\ drained' = TRUE
    /\ UNCHANGED <<plugin, child, helper, unwritten, pipe, probe, armed, left, verdict>>

\* disarm and the outcome of the exit code.
Report == Conclude(OutcomeFor(plugin.code)) /\ armed' = FALSE

\* child.wait() returns first.
Waited ==
    /\ probe = "run" /\ child = "exited" /\ child' = "reaped"
    /\ IF drained THEN Report /\ UNCHANGED left
       ELSE probe' = "grace" /\ left' = OutputGrace /\ UNCHANGED <<armed, verdict>>
    /\ UNCHANGED <<plugin, helper, unwritten, pipe, drained>>

\* Mutant: the group is let go as it is.
SparesTheGroup == helper

\* killpg(SIGKILL): what is still in the group.
KilledGroup == IF armed /\ helper # "none" THEN "dead" ELSE helper

\* child.wait() fails: the probe ends with the group still armed.
WaitFails ==
    /\ probe = "run" /\ child = "exited" /\ Conclude("down")
    /\ helper' = KilledGroup /\ armed' = FALSE /\ pipe' = 0
    /\ UNCHANGED <<plugin, child, unwritten, drained, left>>

\* The rest of the output came within the grace, or did not.
Drains ==
    /\ probe = "grace" /\ AtEof /\ drained' = TRUE /\ Report
    /\ UNCHANGED <<plugin, child, helper, unwritten, pipe, left>>

GraceOver ==
    /\ probe = "grace" /\ left = 0 /\ ~AtEof
    /\ helper' = KilledGroup /\ Report
    /\ UNCHANGED <<plugin, child, unwritten, pipe, drained, left>>

\* The plugin's time is up: the group is killed, then the child is and is waited for.
TimeUp ==
    /\ probe = "run" /\ left = 0 /\ child = "running"
    /\ helper' = KilledGroup /\ armed' = FALSE
    /\ child' = "exited" /\ probe' = "expired" /\ pipe' = 0
    /\ UNCHANGED <<plugin, unwritten, drained, left, verdict>>

KillWaits ==
    /\ probe = "expired" /\ child' = "reaped" /\ Conclude("timed_out")
    /\ UNCHANGED <<plugin, helper, unwritten, pipe, drained, armed, left>>

\* The task is aborted at an .await: ProcessGroup::drop, then kill_on_drop.
Drop ==
    /\ probe \in {"resolve", "run", "grace", "expired"} /\ Conclude("dropped")
    /\ helper' = KilledGroup /\ armed' = FALSE
    /\ child' = IF child = "running" THEN "exited" ELSE child
    /\ pipe' = 0
    /\ UNCHANGED <<plugin, unwritten, drained, left>>

\* Something prompt can still happen: the clock waits for it.
Prompt ==
    \/ child = "running" /\ unwritten > 0 /\ pipe < PipeSize
    \/ child = "running" /\ unwritten = 0 /\ ~plugin.hangs
    \/ child = "exited"
    \/ ReadsNow /\ pipe > 0
    \/ probe = "grace" /\ AtEof

ProbeWaits ==
    /\ probe \in {"run", "grace"} /\ ~Prompt /\ left > 0 /\ left' = left - 1
    /\ UNCHANGED <<plugin, child, helper, unwritten, pipe, probe, drained, armed, verdict>>

ExecNext ==
    \/ Writes \/ Exits \/ HelperEnds
    \/ Spawn \/ Reads \/ EndOfOutput \/ Waited \/ WaitFails \/ Drains \/ GraceOver
    \/ TimeUp \/ KillWaits \/ Drop \/ ProbeWaits

ExecSpec == ExecInit /\ [][ExecNext]_execVars

---------------------------------------------------------------------------
(* Properties *)

\* A plugin that ends by itself is judged by its exit code: no amount of output
\* and nothing it leaves running turns it into a timeout ("a chatty but healthy
\* plugin never blocks on a full pipe and times out").
VerdictIsTheExit ==
    verdict = "timed_out" => plugin.hangs

\* Nothing of a plugin that holds its pipes outlives the probe, however it ends
\* ("one more per interval"); after a timeout or a drop nothing of its group
\* does, and a helper that let go of the pipes is left alone otherwise.
NothingIsLeftRunning ==
    probe = "done" =>
        /\ child \in {"none", "exited", "reaped"}
        /\ helper # "holding"
        /\ verdict \in {"timed_out", "dropped"} => helper \in {"none", "dead"}
=============================================================================
