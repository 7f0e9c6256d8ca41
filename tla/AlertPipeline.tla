--------------------------- MODULE AlertPipeline ---------------------------
(***************************************************************************)
(* The monitor loops and the coalescer themselves, with restarts of the    *)
(* process: the database and what the channels heard are all that remains. *)
(* Its run is about a monitor and one that depends on it (PairUpstreams).  *)
(***************************************************************************)
EXTENDS MonitorLoop, Coalescer

PairUpstreams == [m \in Monitors |-> IF m = "leaf" THEN {"root"} ELSE {}]

pipelineVars == <<loopVars, coalescerVars>>

PipelineInit ==
    /\ LoopInit
    /\ CoalescerInit
    /\ heard = [m \in Monitors |-> {}]

Works(m) == Step(m) /\ UNCHANGED coalescerVars
Drives == Drive /\ UNCHANGED <<taskVars, cell, incidents, budget>>
Advances == Advance /\ UNCHANGED <<taskVars, cell, incidents, budget>>
Stops == Stop /\ UNCHANGED <<taskVars, cell, incidents, budget>>

\* The process has shut down with nothing under way: every task left its loop
\* between two ticks, every alert was read and every notification dispatched.
ShutDown ==
    /\ driver = "draining" /\ outbox = <<>> /\ inbox = <<>>
    /\ \A m \in Monitors : pc[m] = "idle"

Restarts ==
    /\ ShutDown
    /\ Crash({})
    /\ coalescer' = NewCoalescer
    /\ driver' = "releasing"
    /\ UNCHANGED <<outbox, heard>>

PipelineNext ==
    \/ \E m \in Monitors : Works(m)
    \/ Drives \/ Advances \/ Stops \/ Restarts

PipelineSpec == PipelineInit /\ [][PipelineNext]_pipelineVars

---------------------------------------------------------------------------
(* Across restarts *)

Delivers(kind) ==
    outbox # <<>> /\ outbox' = Tail(outbox) /\ Head(outbox).kind = kind

\* The concepts page ("sends the recovery only if it sent the down. This state
\* survives edits and restarts") and `resumed_down` ("its down was already
\* announced by the previous run"): nobody hears the end of an outage they never
\* heard of.  Only the routing of a local-only down is persisted: the restart
\* forgets which downs were folded, and announces their recovery.
NoUnannouncedRecovery ==
    [][Delivers("recovered")
         => Head(outbox).to \subseteq heard[Head(outbox).id]]_pipelineVars

\* That much holds for a monitor whose alerts are never folded, local-only or
\* not, confirmed or not, whatever restarts between two alerts: the incident's
\* routing column brings the coalescer's memory back.
RootRecoveryWasAnnounced ==
    [][Delivers("recovered") /\ Upstreams[Head(outbox).id] = {}
         => Head(outbox).to \subseteq heard[Head(outbox).id]]_pipelineVars

\* Once everything about it is settled, a down monitor that is never folded was
\* heard where its state says so, also when that state comes from the incident
\* an earlier process left open.
RootDownIsHeard ==
    inbox = <<>> /\ outbox = <<>> =>
        \A m \in Monitors :
            Upstreams[m] = {} /\ pc[m] = "idle" /\ state[m].level = "down" =>
                IF state[m].local_only_asked
                THEN QuietAudience \subseteq heard[m]
                ELSE "usual" \in heard[m]

\* Both: what is never folded is heard, its down and its recovery.
RootIsHeard == []RootDownIsHeard /\ RootRecoveryWasAnnounced
============================================================================
