---------------------------- MODULE AlertState ----------------------------
(***************************************************************************)
(* The anti-flap state machine of scheduler.rs (`AlertState`), shared by   *)
(* the monitor loops and the peer watches: consecutive-failure counters    *)
(* against the threshold, plus the level last announced.  The operators    *)
(* are pure, as the methods are; their callers perform the side effect and *)
(* then record the new level.                                              *)
(*                                                                         *)
(* Abstractions.  The counters saturate at FailThreshold instead of        *)
(* u32::MAX: the code only compares them with the threshold.               *)
(* `local_only_asked` keeps that the peers were asked and must be asked    *)
(* again, not the second at which they were.                               *)
(***************************************************************************)
EXTENDS Naturals

CONSTANT FailThreshold      \* alerts.fail_threshold, at least 1

ASSUME FailThresholdAssumption == FailThreshold \in Nat \ {0}

Levels == {"healthy", "degraded", "down", "partition", "isolated"}

\* Where a monitor or a peer can be found by one observation.
Outcomes == {"up", "degraded", "down"}
IsUp(outcome) == outcome # "down"

AlertStates ==
    [level: Levels,
     consecutive_down: 0..FailThreshold,
     consecutive_degraded: 0..FailThreshold,
     burn: SUBSET {"fast", "slow"},
     local_only_asked: BOOLEAN]

Fresh ==
    [level |-> "healthy", consecutive_down |-> 0, consecutive_degraded |-> 0,
     burn |-> {}, local_only_asked |-> FALSE]

\* The state of a monitor found mid-outage at startup.
ResumedDown ==
    [Fresh EXCEPT !.level = "down", !.consecutive_down = FailThreshold]

\* Mutant: the counter does not saturate.
CountUnbounded(n) == n + 1

Count(n) == IF n < FailThreshold THEN n + 1 ELSE n

ObserveDown(s) ==
    [s EXCEPT !.consecutive_down = Count(@), !.consecutive_degraded = 0]

\* Mutant: one failure too many is asked for.
ConfirmsDownLate(s) ==
    s.consecutive_down > FailThreshold /\ s.level # "down"

ConfirmsDown(s) ==
    s.consecutive_down >= FailThreshold /\ s.level # "down"

ObserveDegraded(s) ==
    [s EXCEPT !.consecutive_degraded = Count(@), !.consecutive_down = 0]

ConfirmsDegraded(s) ==
    s.consecutive_degraded >= FailThreshold /\ s.level # "degraded"

ObserveUp(s) ==
    [s EXCEPT !.consecutive_down = 0, !.consecutive_degraded = 0,
              !.local_only_asked = FALSE]

\* Mutant: only an outage recovers, a degradation never does.
EndsOutage(s) == s.level = "down"

EndsAlert(s) == s.level # "healthy"

\* Mutant: the level is compared the wrong way round.
AwaitsPeersInverted(s) == s.level # "down" /\ s.local_only_asked

\* A local-only down is asked about again: `reask_due` without its clock.
AwaitsPeers(s) == s.level = "down" /\ s.local_only_asked
===========================================================================
