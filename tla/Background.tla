----------------------------- MODULE Background -----------------------------
(***************************************************************************)
(* The daemon's background tasks: the certificate watcher, the release     *)
(* watchers, the digest, the watcher of heartbeats and the vantage poller. *)
(*                                                                         *)
(* They share the database and the notifier but no row of the one and no   *)
(* state of the other, so a behaviour of the daemon is the product of      *)
(* independent ones, and a property of one task is that of its own         *)
(* behaviours: each starting state picks the task that moves.              *)
(***************************************************************************)
EXTENDS CertWatch, ReleaseWatch, DigestWatch, Heartbeat, Vantage

VARIABLE task   \* the task that moves

vars == <<task, certVars, releaseVars, digestVars, beatVars, vantageVars>>

Tasks == {"cert", "release", "digest", "heartbeat", "vantage"}

\* The tasks that do not move have one initial state.
Parked ==
    /\ task # "cert" => around.pin = NoKey /\ server.key = CHOOSE key \in Fingerprints : TRUE
    /\ task # "release" => asked.project = CHOOSE project \in Projects : TRUE
    /\ task # "digest" => ~enabled
    /\ task # "heartbeat" => cadence = "every" /\ rows[0] = NoRow

Init ==
    /\ task \in Tasks
    /\ CertInit /\ ReleaseInit /\ DigestInit /\ HeartbeatInit /\ VantageInit
    /\ Parked

Next ==
    /\ UNCHANGED task
    /\ \/ /\ task = "cert" /\ CertNext
          /\ UNCHANGED <<releaseVars, digestVars, beatVars, vantageVars>>
       \/ /\ task = "release" /\ ReleaseNext
          /\ UNCHANGED <<certVars, digestVars, beatVars, vantageVars>>
       \/ /\ task = "digest" /\ DigestNext
          /\ UNCHANGED <<certVars, releaseVars, beatVars, vantageVars>>
       \/ /\ task = "heartbeat" /\ HeartbeatNext
          /\ UNCHANGED <<certVars, releaseVars, digestVars, vantageVars>>
       \/ /\ task = "vantage" /\ VantageNext
          /\ UNCHANGED <<certVars, releaseVars, digestVars, beatVars>>

\* The loops come round: a tick follows the last one, a pass started ends, and
\* the hours go by between two of them.
Fairness ==
    /\ WF_certVars(task = "cert" /\ Sweeping)
    /\ WF_releaseVars(task = "release" /\ (MonitorPass \/ HoraPass))
    /\ SF_releaseVars(task = "release" /\ Look)
    /\ SF_releaseVars(task = "release" /\ LookUpdates)
    /\ SF_releaseVars(task = "release" /\ Ages)
    /\ WF_digestVars(task = "digest" /\ Evaluation)
    /\ WF_digestVars(task = "digest" /\ HourPasses)

Spec == Init /\ [][Next]_vars /\ Fairness

\* What there is to tell is told in the end: a release, and what happened since
\* the last digest.
NewsIsTold == ReleaseIsTold /\ DigestIsNotForgotten
=============================================================================
