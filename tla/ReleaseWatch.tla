---------------------------- MODULE ReleaseWatch ----------------------------
(***************************************************************************)
(* The release watch of one monitor (release.rs) and Hora's own updates    *)
(* (updates.rs): the latest release, asked for again once the stored       *)
(* answer is old, told to the channels once, the release told being        *)
(* stored.                                                                 *)
(*                                                                         *)
(* A release is <<project, rank>>, the rank its place in the order of      *)
(* is_newer; two projects publish no tag in common.  The two passes share  *)
(* nothing: they are taken one after the other.                            *)
(***************************************************************************)
EXTENDS Integers, FiniteSets

CONSTANTS
    Projects,        \* what release.github may be
    Hora,            \* the project of the updates
    MaxTag,          \* bound: releases of a project
    MaxReleaseMoves, \* bound: releases, upgrades, reloads, maintenance
    MaxReleaseFaults \* bound: lookups and statements that fail, crashes

ASSUME ReleaseAssumption ==
    Hora \notin Projects /\ {MaxTag, MaxReleaseMoves, MaxReleaseFaults} \subseteq Nat

VARIABLES
    github,      \* github[p]: the tag of the latest release of p
    running,     \* running[p]: the tag of p that runs
    asked,       \* the configuration: [project], [check] the updates
    quiet,       \* the monitor is in maintenance
    row,         \* its row of release_watch: [project, latest, notified, fresh]
    meta,        \* hora_latest_release and hora_release_told: [latest, told, fresh]
    slot,        \* the UpdateSlot: a tag, 0 when empty
    pass,        \* the pass in progress
    tellings,    \* history: how often each release was sent
    switches,    \* history: changes of release.github
    moves, releaseFaults  \* bound counters

releaseVars == <<github, running, asked, quiet, row, meta, slot, pass, tellings, switches, moves,
                 releaseFaults>>

Tags == 0..MaxTag
Releases == (Projects \cup {Hora}) \X Tags
Nothing == <<Hora, 0>>
NoWatchRow == [project |-> Hora, latest |-> 0, notified |-> Nothing, fresh |-> FALSE]
AtRest == [pc |-> "idle", project |-> Hora, latest |-> 0, alerted |-> Nothing]

ReleaseInit ==
    /\ github = [p \in Projects \cup {Hora} |-> 1]
    /\ running = [p \in Projects \cup {Hora} |-> 1]
    /\ asked \in [project: Projects, check: {TRUE}]
    /\ quiet = FALSE
    /\ row = NoWatchRow /\ slot = 0
    /\ meta = [latest |-> 0, told |-> 0, fresh |-> FALSE]
    /\ pass = AtRest
    /\ tellings = [r \in Releases |-> 0]
    /\ switches = 0 /\ moves = 0 /\ releaseFaults = 0

ReleaseFault == releaseFaults < MaxReleaseFaults /\ releaseFaults' = releaseFaults + 1
Moving == moves < MaxReleaseMoves /\ moves' = moves + 1
storage == <<row, meta, slot>>
outside == <<github, running, asked, quiet>>

---------------------------------------------------------------------------
(* The outside *)

Publish ==
    /\ Moving
    /\ \E p \in Projects \cup {Hora} :
          github[p] < MaxTag /\ github' = [github EXCEPT ![p] = @ + 1]
    /\ UNCHANGED <<running, asked, quiet, storage, pass, tellings, switches, releaseFaults>>

Upgrade ==
    /\ Moving
    /\ \E p \in Projects : running[p] < MaxTag /\ running' = [running EXCEPT ![p] = @ + 1]
    /\ UNCHANGED <<github, asked, quiet, storage, pass, tellings, switches, releaseFaults>>

\* A new Hora is a new process; a stop in the middle of a pass is a crash.
UpgradeHora ==
    /\ Moving /\ pass.pc = "idle"
    /\ running[Hora] < MaxTag /\ running' = [running EXCEPT ![Hora] = @ + 1]
    /\ slot' = 0
    /\ UNCHANGED <<github, asked, quiet, pass, row, meta, tellings, switches, releaseFaults>>

Reconfigure ==
    /\ Moving
    /\ asked' \in {[asked EXCEPT !.check = ~@]}
                  \cup {[asked EXCEPT !.project = p] : p \in Projects \ {asked.project}}
    /\ switches' = IF asked'.project = asked.project THEN switches ELSE switches + 1
    /\ UNCHANGED <<github, running, quiet, storage, pass, tellings, releaseFaults>>

Maintenance ==
    /\ Moving /\ quiet' = ~quiet
    /\ UNCHANGED <<github, running, asked, storage, pass, tellings, switches, releaseFaults>>

\* The hours until the next pass make the stored answers old; a pass after a
\* restart comes sooner.
Ages ==
    /\ pass.pc = "idle"
    /\ row' = [row EXCEPT !.fresh = FALSE] /\ meta' = [meta EXCEPT !.fresh = FALSE]
    /\ UNCHANGED <<outside, slot, pass, tellings, switches, moves, releaseFaults>>

---------------------------------------------------------------------------
(* A pass over the monitor *)

Newer(project, latest) == latest > running[project]

RowOf(project) == row.project = project

\* The row of another project says nothing: neither the latest release nor
\* the one notified.
Look ==
    /\ pass.pc = "idle"
    /\ pass' = IF RowOf(asked.project) /\ row.fresh
               THEN [AtRest EXCEPT !.pc = "compare", !.project = asked.project,
                                   !.latest = row.latest, !.alerted = row.notified]
               ELSE [AtRest EXCEPT !.pc = "ask", !.project = asked.project,
                                   !.alerted = IF RowOf(asked.project) THEN row.notified ELSE Nothing]
    /\ UNCHANGED <<outside, storage, tellings, switches, moves, releaseFaults>>

\* Mutant: every answer forgets the release notified.
NotifiedForgotten(project) == Nothing

KeptNotified(project) == IF row.project = project THEN row.notified ELSE Nothing

\* The answer, stored by upsert_release_watch, which forgets the release
\* notified of another project; a store that fails is only logged.
Ask ==
    /\ pass.pc = "ask"
    /\ LET latest == github[pass.project] IN
       /\ pass' = [pass EXCEPT !.pc = "compare", !.latest = latest]
       /\ \/ /\ row' = [project |-> pass.project, latest |-> latest, fresh |-> TRUE,
                        notified |-> KeptNotified(pass.project)]
             /\ UNCHANGED releaseFaults
          \/ ReleaseFault /\ UNCHANGED row
    /\ UNCHANGED <<outside, meta, slot, tellings, switches, moves>>

Tells(latest) == Newer(pass.project, latest) /\ ~quiet

Compare ==
    /\ pass.pc = "compare"
    /\ pass' = IF Tells(pass.latest) /\ pass.alerted # <<pass.project, pass.latest>>
               THEN [pass EXCEPT !.pc = "send"] ELSE AtRest
    /\ UNCHANGED <<outside, storage, tellings, switches, moves, releaseFaults>>

SendRelease ==
    /\ pass.pc = "send"
    /\ pass' = [pass EXCEPT !.pc = "mark"]
    /\ tellings' = [tellings EXCEPT ![<<pass.project, pass.latest>>] = @ + 1]
    /\ UNCHANGED <<outside, storage, switches, moves, releaseFaults>>

\* An UPDATE: nothing without a row.
MarkNotified ==
    /\ pass.pc = "mark"
    /\ pass' = AtRest
    /\ \/ /\ row' = IF row.project = Hora THEN row ELSE [row EXCEPT !.notified = <<pass.project, pass.latest>>]
          /\ UNCHANGED releaseFaults
       \/ ReleaseFault /\ UNCHANGED row
    /\ UNCHANGED <<outside, meta, slot, tellings, switches, moves>>

---------------------------------------------------------------------------
(* A pass over Hora itself *)

LookUpdates ==
    /\ pass.pc = "idle"
    /\ IF ~asked.check THEN slot' = 0 /\ pass' = AtRest
       ELSE /\ UNCHANGED slot
            /\ pass' = [AtRest EXCEPT !.project = Hora, !.latest = meta.latest,
                            !.pc = IF meta.latest # 0 /\ meta.fresh THEN "tell" ELSE "ask_hora"]
    /\ UNCHANGED <<outside, row, meta, tellings, switches, moves, releaseFaults>>

\* A stored answer that cannot be read is none.
UpdateUnread ==
    /\ pass.pc = "idle" /\ asked.check /\ ReleaseFault
    /\ pass' = [AtRest EXCEPT !.project = Hora, !.pc = "ask_hora"]
    /\ UNCHANGED <<outside, storage, tellings, switches, moves>>

AskHora ==
    /\ pass.pc = "ask_hora"
    /\ pass' = [pass EXCEPT !.pc = "tell", !.latest = github[Hora]]
    /\ \/ /\ meta' = [meta EXCEPT !.latest = github[Hora], !.fresh = TRUE]
          /\ UNCHANGED releaseFaults
       \/ ReleaseFault /\ UNCHANGED meta
    /\ UNCHANGED <<outside, row, slot, tellings, switches, moves>>

\* GitHub does not answer: what was last known is told rather than nothing.
AskHoraFails ==
    /\ pass.pc = "ask_hora" /\ ReleaseFault
    /\ pass' = IF pass.latest = 0 THEN AtRest ELSE [pass EXCEPT !.pc = "tell"]
    /\ UNCHANGED <<outside, storage, tellings, switches, moves>>

\* Mutant: the banner goes once the channels were told.
BannerUntold(latest) == IF Newer(Hora, latest) /\ meta.told # latest THEN latest ELSE 0

Banner(latest) == IF Newer(Hora, latest) THEN latest ELSE 0

\* A mark that cannot be read is none: told again.
TellHora ==
    /\ pass.pc = "tell"
    /\ slot' = Banner(pass.latest)
    /\ \/ /\ pass' = IF Newer(Hora, pass.latest) /\ meta.told # pass.latest
                     THEN [pass EXCEPT !.pc = "send_hora"] ELSE AtRest
          /\ UNCHANGED releaseFaults
       \/ /\ Newer(Hora, pass.latest) /\ ReleaseFault
          /\ pass' = [pass EXCEPT !.pc = "send_hora"]
    /\ UNCHANGED <<outside, row, meta, tellings, switches, moves>>

SendUpdate ==
    /\ pass.pc = "send_hora"
    /\ pass' = [pass EXCEPT !.pc = "mark_hora"]
    /\ tellings' = [tellings EXCEPT ![<<Hora, pass.latest>>] = @ + 1]
    /\ UNCHANGED <<outside, storage, switches, moves, releaseFaults>>

MarkTold ==
    /\ pass.pc = "mark_hora"
    /\ pass' = AtRest
    /\ \/ meta' = [meta EXCEPT !.told = pass.latest] /\ UNCHANGED releaseFaults
       \/ ReleaseFault /\ UNCHANGED meta
    /\ UNCHANGED <<outside, row, slot, tellings, switches, moves>>

\* A lookup, a read or the running version fails, or the daemon crashes.
PassEnds ==
    /\ pass.pc # "idle" /\ ReleaseFault
    /\ pass' = AtRest /\ slot' \in {slot, 0}
    /\ UNCHANGED <<outside, row, meta, tellings, switches, moves>>

MonitorPass == Look \/ Ask \/ Compare \/ SendRelease \/ MarkNotified
HoraPass == LookUpdates \/ AskHora \/ TellHora \/ SendUpdate \/ MarkTold

ReleaseNext ==
    \/ MonitorPass \/ HoraPass \/ UpdateUnread \/ AskHoraFails \/ PassEnds
    \/ Publish \/ Upgrade \/ UpgradeHora \/ Reconfigure \/ Maintenance \/ Ages

---------------------------------------------------------------------------
(* Properties *)

Project == asked.project
ReleaseDue == github[Project] > running[Project] /\ ~quiet
BannerDue == asked.check /\ github[Hora] > running[Hora]

\* A release that stays newer than what runs is told, whatever maintenance,
\* restart, failed lookup or change of project came before; Hora's own stays
\* on the operator's banner.
ReleaseIsTold ==
    /\ <>[]ReleaseDue => <>[](tellings[<<Project, github[Project]>>] > 0)
    /\ <>[]BannerDue => <>[](slot = github[Hora])

\* The same release is told again only after a statement that failed or a
\* crash, or after the monitor watched another project.
ReleaseIsToldOnce ==
    \A r \in Releases :
        tellings[r] <= 1 + releaseFaults + (IF r[1] = Hora THEN 0 ELSE switches)
=============================================================================
