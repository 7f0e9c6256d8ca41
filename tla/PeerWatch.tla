----------------------------- MODULE PeerWatch -----------------------------
(***************************************************************************)
(* The watch of one peer (`spawn_watch` in mesh/peer.rs): its heartbeats   *)
(* are judged tick by tick with the anti-flap machine of the monitors;     *)
(* before a down is announced the other peers, the witnesses, are asked    *)
(* whether they still see it.  An announcement is dispatched first and     *)
(* remembered after, and the watch can be aborted in between.              *)
(*                                                                         *)
(* A witness is what its /healthz would answer about the peer; the         *)
(* channels are what they were last told.  Ages and delays stop counting   *)
(* where no comparison tells them apart.                                   *)
(***************************************************************************)
EXTENDS AlertState

CONSTANTS
    Witnesses,      \* the other peers with a /healthz URL
    Quorum,         \* health.quorum
    Expect,         \* expect_every_secs, also the interval of the ticks
    Grace,          \* health.grace_secs
    MaxAborts,      \* bound: watches aborted (edited) or panicked
    MaxCrashes      \* bound: deaths of the process

ASSUME PeerWatchAssumption ==
    /\ Quorum \in BOOLEAN
    /\ Expect \in Nat \ {0} /\ Grace \in Nat
    /\ MaxAborts \in Nat /\ MaxCrashes \in Nat

VARIABLES
    pc,             \* "idle", "polling" the witnesses, "telling" the channels
    state,          \* the watch's AlertState
    cell,           \* the AlertCell
    answers,        \* the witnesses that answered this round, with their answer
    saying,         \* what is being dispatched
    muted,          \* whether maintenance, a silence or a failed read made the
                    \*   last tick one that observes nothing
    age, seen,      \* seconds since the last heartbeat, or, before the first
                    \*   one, since it was first expected
    due, grace,     \* seconds to the next tick, and left of the grace
    view,           \* view[w]: what witness w would answer
    told,           \* what the channels were last told (history)
    repeats,        \* downs told to channels that knew (history)
    aborts, crashes \* how much of each bound is spent

task == <<pc, state, cell, answers, saying, muted>>
clock == <<age, due, grace>>
history == <<told, repeats>>
budget == <<aborts, crashes>>
watchVars == <<task, seen, clock, view, history, budget>>

Views == {"up", "not up", "unreachable"}
Events == {"down", "link", "recovered"}

PeerTypeOK ==
    /\ pc \in {"idle", "polling", "telling"}
    /\ state \in AlertStates /\ cell \in AlertStates
    /\ answers \in [Witnesses -> Views \union {"none"}]
    /\ saying \in Events \union {"nothing"}
    /\ muted \in BOOLEAN /\ seen \in BOOLEAN
    /\ age \in 0..Expect + 1
    /\ due \in 0..Expect /\ grace \in 0..Grace
    /\ view \in [Witnesses -> Views]
    /\ told \in {"nothing", "down", "link"}
    /\ repeats \in Nat
    /\ aborts \in 0..MaxAborts /\ crashes \in 0..MaxCrashes

Unasked == [w \in Witnesses |-> "none"]

\* Nobody is asked without health.quorum.
Asked == IF Quorum THEN Witnesses ELSE {}

Init ==
    /\ pc = "idle" /\ state = Fresh /\ cell = Fresh
    /\ answers = Unasked /\ saying = "nothing" /\ muted = FALSE
    /\ age = 0 /\ seen = FALSE
    /\ due = 0 /\ grace = Grace
    /\ view \in [Witnesses -> Views]
    /\ told = "nothing" /\ repeats = 0
    /\ aborts = 0 /\ crashes = 0

---------------------------------------------------------------------------
(* The watch *)

Overdue == age > Expect

Settle(s) ==
    /\ pc' = "idle" /\ state' = s /\ cell' = s
    /\ saying' = "nothing" /\ answers' = Unasked

Say(s, event) ==
    /\ pc' = "telling" /\ state' = s /\ saying' = event /\ answers' = Unasked

\* Mutant: the end of an outage is taken for that of an isolation.
WasOnlyLink(level) == level = "partition"

\* An isolation was silent; the rest is recovered from aloud.
WasAnnounced(level) == level \in {"down", "partition"}

Hit(s) ==
    \/ /\ WasAnnounced(s.level)
       /\ Say(ObserveUp(s), "recovered")
       /\ UNCHANGED cell
    \/ /\ ~WasAnnounced(s.level)
       /\ Settle([ObserveUp(s) EXCEPT !.level = "healthy"])

\* The misses are counted in the cell before anything is awaited; none is
\* announced while the grace of this start lasts.
Miss(s) ==
    \/ /\ grace > 0 \/ ~ConfirmsDown(s)
       /\ Settle(s)
    \/ /\ grace = 0 /\ ConfirmsDown(s)
       /\ cell' = s /\ state' = s
       /\ pc' = "polling"
       /\ UNCHANGED <<answers, saying>>

\* A tick.  A peer that never pinged and is not late yet has no outcome; a tick
\* that is muted, or cannot read the heartbeat, is not observed.
Tick(mute) ==
    /\ pc = "idle" /\ due = 0
    /\ due' = Expect
    /\ muted' = mute
    /\ \/ ~mute /\ ~Overdue /\ seen /\ Hit(state)
       \/ ~mute /\ Overdue /\ Miss(ObserveDown(state))
       \/ (mute \/ ~(Overdue \/ seen)) /\ UNCHANGED <<pc, state, cell, answers, saying>>
    /\ UNCHANGED <<age, seen, grace, view, history, budget>>

\* The witnesses are polled concurrently: each answers in its own time.
Answer(w) ==
    /\ pc = "polling" /\ w \in Asked /\ answers[w] = "none"
    /\ answers' = [answers EXCEPT ![w] = view[w]]
    /\ UNCHANGED <<pc, state, cell, saying, muted, seen, clock, view, history, budget>>

\* Mutant: every reachable witness has to see the peer up.
VerdictUnanimous(given) ==
    CASE given = {} -> "confirmed"
      [] given = {"unreachable"} -> "isolated"
      [] "up" \in given /\ given \subseteq {"up", "unreachable"} -> "partition"
      [] OTHER -> "confirmed"

\* Mutant: one witness that does not answer is enough to suspect oneself.
VerdictIsolatedSoon(given) ==
    CASE "up" \in given -> "partition"
      [] "unreachable" \in given /\ "up" \notin given -> "isolated"
      [] OTHER -> "confirmed"

Verdict(given) ==
    CASE "up" \in given -> "partition"
      [] given = {"unreachable"} -> "isolated"
      [] OTHER -> "confirmed"     \* by a witness, or with none to consult

\* announce_verdict: a partition or an isolation that lasts is not news.
Decide ==
    LET verdict == Verdict({answers[w] : w \in Asked})
    IN  /\ pc = "polling"
        /\ \A w \in Asked : answers[w] # "none"
        /\ \/ verdict = "confirmed" /\ Say(state, "down") /\ UNCHANGED cell
           \/ /\ verdict = "partition" /\ state.level # "partition"
              /\ Say(state, "link") /\ UNCHANGED cell
           \/ verdict = "isolated" /\ Settle([state EXCEPT !.level = "isolated"])
           \/ verdict = "partition" /\ state.level = "partition" /\ Settle(state)
        /\ UNCHANGED <<muted, seen, clock, view, history, budget>>

\* The channels receive what is being dispatched.
Reaches(event) ==
    /\ told' = IF event = "recovered" THEN "nothing" ELSE event
    /\ repeats' = IF event = "down" /\ told = "down" THEN repeats + 1 ELSE repeats

\* Mutant: the level is not moved.
LevelKept(event) == state.level

LevelAfter(event) ==
    CASE event = "down" -> "down"
      [] event = "link" -> "partition"
      [] event = "recovered" -> "healthy"

\* The dispatch is over, and the level announced.
Deliver ==
    /\ pc = "telling"
    /\ Reaches(saying)
    /\ Settle([state EXCEPT !.level = LevelAfter(saying)])
    /\ UNCHANGED <<muted, seen, clock, view, budget>>

Work == \/ \E mute \in BOOLEAN : Tick(mute)
        \/ \E w \in Witnesses : Answer(w)
        \/ Decide
        \/ Deliver

---------------------------------------------------------------------------
(* Around the watch *)

\* A watch starts: it ticks at once, with a new grace.
Starts(s) ==
    /\ pc' = "idle" /\ state' = s /\ cell' = s
    /\ saying' = "nothing" /\ answers' = Unasked
    /\ due' = 0 /\ grace' = Grace

\* What becomes of a dispatch that is interrupted.
Interrupted(reached) ==
    \/ reached /\ pc = "telling" /\ Reaches(saying)
    \/ ~reached /\ UNCHANGED history

\* The supervisor aborts the watch, or finds it panicked: the cell is handed on.
Abort(reached) ==
    /\ aborts < MaxAborts
    /\ aborts' = aborts + 1
    /\ Interrupted(reached)
    /\ Starts(cell)
    /\ UNCHANGED <<muted, age, seen, view, crashes>>

\* The process dies and starts again.
Crash(reached) ==
    /\ crashes < MaxCrashes
    /\ crashes' = crashes + 1
    /\ Interrupted(reached)
    /\ Starts(Fresh)
    /\ UNCHANGED <<muted, age, seen, view, aborts>>

\* A heartbeat of the peer arrives.
Beat ==
    /\ age' = 0 /\ seen' = TRUE
    /\ UNCHANGED <<task, due, grace, view, history, budget>>

\* A witness, or the way to it, changes.
Turn(w, v) ==
    /\ view' = [view EXCEPT ![w] = v]
    /\ UNCHANGED <<task, seen, clock, history, budget>>

Less(n) == IF n = 0 THEN 0 ELSE n - 1

\* A second passes.
Advance ==
    /\ age' = IF Overdue THEN age ELSE age + 1
    /\ due' = Less(due) /\ grace' = Less(grace)
    /\ UNCHANGED <<task, seen, view, history, budget>>

Next ==
    \/ Work
    \/ \E reached \in BOOLEAN : Abort(reached) \/ Crash(reached)
    \/ Beat
    \/ \E w \in Witnesses, v \in Views : Turn(w, v)
    \/ Advance

Spec == Init /\ [][Next]_watchVars

\* The runtime runs the task, each request ends by its deadline, time passes.
FairSpec == Spec /\ WF_watchVars(Work) /\ WF_watchVars(Advance)

---------------------------------------------------------------------------

\* A peer one witness keeps seeing up is never announced down, whatever the
\* other witnesses answer and however the polls of different rounds mix ("if any
\* reports the target up, this is a partition").
VouchedIsNotDown ==
    \A w \in Asked : [](view[w] = "up") => [](told # "down")

\* The channels hear of one outage once: a down is repeated by nothing but an
\* abort or a crash, and by each at most once.
RepeatsAreInterruptions == repeats <= aborts + crashes

Gone == Overdue /\ ~muted

\* One witness keeps answering that it no longer sees the peer, none that it does.
Disowned(w) == view[w] = "not up" /\ \A v \in Witnesses : view[v] # "up"

\* A peer that is gone for good is announced down, also after partitions,
\* isolations and crashes, unless an abort came in between.
DownIsTold ==
    \A w \in Witnesses :
        <>[](Gone /\ Disowned(w) /\ aborts = 0) => <>[](told = "down")

\* The end of an announced outage is announced, whatever was muted or decided
\* since, within one life of the watch.
RecoveryIsTold ==
    <>[](seen /\ ~Overdue /\ ~muted /\ aborts + crashes = 0) => <>[](told # "down")

\* Both ends of an outage are told.
EndsAreTold == DownIsTold /\ RecoveryIsTold

\* AlertCell: "an abort ... can at worst repeat an alert whose delivery it
\* interrupted, never lose one".  It can lose one: a recovery that was delivered as the
\* watch was aborted leaves the cell at Down, and the next outage is not new.
DownIsToldAfterAborts ==
    \A w \in Witnesses : <>[](Gone /\ Disowned(w)) => <>[](told = "down")

\* The peers guide: "Its alert state survives a config edit or a restart: no
\* repeated down, no lost recovery."  A peer has no incident to resume from: a
\* restart forgets its down, and its recovery is never announced.
RecoveryIsToldAfterRestarts ==
    <>[](seen /\ ~Overdue /\ ~muted) => <>[](told # "down")
============================================================================
