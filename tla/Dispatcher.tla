----------------------------- MODULE Dispatcher -----------------------------
(***************************************************************************)
(* The notification dispatcher (hora-notify): an event fanned out to the   *)
(* matching channels at once, the retries of one delivery, the streak of   *)
(* failures kept per channel name across reloads, and the watchdog that    *)
(* tells the other channels of one that went silent.                       *)
(*                                                                         *)
(* A dispatch is a flight: it holds the dispatcher it was started on (an   *)
(* Arc), so it may end after a reload swapped another one in.  Deliveries  *)
(* of one flight are concurrent; their outcomes are counted together, once *)
(* the last one is in, under the lock of the health map.                   *)
(***************************************************************************)
EXTENDS Integers, Sequences, FiniteSets

CONSTANTS
    Channels,     \* routing names
    Flights,      \* dispatches, numbered as they are asked for
    Dispatchers,  \* what a configuration may build: [channels, threshold]
    MaxSwaps      \* bound: reloads

ASSUME DispatcherAssumption ==
    /\ \A d \in Dispatchers :
          /\ d \in [channels : Seq(Channels), threshold : Nat]
          /\ \A i, j \in DOMAIN d.channels : d.channels[i] = d.channels[j] => i = j
    /\ Flights \subseteq Nat /\ MaxSwaps \in Nat

VARIABLES
    notifier,   \* the dispatcher in the ArcSwap
    health,     \* the HealthMap: [fails, told] of the names that have an entry
    flights,    \* the dispatches
    streaks,    \* history: streaks[c], what befell c in the order of the counts,
                \*   with the threshold and the other channels of that moment
    swaps       \* bound counter

dispatchVars == <<notifier, health, flights, streaks, swaps>>

MAX_ATTEMPTS == 3
Answers == {"accepted", "transient", "refused", "too_large"}
Outcomes == {"pending", "ok", "failed", "rejected"}
Healthy == [fails |-> 0, told |-> FALSE]
Grounded == [pc |-> "idle", by |-> [channels |-> <<>>, threshold |-> 1],
             to |-> {}, outcome |-> <<>>, warn |-> <<>>]

\* fail_threshold.max(1)
Built(d) == [d EXCEPT !.threshold = IF @ = 0 THEN 1 ELSE @]

Named(d) == {d.channels[i] : i \in DOMAIN d.channels}

DispatchInit ==
    /\ notifier \in {Built(d) : d \in Dispatchers}
    /\ health = <<>>
    /\ flights = [f \in Flights |-> Grounded]
    /\ streaks = [c \in Channels |-> <<>>]
    /\ swaps = 0

---------------------------------------------------------------------------
(* One delivery *)

\* send_retrying: the first answer that is not transient decides; the last of
\* MAX_ATTEMPTS transient ones (5xx, 429, network) is a failure.
SendRetrying(answers) ==
    LET decisive == {i \in 1..MAX_ATTEMPTS : answers[i] # "transient"} IN
    IF decisive = {} THEN "failed"
    ELSE LET answer == answers[CHOOSE i \in decisive : \A j \in decisive : i <= j]
         IN CASE answer = "accepted" -> "ok"
              [] answer = "too_large" -> "rejected"
              [] answer = "refused" -> "failed"

Deliveries == {SendRetrying(answers) : answers \in [1..MAX_ATTEMPTS -> Answers]}

\* The matching channels.
Targets(d, only) == Named(d) \cap only

Launch(f, only) ==
    /\ flights[f].pc = "idle"
    /\ flights' = [flights EXCEPT ![f] =
          [pc |-> "sending", by |-> notifier, to |-> Targets(notifier, only),
           outcome |-> [c \in Targets(notifier, only) |-> "pending"], warn |-> <<>>]]

Deliver(f, c) ==
    /\ flights[f].pc = "sending"
    /\ c \in DOMAIN flights[f].outcome /\ flights[f].outcome[c] = "pending"
    /\ \E outcome \in Deliveries : flights' = [flights EXCEPT ![f].outcome[c] = outcome]
    /\ UNCHANGED <<notifier, health, streaks, swaps>>

---------------------------------------------------------------------------
(* The health of the channels *)

HealthOf(c) == IF c \in DOMAIN health THEN health[c] ELSE Healthy

\* Mutant: a lone channel latches its flag too.
AnyoneOrNot(d, c) == TRUE

HasOthers(d, c) == Named(d) # {c}

Crosses(d, c, h) == h.fails >= d.threshold /\ ~h.told /\ HasOthers(d, c)

\* Mutant: a payload refused as too large extends the streak.
CountedTooLarge(outcome) == outcome # "pending"

\* A payload refused as too large neither extends nor forgives the streak.
Counts(outcome) == outcome # "rejected"

Updated(d, c, outcome) ==
    IF outcome = "ok" THEN Healthy
    ELSE LET h == [HealthOf(c) EXCEPT !.fails = @ + 1]
         IN [h EXCEPT !.told = @ \/ Crosses(d, c, h)]

Triggered(d, c, outcome) ==
    outcome = "failed" /\ Crosses(d, c, [HealthOf(c) EXCEPT !.fails = @ + 1])

Befell(what, d, c) == [is |-> what, threshold |-> d.threshold, others |-> Named(d) \ {c}]
Told(d, c) == IF Named(d) \ {c} = {} THEN <<>> ELSE <<Befell("alarm", d, c)>>

Landing(warn) ==
    [Grounded EXCEPT !.pc = IF warn = <<>> THEN "done" ELSE "warning", !.warn = warn]

\* The outcomes of a flight, applied under the lock of the map; the watchdog
\* alerts then go out in configuration order.
Count(f) ==
    LET flight == flights[f]
        d == flight.by
        counted == {c \in flight.to : Counts(flight.outcome[c])}
        trig == {c \in counted : Triggered(d, c, flight.outcome[c])}
    IN
    /\ flight.pc = "sending"
    /\ \A c \in DOMAIN flight.outcome : flight.outcome[c] # "pending"
    /\ health' = [c \in DOMAIN health \cup counted |->
                     IF c \in counted THEN Updated(d, c, flight.outcome[c]) ELSE health[c]]
    /\ flights' = [flights EXCEPT ![f] = Landing(SelectSeq(d.channels, LAMBDA c : c \in trig))]
    /\ streaks' = [c \in Channels |->
                      IF c \notin flight.to THEN streaks[c]
                      ELSE streaks[c] \o <<Befell(flight.outcome[c], d, c)>>
                              \o (IF c \in trig THEN Told(d, c) ELSE <<>>)]
    /\ UNCHANGED <<notifier, swaps>>

\* One watchdog alert, fanned out with no tracking to the other channels of
\* the flight's dispatcher; nobody reads how it ends.
Warn(f) ==
    /\ flights[f].pc = "warning"
    /\ flights' = [flights EXCEPT ![f] = Landing(Tail(flights[f].warn))]
    /\ UNCHANGED <<notifier, health, streaks, swaps>>

---------------------------------------------------------------------------
(* A reload *)

\* Mutant: the counters are not carried over.
CarriedNothing(d) == <<>>

\* with_health: the shared map, without the names that are gone.
Carried(d) == [c \in DOMAIN health \cap Named(d) |-> health[c]]

Swap(d) ==
    /\ swaps < MaxSwaps /\ swaps' = swaps + 1
    /\ notifier' = Built(d)
    /\ health' = Carried(d)
    /\ streaks' = [c \in Channels |->
                      IF c \in Named(d) THEN streaks[c] ELSE Append(streaks[c], Befell("dropped", Built(d), c))]
    /\ UNCHANGED flights

Flying(f) == Warn(f) \/ Count(f) \/ \E c \in Channels : Deliver(f, c)

---------------------------------------------------------------------------
(* The streak a position of the history belongs to: what came since the    *)
(* last success, or since the name left the configuration.                 *)

StreakAt(c, i) ==
    LET ends == {j \in 1..(i - 1) : streaks[c][j].is \in {"ok", "dropped"}}
    IN {j \in 1..(i - 1) : \A e \in ends : e < j}

Failures(c, at) == Cardinality({j \in at : streaks[c][j].is = "failed"})

\* Two reloads and dispatches that end in any order: the other channels are
\* told of a failing channel at most once before it delivers again.
OneAlarmPerStreak ==
    \A c \in Channels : \A i \in DOMAIN streaks[c] :
        streaks[c][i].is = "alarm" => \A j \in StreakAt(c, i) : streaks[c][j].is # "alarm"

\* A channel is reported only after the configured number of deliveries
\* really failed in a row; one that answered "too_large" answered.
AlarmIsDeserved ==
    \A c \in Channels : \A i \in DOMAIN streaks[c] :
        streaks[c][i].is = "alarm" => Failures(c, StreakAt(c, i)) >= streaks[c][i].threshold

\* A channel that failed as often as the threshold of the moment asks has been
\* reported by then, across reloads, once there is another channel to tell.
SilenceIsNoticed ==
    \A c \in Channels : \A i \in DOMAIN streaks[c] :
        /\ streaks[c][i].is = "failed" /\ streaks[c][i].others # {}
        /\ Failures(c, StreakAt(c, i) \cup {i}) >= streaks[c][i].threshold
        => \E j \in (StreakAt(c, i) \cup {i + 1}) \cap DOMAIN streaks[c] :
               streaks[c][j].is = "alarm"

\* A channel that fails is reported once per streak, after as many failures as
\* the threshold asks and not later, whatever the dispatches race with.
AlarmsAreRight == OneAlarmPerStreak /\ AlarmIsDeserved /\ SilenceIsNoticed
=============================================================================
