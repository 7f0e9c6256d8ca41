---------------------------- MODULE PushedAlerts ----------------------------
(***************************************************************************)
(* POST /api/monitors/{id}/alert: the handler (handlers/push.rs), the      *)
(* anti-flood window of its dedup keys (flood.rs), the row it records and  *)
(* the dispatch it spawns, over the dispatcher of Dispatcher.              *)
(*                                                                         *)
(* One monitor; a request carries a dedup key or NoKey.  Authentication    *)
(* and the validation of the body come before any state and leave it       *)
(* alone.  The configuration a request goes by is the one it was received  *)
(* under, the channels those in force when its spawned task first runs.    *)
(* A behaviour exercises the windows or the channels (scene), so that each *)
(* has room: repeats of a key over one channel that works, or alerts with  *)
(* no key, handled one at a time, over channels that fail and change.      *)
(***************************************************************************)
EXTENDS Dispatcher

CONSTANTS
    Keys,         \* dedup keys
    NoKey,        \* a request without one
    Windows,      \* what alerts.push_alert_window_secs may be
    Routes,       \* what the monitor's notify may be: sets of names
    MaxClock,     \* bound: the clock
    MaxPushFaults \* bound: inserts that fail, clients that hang up, restarts

ASSUME PushAssumption ==
    /\ NoKey \notin Keys /\ Windows \subseteq Nat /\ Routes \subseteq SUBSET Channels
    /\ {MaxClock, MaxPushFaults} \subseteq Nat

VARIABLES
    clock,      \* the wall clock
    config,     \* [window, notify]
    flood,      \* the slots of the keys that have one: [sentAt, suppressed]
    request,    \* the requests, one per flight
    recorded,       \* the requests whose alert is in pushed_alerts
    spawned,    \* dispatches spawned and not started yet
    life,       \* restarts so far
    scene,      \* bound: what this behaviour exercises
    pushFaults  \* bound counter

pushVars == <<clock, config, flood, request, recorded, spawned, life, scene, pushFaults>>
pushedVars == <<dispatchVars, pushVars>>

Unsent == [pc |-> "idle", key |-> NoKey, window |-> 0, notify |-> {}, at |-> 0, life |-> 0]
Configured == {[window |-> w, notify |-> n] : w \in Windows, n \in Routes}

PushInit ==
    /\ clock = 0 /\ config \in Configured
    /\ flood = <<>>
    /\ request = [f \in Flights |-> Unsent]
    /\ recorded = {} /\ spawned = {} /\ life = 0 /\ pushFaults = 0
    /\ scene \in {"windows", "channels"}
    /\ scene = "windows" => Cardinality(Named(notifier)) = 1 /\ config.notify = Named(notifier)

PushFault == pushFaults < MaxPushFaults /\ pushFaults' = pushFaults + 1

Tick ==
    /\ scene = "windows" /\ clock < MaxClock /\ clock' = clock + 1
    /\ UNCHANGED <<dispatchVars, config, flood, request, recorded, spawned, life, scene,
                   pushFaults>>

Reload(d, c) ==
    /\ Swap(d) /\ config' = c
    /\ c.notify = config.notify
    /\ scene = "windows" => Built(d) = notifier
    /\ scene = "channels" => c.window = config.window
    /\ UNCHANGED <<scene, clock, flood, request, recorded, spawned, life, pushFaults>>

Receive(f, key) ==
    /\ request[f].pc = "idle" /\ \A g \in Flights : g < f => request[g].pc # "idle"
    /\ scene = "channels" =>
          key = NoKey /\ spawned = {} /\ \A g \in Flights : request[g].pc \notin {"admit", "insert"}
    /\ request' = [request EXCEPT ![f] =
          [pc |-> "admit", key |-> key, window |-> config.window,
           notify |-> config.notify, at |-> clock, life |-> life]]
    /\ UNCHANGED <<scene, dispatchVars, clock, config, flood, recorded, spawned, life, pushFaults>>

---------------------------------------------------------------------------
(* Flood::admit, under its mutex *)

\* Mutant: a window closes one second early.
StillOpenOff(slot, now, window) == now - slot.sentAt < window - 1

StillOpen(slot, now, window) == now - slot.sentAt < window

Kept(now, window) ==
    [k \in {k \in DOMAIN flood : StillOpen(flood[k], now, window)} |-> flood[k]]

Exempt(r) == r.key = NoKey \/ r.window <= 0

AdmitAlways(f) ==
    /\ request[f].pc = "admit" /\ Exempt(request[f])
    /\ request' = [request EXCEPT ![f].pc = "insert"]
    /\ UNCHANGED <<scene, dispatchVars, clock, config, flood, recorded, spawned, life, pushFaults>>

Admit(f) ==
    LET r == request[f]
        kept == Kept(r.at, r.window)
    IN
    /\ r.pc = "admit" /\ ~Exempt(r)
    /\ \/ /\ r.key \in DOMAIN kept
          /\ flood' = [kept EXCEPT ![r.key].suppressed = @ + 1]
          /\ request' = [request EXCEPT ![f].pc = "coalesced"]
       \/ /\ r.key \notin DOMAIN kept
          /\ flood' = [k \in DOMAIN kept \cup {r.key} |->
                          IF k = r.key THEN [sentAt |-> r.at, suppressed |-> 0] ELSE kept[k]]
          /\ request' = [request EXCEPT ![f].pc = "insert"]
    /\ UNCHANGED <<scene, dispatchVars, clock, config, recorded, spawned, life, pushFaults>>

---------------------------------------------------------------------------
(* The row, then the dispatch *)

\* Mutant: the dispatch is not spawned.
SpawnedNever(f) == spawned

Spawned(f) == spawned \cup {f}

Insert(f) ==
    /\ request[f].pc = "insert"
    /\ recorded' = recorded \cup {f}
    /\ spawned' = Spawned(f)
    /\ request' = [request EXCEPT ![f].pc = "dispatched"]
    /\ UNCHANGED <<scene, dispatchVars, clock, config, flood, life, pushFaults>>

\* The insert fails: a 500, and the window of the key stays open.
InsertFails(f) ==
    /\ scene = "windows" /\ request[f].pc = "insert" /\ PushFault
    /\ request' = [request EXCEPT ![f].pc = "error"]
    /\ UNCHANGED <<scene, dispatchVars, clock, config, flood, recorded, spawned, life>>

\* The client hangs up: the handler is dropped at its one .await, the row
\* written or not.
HangUp(f) ==
    /\ scene = "windows" /\ request[f].pc = "insert" /\ PushFault
    /\ recorded' \in {recorded, recorded \cup {f}}
    /\ request' = [request EXCEPT ![f].pc = "gone"]
    /\ UNCHANGED <<scene, dispatchVars, clock, config, flood, spawned, life>>

\* The spawned task: notifier.load_full().dispatch(..).
StartDispatch(f) ==
    /\ f \in spawned
    /\ spawned' = spawned \ {f}
    /\ Launch(f, request[f].notify)
    /\ UNCHANGED <<scene, notifier, health, streaks, swaps,
                   clock, config, flood, request, recorded, life, pushFaults>>

\* A crash: the windows, the counters and the dispatches are gone.
Restart ==
    /\ scene = "windows" /\ PushFault /\ life' = life + 1
    /\ flood' = <<>> /\ health' = <<>> /\ spawned' = {}
    /\ flights' = [f \in Flights |->
          IF request[f].pc = "idle" THEN Grounded ELSE [Grounded EXCEPT !.pc = "done"]]
    /\ request' = [f \in Flights |->
          IF request[f].pc \in {"admit", "insert"} THEN [request[f] EXCEPT !.pc = "gone"]
          ELSE request[f]]
    /\ streaks' = [c \in Channels |-> Append(streaks[c], Befell("dropped", notifier, c))]
    /\ UNCHANGED <<scene, notifier, swaps, clock, config, recorded>>

Handle(f) == Admit(f) \/ AdmitAlways(f) \/ Insert(f) \/ StartDispatch(f)
Fly(f) ==
    /\ Flying(f) /\ UNCHANGED pushVars
    /\ scene = "windows" =>
          \A c \in DOMAIN flights'[f].outcome : flights'[f].outcome[c] \in {"pending", "ok"}

PushNext ==
    \/ Tick \/ Restart
    \/ \E d \in Dispatchers, c \in Configured : Reload(d, c)
    \/ \E f \in Flights :
          \/ \E k \in Keys \cup {NoKey} : Receive(f, k)
          \/ Handle(f) \/ InsertFails(f) \/ HangUp(f) \/ Fly(f)

PushSpec == DispatchInit /\ PushInit /\ [][PushNext]_pushedVars

---------------------------------------------------------------------------
(* Properties *)

InWindow(f, g) == request[f].at - request[g].at \in -(request[g].window - 1)..(request[f].window - 1)

Sent(f) == request[f].pc = "dispatched"

\* A request of another key was stamped after the window of g closed, by its
\* own window, and went through the mutex: it prunes the slot of every key.
Pruned(h, g) ==
    /\ request[h].pc \notin {"idle", "admit"} /\ ~Exempt(request[h])
    /\ request[h].key # request[g].key /\ request[h].life = request[g].life
    /\ request[h].at - request[g].at >= request[h].window

\* Concurrent repeats of one key within its window page once, whatever the
\* order in which they reach the mutex, until a restart, a shorter window, or a
\* later request of another key that finds the window over.
OnePerWindow ==
    \A f, g \in Flights :
        /\ f # g /\ Sent(f) /\ Sent(g) /\ request[f].life = request[g].life
        /\ request[f].key = request[g].key /\ ~Exempt(request[f]) /\ ~Exempt(request[g])
        /\ InWindow(f, g)
        => \E h \in Flights : Pruned(h, f) \/ Pruned(h, g)
=============================================================================
