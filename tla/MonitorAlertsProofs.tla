------------------------ MODULE MonitorAlertsProofs ------------------------
(***************************************************************************)
(* Theorems about the monitor loops, for every set of monitors, threshold  *)
(* and bound.                                                              *)
(***************************************************************************)
EXTENDS MonitorAlerts, TLAPS, SequenceTheorems

(* The inductive invariant.  What a task may assume at each .await: the     *)
(* level and the incident it holds cannot change under it, because every    *)
(* interruption takes the task back to "attach".                            *)

\* A monitor is never announced at the levels of a peer.
MonitorLevel(s) == s.level \in {"healthy", "degraded", "down"}

AwaitInv(m) ==
    /\ cell[m] # NoState => MonitorLevel(cell[m])
    /\ MonitorLevel(state[m])
    /\ open_incident[m] => incidents[m] # <<>>
    /\ pc[m] \in {"record", "close"} => ~open_incident[m]
    /\ pc[m] = "close" => cell[m] = state[m]
    /\ pc[m] = "seed" =>
          /\ cell[m] = NoState /\ incidents[m] # <<>>
          /\ state[m] = ResumedDown
    /\ pc[m] \in {"record", "ask"} => state[m].level # "down"
    /\ pc[m] = "reask" => Entry(state[m]) = "local"
    /\ pc[m] \in {"route", "announce"} =>
          state[m].level # "down" \/ (Entry(state[m]) = "local" /\ ~tick[m].local)
    /\ pc[m] \in {"ask", "route", "announce"} /\ state[m].level # "down" =>
          open_incident[m] \/ failures > 0
    /\ pc[m] = "route" => open_incident[m]
    /\ pc[m] = "tell" => AlertOnDegraded /\ state[m].level # "degraded"

MonitorInv(m) ==
    /\ Len(incidents[m]) <= failures + Held(m)
    /\ pc[m] = "idle" => cell[m] = state[m]
    /\ pc[m] \notin {"attach", "seed"} => Entry(cell[m]) = Entry(state[m])
    /\ AwaitInv(m)

LoopInv == LoopTypeOK /\ \A m \in Monitors : MonitorInv(m)

---------------------------------------------------------------------------
(* The alert state machine *)

\* The observations of one tick keep a state a state, and leave alone the level
\* and the local-only mark, but that a healthy tick clears the mark.
LEMMA ObserveKeepsType ==
    ASSUME NEW s \in AlertStates
    PROVE  /\ ObserveDown(s) \in AlertStates
           /\ ObserveDegraded(s) \in AlertStates
           /\ ObserveUp(s) \in AlertStates
<1>1. \A n \in 0..FailThreshold : Count(n) \in 0..FailThreshold
  BY FailThresholdAssumption DEF FailThresholdAssumption, Count
<1>2. 0 \in 0..FailThreshold
  BY FailThresholdAssumption DEF FailThresholdAssumption
<1>3. ObserveDown(s) \in AlertStates
  BY <1>1, <1>2 DEF ObserveDown, AlertStates
<1>4. ObserveDegraded(s) \in AlertStates
  BY <1>1, <1>2 DEF ObserveDegraded, AlertStates
<1>5. ObserveUp(s) \in AlertStates
  BY <1>2 DEF ObserveUp, AlertStates
<1> QED BY <1>3, <1>4, <1>5

LEMMA ObserveKeepsLevel ==
    ASSUME NEW s \in AlertStates
    PROVE  /\ ObserveDown(s).level = s.level
           /\ ObserveDown(s).local_only_asked = s.local_only_asked
           /\ ObserveDegraded(s).level = s.level
           /\ ObserveDegraded(s).local_only_asked = s.local_only_asked
           /\ ObserveUp(s).level = s.level
BY DEF AlertStates, ObserveDown, ObserveDegraded, ObserveUp

LEMMA StartStates == Fresh \in AlertStates /\ ResumedDown \in AlertStates
<1>1. FailThreshold \in 0..FailThreshold /\ 0 \in 0..FailThreshold
  BY FailThresholdAssumption DEF FailThresholdAssumption
<1>2. Fresh \in AlertStates
  BY <1>1 DEF Fresh, AlertStates, Levels
<1>3. ResumedDown \in AlertStates
  BY <1>1, <1>2 DEF ResumedDown, AlertStates, Levels
<1> QED BY <1>2, <1>3

---------------------------------------------------------------------------
(* The parts of a tick *)

\* What a step of another monitor, or of the coalescer, leaves to m.
Untouched(m) ==
    /\ pc'[m] = pc[m] /\ state'[m] = state[m] /\ cell'[m] = cell[m]
    /\ open_incident'[m] = open_incident[m] /\ tick'[m] = tick[m]
    /\ incidents'[m] = incidents[m]
    /\ failures' \in Nat /\ failures' >= failures

LEMMA Frame ==
    ASSUME LoopTypeOK, NEW m \in Monitors, MonitorInv(m), Untouched(m)
    PROVE  MonitorInv(m)'
<1>1. Len(incidents[m]) \in Nat /\ failures \in Nat
  BY MonitorLoopAssumption DEF LoopTypeOK, MonitorLoopAssumption
<1>2. Len(incidents'[m]) <= failures' + Held(m)'
  BY <1>1 DEF MonitorInv, Held, Untouched
<1>3. AwaitInv(m)'
  BY <1>1 DEF MonitorInv, AwaitInv, Untouched
<1> QED BY <1>2, <1>3 DEF MonitorInv, Untouched

\* Where a tick of m may stop, and with what.
Stopped(m, where, s, c) ==
    /\ where \in {"idle", "burn", "record", "ask", "reask", "tell"}
    /\ s \in AlertStates /\ c \in AlertStates
    /\ MonitorLevel(s) /\ Entry(c) = Entry(s) /\ MonitorLevel(c)
    /\ where = "idle" => c = s
    /\ where = "record" => s.level # "down" /\ ~open_incident'[m]
    /\ where = "ask" => s.level # "down" /\ open_incident'[m]
    /\ where = "reask" => Entry(s) = "local"
    /\ where = "tell" => AlertOnDegraded /\ s.level # "degraded"

\* What a tick of m tells the coalescer: nothing, or its recovery.
Tells(m, before, after) ==
    \/ inbox' = inbox /\ Entry(after) = Entry(before)
    \/ /\ Entry(before) \in {"degraded", "local", "down"}
       /\ Entry(after) = "healthy"
       /\ inbox' = Append(inbox, Recovered(m))

\* The reaction to an outcome, from a state s whose entry the cell holds.
LEMMA ReactStops ==
    ASSUME NEW m \in Monitors, NEW outcome \in Outcomes,
           NEW s \in AlertStates, NEW c \in AlertStates,
           MonitorLevel(s), MonitorLevel(c), Entry(c) = Entry(s),
           open_incident'[m] = open_incident[m],
           React(m, outcome, s, c)
    PROVE  \E where \in Awaits, s2 \in AlertStates, c2 \in AlertStates :
              /\ Suspend(m, where, s2, c2)
              /\ Stopped(m, where, s2, c2)
              /\ Tells(m, c, c2)
<1> DEFINE Goal(where, s2, c2) ==
              /\ Suspend(m, where, s2, c2)
              /\ Stopped(m, where, s2, c2)
              /\ Tells(m, c, c2)
<1>0. s # NoState /\ c # NoState /\ \A t \in AlertStates : t # NoState
  BY MonitorLoopAssumption DEF MonitorLoopAssumption
<1>1. CASE ReactDown(m, s, c)
  <2> DEFINE seen == ObserveDown(s)
  <2>1. /\ seen \in AlertStates /\ seen.level = s.level
        /\ seen.local_only_asked = s.local_only_asked
    BY ObserveKeepsType, ObserveKeepsLevel
  <2>2. Entry(seen) = Entry(s) /\ MonitorLevel(seen)
    BY <2>1, <1>0 DEF Entry, MonitorLevel
  <2>3. inbox' = inbox
    BY <1>1 DEF ReactDown
  <2>4. CASE ConfirmsDown(seen) /\ Suspend(m, Confirmation(m), seen, c)
    <3>1. seen.level # "down"
      BY <2>4 DEF ConfirmsDown
    <3>2. Goal(Confirmation(m), seen, c)
      BY <2>1, <2>2, <2>3, <2>4, <3>1 DEF Stopped, Tells, Confirmation
    <3>3. Confirmation(m) \in Awaits
      BY DEF Confirmation, Awaits
    <3> QED BY <3>2, <3>3, <2>1
  <2>5. CASE AwaitsPeers(seen) /\ Suspend(m, "reask", seen, c)
    <3>1. Entry(seen) = "local"
      BY <2>1, <2>5, <1>0 DEF AwaitsPeers, Entry
    <3>2. Goal("reask", seen, c)
      BY <2>1, <2>2, <2>3, <2>5, <3>1 DEF Stopped, Tells
    <3> QED BY <3>2, <2>1 DEF Awaits
  <2>6. CASE Settle(m, seen)
    <3>1. Goal("idle", seen, seen)
      BY <2>1, <2>2, <2>3, <2>6 DEF Stopped, Tells, Settle
    <3> QED BY <3>1, <2>1 DEF Awaits
  <2> QED BY <1>1, <2>4, <2>5, <2>6 DEF ReactDown
<1>2. CASE AlertOnDegraded /\ ReactDegraded(m, s, c)
  <2> DEFINE seen == ObserveDegraded(s)
  <2>1. /\ seen \in AlertStates /\ seen.level = s.level
        /\ seen.local_only_asked = s.local_only_asked
    BY ObserveKeepsType, ObserveKeepsLevel
  <2>2. Entry(seen) = Entry(s) /\ MonitorLevel(seen)
    BY <2>1, <1>0 DEF Entry, MonitorLevel
  <2>3. inbox' = inbox
    BY <1>2 DEF ReactDegraded
  <2>4. CASE ConfirmsDegraded(seen) /\ Suspend(m, "tell", seen, c)
    <3>1. seen.level # "degraded"
      BY <2>4 DEF ConfirmsDegraded
    <3>2. Goal("tell", seen, c)
      BY <1>2, <2>1, <2>2, <2>3, <2>4, <3>1 DEF Stopped, Tells
    <3> QED BY <3>2, <2>1 DEF Awaits
  <2>5. CASE Settle(m, seen)
    <3>1. Goal("idle", seen, seen)
      BY <2>1, <2>2, <2>3, <2>5 DEF Stopped, Tells, Settle
    <3> QED BY <3>1, <2>1 DEF Awaits
  <2> QED BY <1>2, <2>4, <2>5 DEF ReactDegraded
<1>3. CASE ReactUp(m, s)
  <2> DEFINE seen == ObserveUp(s)
             well == [seen EXCEPT !.level = "healthy"]
  <2>1. seen \in AlertStates /\ seen.level = s.level
    BY ObserveKeepsType, ObserveKeepsLevel
  <2>2. CASE EndsAlert(seen) /\ Send(Recovered(m)) /\ Settle(m, well)
    <3>1. well \in AlertStates /\ well.level = "healthy"
      BY <2>1 DEF AlertStates, Levels
    <3>2. Entry(well) = "healthy" /\ MonitorLevel(well)
      BY <3>1, <1>0 DEF Entry, MonitorLevel
    <3>3. Entry(c) \in {"degraded", "local", "down"}
      BY <2>1, <2>2, <1>0 DEF EndsAlert, Entry, MonitorLevel
    <3>4. Goal("idle", well, well)
      BY <2>2, <3>1, <3>2, <3>3 DEF Stopped, Tells, Settle, Send
    <3> QED BY <3>1, <3>4 DEF Awaits
  <2>3. CASE ~EndsAlert(seen) /\ Settle(m, seen) /\ inbox' = inbox
    <3>1. Entry(seen) = Entry(s) /\ MonitorLevel(seen)
      BY <2>1, <2>3, <1>0 DEF EndsAlert, Entry, MonitorLevel
    <3>2. Goal("idle", seen, seen)
      BY <2>1, <2>3, <3>1 DEF Stopped, Tells, Settle
    <3> QED BY <2>1, <3>2 DEF Awaits
  <2> QED BY <1>3, <2>2, <2>3 DEF ReactUp
<1> QED BY <1>1, <1>2, <1>3 DEF React

\* The same of an outcome that may be muted, or have its burn rate looked at.
LEMMA JudgeStops ==
    ASSUME NEW m \in Monitors, NEW outcome \in Outcomes, NEW muted \in BOOLEAN,
           state[m] \in AlertStates, cell[m] \in AlertStates,
           MonitorLevel(state[m]), MonitorLevel(cell[m]),
           Entry(cell[m]) = Entry(state[m]),
           muted => cell[m] = state[m],
           open_incident'[m] = open_incident[m],
           Judge(m, outcome, muted)
    PROVE  \E where \in Awaits, s2 \in AlertStates, c2 \in AlertStates :
              /\ Suspend(m, where, s2, c2)
              /\ Stopped(m, where, s2, c2)
              /\ Tells(m, cell[m], c2)
<1>1. CASE muted /\ Suspend(m, "idle", state[m], cell[m]) /\ inbox' = inbox
  BY <1>1 DEF Stopped, Tells, Awaits
<1>2. CASE Suspend(m, "burn", state[m], cell[m]) /\ inbox' = inbox
  BY <1>2 DEF Stopped, Tells, Awaits
<1>3. CASE React(m, outcome, state[m], cell[m])
  BY <1>3, ReactStops
<1> QED BY <1>1, <1>2, <1>3 DEF Judge

---------------------------------------------------------------------------
(* The invariant, action by action *)

\* The variables Suspend does not set.
RestTypeOK ==
    /\ open_incident \in [Monitors -> BOOLEAN]
    /\ tick \in [Monitors ->
                    [outcome: Outcomes, muted: BOOLEAN, local: BOOLEAN]]
    /\ incidents \in [Monitors -> Seq(Routings)]
    /\ inbox \in Seq(AlertMsg)
    /\ failures \in 0..MaxFailures
    /\ aborts \in 0..MaxAborts
    /\ crashes \in 0..MaxCrashes

OnlyOf(m) == \A k \in Monitors \ {m} : Untouched(k)

\* A step of one monitor keeps the invariant if it does so there.
LEMMA OneMonitor ==
    ASSUME LoopInv, NEW m \in Monitors, LoopTypeOK', OnlyOf(m), MonitorInv(m)'
    PROVE  LoopInv'
<1>1. \A k \in Monitors \ {m} : MonitorInv(k)'
  BY Frame DEF LoopInv, OnlyOf
<1> QED BY <1>1 DEF LoopInv

LEMMA SuspendTypeOK ==
    ASSUME LoopTypeOK, RestTypeOK', NEW m \in Monitors, NEW where \in Awaits,
           NEW s \in AlertStates, NEW c \in AlertStates \union {NoState},
           Suspend(m, where, s, c)
    PROVE  /\ LoopTypeOK'
           /\ pc'[m] = where /\ state'[m] = s /\ cell'[m] = c
           /\ \A k \in Monitors \ {m} :
                 pc'[k] = pc[k] /\ state'[k] = state[k] /\ cell'[k] = cell[k]
BY DEF LoopTypeOK, RestTypeOK, Suspend

LEMMA SendTypeOK ==
    ASSUME inbox \in Seq(AlertMsg), NEW m \in Monitors, NEW local \in BOOLEAN
    PROVE  /\ Append(inbox, Down(m, local)) \in Seq(AlertMsg)
           /\ Append(inbox, Recovered(m)) \in Seq(AlertMsg)
           /\ Append(inbox, ResumedLocalOnly(m, local)) \in Seq(AlertMsg)
BY DEF Down, Recovered, ResumedLocalOnly, AlertMsg

\* What a statement leaves to the other monitors, and its budget.
LEMMA StatementEffect ==
    ASSUME LoopTypeOK, NEW ok \in BOOLEAN, Statement(ok)
    PROVE  /\ failures' \in 0..MaxFailures /\ failures' \in Nat
           /\ failures' >= failures
           /\ ok => failures' = failures
           /\ ~ok => failures' = failures + 1
           /\ aborts' \in 0..MaxAborts /\ crashes' \in 0..MaxCrashes
BY MonitorLoopAssumption DEF MonitorLoopAssumption, LoopTypeOK, Statement

LEMMA RowsTypeOK ==
    ASSUME NEW rows \in Seq(Routings), NEW local \in BOOLEAN
    PROVE  /\ Opened(rows) \in Seq(Routings)
           /\ Len(Opened(rows)) = Len(rows) + 1
           /\ Closed(rows) \in Seq(Routings)
           /\ Len(Closed(rows)) <= Len(rows)
           /\ rows # <<>> => Len(Closed(rows)) = Len(rows) - 1
           /\ Routed(rows, local) \in Seq(Routings)
           /\ Len(Routed(rows, local)) = Len(rows)
<1>1. Len(rows) \in Nat /\ (rows # <<>> => Len(rows) > 0) /\ (rows = <<>> => Len(rows) = 0)
  OBVIOUS
<1>2. Opened(rows) \in Seq(Routings) /\ Len(Opened(rows)) = Len(rows) + 1
  <2>1. "unset" \in Routings
    BY DEF Routings
  <2> QED BY <2>1 DEF Opened
<1>3. CASE rows = <<>>
  <2>1. Closed(rows) = rows
    <3>1. SubSeq(rows, 1, Len(rows) - 1) = <<>>
      BY <1>3, <1>1, SubSeqEmpty
    <3> QED BY <1>3, <3>1 DEF Closed
  <2>2. Routed(rows, local) = rows
    BY <1>3, <1>1 DEF Routed
  <2>3. Len(rows) <= Len(rows)
    BY <1>1
  <2>4. /\ Closed(rows) \in Seq(Routings) /\ Len(Closed(rows)) <= Len(rows)
        /\ Routed(rows, local) \in Seq(Routings)
        /\ Len(Routed(rows, local)) = Len(rows)
    BY <2>1, <2>2, <2>3, Zenon
  <2> QED BY <1>2, <1>3, <2>4, Zenon
<1>4. CASE rows # <<>>
  <2>1. Len(rows) \in 1..Len(rows) /\ Len(rows) - 1 \in 0..Len(rows)
    BY <1>1, <1>4
  <2>2. Closed(rows) \in Seq(Routings) /\ Len(Closed(rows)) = Len(rows) - 1
    <3> DEFINE n == Len(rows) - 1
    <3>1. n \in Nat /\ \A i \in 1..n : rows[i] \in Routings
      BY <1>1, <1>4, ElementOfSeq
    <3> HIDE DEF n
    <3>2. /\ SubSeq(rows, 1, n) \in Seq(Routings)
          /\ Len(SubSeq(rows, 1, n)) = IF 1 <= n THEN n - 1 + 1 ELSE 0
      BY <3>1, SubSeqProperties
    <3>3. (IF 1 <= n THEN n - 1 + 1 ELSE 0) = n
      BY <3>1
    <3> QED BY <3>2, <3>3 DEF Closed, n
  <2>3. Routed(rows, local) \in Seq(Routings) /\ Len(Routed(rows, local)) = Len(rows)
    <3>1. (IF local THEN "local" ELSE "confirmed") \in Routings
      BY DEF Routings
    <3> QED BY <1>1, <1>4, <2>1, <3>1, ExceptSeq DEF Routed
  <2> QED BY <1>1, <1>2, <2>2, <2>3
<1> QED BY <1>3, <1>4

LEMMA AttachKeeps ==
    ASSUME LoopInv, NEW m \in Monitors, NEW ok \in BOOLEAN, Attach(m, ok)
    PROVE  LoopInv'
<1>1. PICK where \in {"idle", "seed"}, s \in AlertStates,
           c \in AlertStates \union {NoState} :
        /\ Suspend(m, where, s, c)
        /\ where = "idle" => s = c /\ MonitorLevel(s)
        /\ where = "seed" => s = ResumedDown /\ c = NoState /\ Found(m, ok)
  <2>1. cell[m] # NoState => cell[m] \in AlertStates /\ MonitorLevel(cell[m])
    BY DEF LoopInv, LoopTypeOK, MonitorInv, AwaitInv
  <2>2. MonitorLevel(Fresh)
    BY DEF MonitorLevel, Fresh
  <2> QED BY <2>1, <2>2, StartStates DEF Attach, Settle
<1>2. /\ open_incident' = [open_incident EXCEPT ![m] = Found(m, ok)]
      /\ UNCHANGED <<tick, incidents, inbox>>
      /\ Statement(ok) /\ pc[m] = "attach"
  BY DEF Attach
<1>3. RestTypeOK'
  BY <1>2, StatementEffect DEF LoopInv, LoopTypeOK, RestTypeOK, Found
<1>4. /\ LoopTypeOK'
      /\ pc'[m] = where /\ state'[m] = s /\ cell'[m] = c
      /\ \A k \in Monitors \ {m} :
            pc'[k] = pc[k] /\ state'[k] = state[k] /\ cell'[k] = cell[k]
  BY <1>1, <1>3, SuspendTypeOK DEF LoopInv, Awaits
<1>5. OnlyOf(m)
  BY <1>2, <1>4, StatementEffect DEF OnlyOf, Untouched, LoopInv, LoopTypeOK
<1>6. open_incident'[m] = Found(m, ok)
  BY <1>2 DEF LoopInv, LoopTypeOK
<1>7. Len(incidents'[m]) <= failures' + Held(m)'
  <2>1. Len(incidents[m]) \in Nat /\ failures \in Nat /\ Len(<<>>) = 0
    BY MonitorLoopAssumption DEF MonitorLoopAssumption, LoopInv, LoopTypeOK
  <2>2. Len(incidents[m]) <= failures + 1
    BY <1>2 DEF LoopInv, MonitorInv, Held
  <2> QED BY <1>1, <1>2, <1>4, <1>6, <2>1, <2>2, StatementEffect
          DEF Found, Held, LoopInv
<1>8. MonitorLevel(ResumedDown)
  BY DEF MonitorLevel, ResumedDown, Fresh
<1>9. MonitorInv(m)'
  BY <1>1, <1>2, <1>4, <1>6, <1>7, <1>8 DEF MonitorInv, AwaitInv, Found
<1> QED BY <1>4, <1>5, <1>9, OneMonitor

LEMMA SeedKeeps ==
    ASSUME LoopInv, NEW m \in Monitors, NEW ok \in BOOLEAN, Seed(m, ok)
    PROVE  LoopInv'
<1>1. PICK s \in AlertStates : Suspend(m, "idle", s, s) /\ MonitorLevel(s)
  <2>1. \A local \in BOOLEAN :
          LET s == [state[m] EXCEPT !.local_only_asked = local]
          IN  s \in AlertStates /\ s.level = state[m].level
    BY DEF LoopInv, LoopTypeOK, AlertStates
  <2>2. MonitorLevel(state[m])
    BY DEF LoopInv, MonitorInv, AwaitInv
  <2> QED BY <2>1, <2>2 DEF Seed, Settle, MonitorLevel
<1>2. /\ UNCHANGED <<open_incident, tick, incidents>>
      /\ Statement(ok) /\ pc[m] = "seed"
  BY DEF Seed
<1>3. inbox' \in Seq(AlertMsg)
  <2>1. inbox \in Seq(AlertMsg)
    BY DEF LoopInv, LoopTypeOK
  <2>2. \A confirmed \in BOOLEAN :
           Append(inbox, ResumedLocalOnly(m, confirmed)) \in Seq(AlertMsg)
    BY <2>1, SendTypeOK
  <2> QED BY <2>1, <2>2 DEF Seed, TellsRouting, Send
<1>4. RestTypeOK'
  BY <1>2, <1>3, StatementEffect DEF LoopInv, LoopTypeOK, RestTypeOK
<1>5. /\ LoopTypeOK'
      /\ pc'[m] = "idle" /\ state'[m] = s /\ cell'[m] = s
      /\ \A k \in Monitors \ {m} :
            pc'[k] = pc[k] /\ state'[k] = state[k] /\ cell'[k] = cell[k]
  BY <1>1, <1>4, SuspendTypeOK DEF LoopInv, Awaits
<1>6. OnlyOf(m)
  BY <1>2, <1>5, StatementEffect DEF OnlyOf, Untouched, LoopInv, LoopTypeOK
<1>7. Len(incidents'[m]) <= failures' + Held(m)'
  <2>1. Len(incidents[m]) \in Nat /\ failures \in Nat
    BY MonitorLoopAssumption DEF MonitorLoopAssumption, LoopInv, LoopTypeOK
  <2>2. Len(incidents[m]) <= failures + Held(m)
    BY DEF LoopInv, MonitorInv
  <2> QED BY <1>2, <1>5, <2>1, <2>2, StatementEffect DEF Held, LoopInv
<1>8. MonitorInv(m)'
  BY <1>1, <1>2, <1>5, <1>7 DEF MonitorInv, AwaitInv, LoopInv
<1> QED BY <1>5, <1>6, <1>8, OneMonitor

\* A step that ends where a tick may stop keeps the invariant, if the incidents
\* of its monitor are in order.
LEMMA StoppedKeeps ==
    ASSUME LoopInv, RestTypeOK', NEW m \in Monitors, NEW where \in Awaits,
           NEW s \in AlertStates, NEW c \in AlertStates,
           Suspend(m, where, s, c), Stopped(m, where, s, c),
           failures' >= failures,
           \A k \in Monitors \ {m} :
              /\ open_incident'[k] = open_incident[k] /\ tick'[k] = tick[k]
              /\ incidents'[k] = incidents[k],
           open_incident'[m] => incidents'[m] # <<>>,
           Len(incidents'[m]) <= failures' + IF open_incident'[m] THEN 1 ELSE 0
    PROVE  LoopInv'
<1>1. /\ LoopTypeOK'
      /\ pc'[m] = where /\ state'[m] = s /\ cell'[m] = c
      /\ \A k \in Monitors \ {m} :
            pc'[k] = pc[k] /\ state'[k] = state[k] /\ cell'[k] = cell[k]
  BY SuspendTypeOK DEF LoopInv
<1>2. failures' \in Nat
  BY MonitorLoopAssumption DEF MonitorLoopAssumption, RestTypeOK
<1>3. OnlyOf(m)
  BY <1>1, <1>2 DEF OnlyOf, Untouched
<1>4. AwaitInv(m)'
  BY <1>1 DEF AwaitInv, Stopped
<1>5. Len(incidents'[m]) <= failures' + Held(m)'
  BY <1>1 DEF Held, Stopped
<1>6. MonitorInv(m)'
  BY <1>1, <1>4, <1>5 DEF MonitorInv, Stopped
<1> QED BY <1>1, <1>3, <1>6, OneMonitor

\* What a task knows of its state, its cell and its incidents in a tick.
LEMMA InTick ==
    ASSUME LoopInv, NEW m \in Monitors, pc[m] \notin {"attach", "seed"}
    PROVE  /\ state[m] \in AlertStates /\ cell[m] \in AlertStates
           /\ MonitorLevel(state[m]) /\ MonitorLevel(cell[m])
           /\ Entry(cell[m]) = Entry(state[m])
           /\ pc[m] \in {"idle", "close"} => cell[m] = state[m]
           /\ Len(incidents[m]) \in Nat /\ failures \in Nat
<1>1. /\ state[m] \in AlertStates /\ cell[m] \in AlertStates \union {NoState}
      /\ state[m] # NoState
      /\ Len(incidents[m]) \in Nat /\ failures \in Nat
  BY MonitorLoopAssumption DEF MonitorLoopAssumption, LoopInv, LoopTypeOK
<1>2. MonitorLevel(state[m]) /\ Entry(cell[m]) = Entry(state[m])
  BY DEF LoopInv, MonitorInv, AwaitInv
<1>3. Entry(state[m]) # "unknown"
  BY <1>1, <1>2 DEF Entry, MonitorLevel
<1>4. cell[m] # NoState
  BY <1>2, <1>3 DEF Entry
<1> QED BY <1>1, <1>2, <1>4 DEF LoopInv, MonitorInv, AwaitInv

\* What a tick tells the coalescer is a message.
LEMMA TellsTypeOK ==
    ASSUME inbox \in Seq(AlertMsg), NEW m \in Monitors, NEW before, NEW after,
           Tells(m, before, after)
    PROVE  inbox' \in Seq(AlertMsg)
BY SendTypeOK DEF Tells

LEMMA TickKeeps ==
    ASSUME LoopInv, NEW m \in Monitors, NEW outcome \in Outcomes,
           NEW muted \in BOOLEAN, Tick(m, outcome, muted)
    PROVE  LoopInv'
<1>1. /\ pc[m] = "idle" /\ UNCHANGED <<incidents, budget>>
      /\ tick' = [tick EXCEPT ![m].outcome = outcome, ![m].muted = muted]
  BY DEF Tick
<1>2. /\ state[m] \in AlertStates /\ cell[m] \in AlertStates
      /\ MonitorLevel(state[m]) /\ MonitorLevel(cell[m])
      /\ cell[m] = state[m]
      /\ Len(incidents[m]) \in Nat /\ failures \in Nat
  BY <1>1, InTick
<1>3. /\ tick' \in [Monitors -> [outcome: Outcomes, muted: BOOLEAN, local: BOOLEAN]]
      /\ \A k \in Monitors \ {m} : tick'[k] = tick[k]
  BY <1>1 DEF LoopInv, LoopTypeOK
<1>4. /\ Len(incidents[m]) <= failures + IF open_incident[m] THEN 1 ELSE 0
      /\ open_incident[m] => incidents[m] # <<>>
  BY <1>1 DEF LoopInv, MonitorInv, AwaitInv, Held
<1>5. CASE /\ IsUp(outcome) /\ open_incident[m]
           /\ Suspend(m, "close", state[m], cell[m])
           /\ open_incident' = [open_incident EXCEPT ![m] = FALSE]
           /\ UNCHANGED inbox
  <2>1. RestTypeOK'
    BY <1>1, <1>3, <1>5 DEF LoopInv, LoopTypeOK, RestTypeOK, budget
  <2>2. /\ LoopTypeOK'
        /\ pc'[m] = "close" /\ state'[m] = state[m] /\ cell'[m] = cell[m]
        /\ \A k \in Monitors \ {m} :
              pc'[k] = pc[k] /\ state'[k] = state[k] /\ cell'[k] = cell[k]
    BY <1>2, <1>5, <2>1, SuspendTypeOK DEF LoopInv, Awaits
  <2>3. ~open_incident'[m]
    BY <1>5 DEF LoopInv, LoopTypeOK
  <2>4. OnlyOf(m)
    BY <1>1, <1>2, <1>3, <1>5, <2>2 DEF OnlyOf, Untouched, budget, LoopInv, LoopTypeOK
  <2>5. Len(incidents'[m]) <= failures' + Held(m)'
    BY <1>1, <1>2, <1>4, <2>2 DEF Held, budget
  <2>6. MonitorInv(m)'
    BY <1>2, <2>2, <2>3, <2>5 DEF MonitorInv, AwaitInv
  <2> QED BY <2>2, <2>4, <2>6, OneMonitor
<1>6. CASE Judge(m, outcome, muted) /\ UNCHANGED open_incident
  <2>1. PICK where \in Awaits, s \in AlertStates, c \in AlertStates :
          /\ Suspend(m, where, s, c)
          /\ Stopped(m, where, s, c)
          /\ Tells(m, cell[m], c)
    BY <1>2, <1>6, JudgeStops
  <2>2. RestTypeOK'
    BY <1>1, <1>3, <1>6, <2>1, TellsTypeOK DEF LoopInv, LoopTypeOK, RestTypeOK, budget
  <2> QED BY <1>1, <1>2, <1>3, <1>4, <1>6, <2>1, <2>2, StoppedKeeps DEF budget
<1> QED BY <1>5, <1>6 DEF Tick

LEMMA CloseKeeps ==
    ASSUME LoopInv, NEW m \in Monitors, NEW ok \in BOOLEAN, Close(m, ok)
    PROVE  LoopInv'
<1>1. /\ pc[m] = "close" /\ Statement(ok) /\ UNCHANGED <<open_incident, tick>>
      /\ incidents' = IF ok THEN [incidents EXCEPT ![m] = Closed(@)] ELSE incidents
      /\ Judge(m, tick[m].outcome, tick[m].muted)
  BY DEF Close
<1>2. /\ state[m] \in AlertStates /\ cell[m] \in AlertStates
      /\ MonitorLevel(state[m]) /\ MonitorLevel(cell[m])
      /\ cell[m] = state[m]
      /\ Len(incidents[m]) \in Nat /\ failures \in Nat
      /\ incidents[m] \in Seq(Routings)
      /\ tick[m].outcome \in Outcomes /\ tick[m].muted \in BOOLEAN
  BY <1>1, InTick DEF LoopInv, LoopTypeOK
<1>3. PICK where \in Awaits, s \in AlertStates, c \in AlertStates :
        /\ Suspend(m, where, s, c)
        /\ Stopped(m, where, s, c)
        /\ Tells(m, cell[m], c)
  BY <1>1, <1>2, JudgeStops
<1>4. /\ incidents' \in [Monitors -> Seq(Routings)]
      /\ \A k \in Monitors \ {m} : incidents'[k] = incidents[k]
      /\ incidents'[m] = IF ok THEN Closed(incidents[m]) ELSE incidents[m]
  BY <1>1, <1>2, RowsTypeOK DEF LoopInv, LoopTypeOK
<1>5. ~open_incident[m] /\ Len(incidents[m]) <= failures + 1
  BY <1>1 DEF LoopInv, MonitorInv, AwaitInv, Held
<1>6. Len(incidents'[m]) <= failures'
  <2>1. CASE ok
    <3>1. Len(Closed(incidents[m])) <= failures
      <4>1. CASE incidents[m] = <<>>
        <5>1. Len(incidents[m]) = 0
          BY <4>1
        <5>2. /\ Closed(incidents[m]) \in Seq(Routings)
              /\ Len(Closed(incidents[m])) <= Len(incidents[m])
          BY <1>2, RowsTypeOK
        <5>3. Len(Closed(incidents[m])) \in Nat
          BY <5>2, LenProperties
        <5> QED BY <1>2, <5>1, <5>2, <5>3
      <4>2. CASE incidents[m] # <<>>
        BY <1>2, <1>5, <4>2, RowsTypeOK
      <4> QED BY <4>1, <4>2
    <3> QED BY <1>1, <1>4, <2>1, <3>1, StatementEffect DEF LoopInv
  <2>2. CASE ~ok
    BY <1>1, <1>4, <1>5, <2>2, StatementEffect DEF LoopInv
  <2> QED BY <2>1, <2>2
<1>7. RestTypeOK'
  BY <1>1, <1>3, <1>4, TellsTypeOK, StatementEffect DEF LoopInv, LoopTypeOK, RestTypeOK
<1>8. failures' >= failures /\ failures' \in Nat
  BY <1>1, StatementEffect DEF LoopInv
<1>9. Len(incidents'[m]) <= failures' + IF open_incident'[m] THEN 1 ELSE 0
  BY <1>1, <1>5, <1>6, <1>8
<1> QED BY <1>1, <1>3, <1>4, <1>5, <1>7, <1>8, <1>9, StoppedKeeps

LEMMA BurnKeeps ==
    ASSUME LoopInv, NEW m \in Monitors, NEW hot \in Windows, Burn(m, hot)
    PROVE  LoopInv'
<1> DEFINE s0 == [state[m] EXCEPT !.burn = EvaluateBurn(@, hot)]
<1>1. /\ pc[m] = "burn" /\ UNCHANGED <<open_incident, tick, incidents, budget>>
      /\ React(m, tick[m].outcome, s0, s0)
  BY DEF Burn
<1>2. /\ state[m] \in AlertStates /\ MonitorLevel(state[m])
      /\ Len(incidents[m]) \in Nat /\ failures \in Nat
      /\ tick[m].outcome \in Outcomes
  BY <1>1, InTick DEF LoopInv, LoopTypeOK
<1>3. s0 \in AlertStates /\ s0.level = state[m].level
  <2>1. \A burn \in SUBSET {"fast", "slow"} :
           EvaluateBurn(burn, hot) \in SUBSET {"fast", "slow"}
    BY DEF EvaluateBurn, Cooled
  <2> QED BY <1>2, <2>1 DEF AlertStates
<1>4. PICK where \in Awaits, s \in AlertStates, c \in AlertStates :
        /\ Suspend(m, where, s, c)
        /\ Stopped(m, where, s, c)
        /\ Tells(m, s0, c)
  BY <1>1, <1>2, <1>3, ReactStops DEF MonitorLevel
<1>5. RestTypeOK'
  BY <1>1, <1>4, TellsTypeOK DEF LoopInv, LoopTypeOK, RestTypeOK, budget
<1>6. /\ open_incident'[m] => incidents'[m] # <<>>
      /\ Len(incidents'[m]) <= failures' + IF open_incident'[m] THEN 1 ELSE 0
      /\ failures' >= failures
  BY <1>1, <1>2 DEF LoopInv, MonitorInv, AwaitInv, Held, budget
<1> QED BY <1>1, <1>4, <1>5, <1>6, StoppedKeeps

\* A step that only moves the task of m on to another .await.
LEMMA MovedTypeOK ==
    ASSUME LoopTypeOK, RestTypeOK', NEW m \in Monitors, NEW where \in Awaits,
           pc' = [pc EXCEPT ![m] = where], UNCHANGED <<state, cell>>
    PROVE  /\ LoopTypeOK' /\ pc'[m] = where
           /\ \A k \in Monitors \ {m} : pc'[k] = pc[k]
BY DEF LoopTypeOK, RestTypeOK

LEMMA RecordKeeps ==
    ASSUME LoopInv, NEW m \in Monitors, NEW ok \in BOOLEAN, Record(m, ok)
    PROVE  LoopInv'
<1>1. /\ pc[m] = "record" /\ Statement(ok) /\ UNCHANGED <<state, tick, cell, inbox>>
      /\ incidents' = IF ok THEN [incidents EXCEPT ![m] = Opened(@)] ELSE incidents
      /\ open_incident' = [open_incident EXCEPT ![m] = ok]
      /\ pc' = [pc EXCEPT ![m] = "ask"]
  BY DEF Record
<1>2. /\ incidents[m] \in Seq(Routings) /\ Len(incidents[m]) \in Nat /\ failures \in Nat
  BY MonitorLoopAssumption DEF MonitorLoopAssumption, LoopInv, LoopTypeOK
<1>3. /\ incidents' \in [Monitors -> Seq(Routings)]
      /\ \A k \in Monitors \ {m} : incidents'[k] = incidents[k]
      /\ incidents'[m] = IF ok THEN Opened(incidents[m]) ELSE incidents[m]
      /\ open_incident' \in [Monitors -> BOOLEAN] /\ open_incident'[m] = ok
      /\ \A k \in Monitors \ {m} : open_incident'[k] = open_incident[k]
  BY <1>1, <1>2, RowsTypeOK DEF LoopInv, LoopTypeOK
<1>4. RestTypeOK'
  BY <1>1, <1>3, StatementEffect DEF LoopInv, LoopTypeOK, RestTypeOK
<1>5. LoopTypeOK' /\ pc'[m] = "ask" /\ \A k \in Monitors \ {m} : pc'[k] = pc[k]
  BY <1>1, <1>4, MovedTypeOK DEF LoopInv, Awaits
<1>6. OnlyOf(m)
  BY <1>1, <1>3, <1>5, StatementEffect DEF OnlyOf, Untouched, LoopInv
<1>7. /\ ~open_incident[m] /\ Len(incidents[m]) <= failures
      /\ state[m].level # "down" /\ Entry(cell[m]) = Entry(state[m])
      /\ MonitorLevel(state[m])
      /\ cell[m] # NoState => MonitorLevel(cell[m])
  BY <1>1, <1>2 DEF LoopInv, MonitorInv, AwaitInv, Held
<1>8. CASE ok
  <2>1. /\ Len(incidents'[m]) = Len(incidents[m]) + 1 /\ failures' = failures
        /\ incidents'[m] # <<>>
    <3>1. Len(Opened(incidents[m])) = Len(incidents[m]) + 1
      BY <1>2, RowsTypeOK
    <3>2. Opened(incidents[m]) # <<>>
      BY <1>2 DEF Opened
    <3> QED BY <1>1, <1>3, <1>8, <3>1, <3>2, StatementEffect DEF LoopInv
  <2>2. Len(incidents'[m]) <= failures' + Held(m)'
    BY <1>2, <1>3, <1>7, <1>8, <2>1 DEF Held
  <2>3. MonitorInv(m)'
    BY <1>1, <1>3, <1>5, <1>7, <1>8, <2>1, <2>2 DEF MonitorInv, AwaitInv
  <2> QED BY <1>5, <1>6, <2>3, OneMonitor
<1>9. CASE ~ok
  <2>1. incidents'[m] = incidents[m] /\ failures' = failures + 1
    BY <1>1, <1>3, <1>9, StatementEffect DEF LoopInv
  <2>2. Len(incidents'[m]) <= failures' + Held(m)'
    BY <1>2, <1>3, <1>5, <1>7, <1>9, <2>1 DEF Held
  <2>3. MonitorInv(m)'
    BY <1>1, <1>2, <1>3, <1>5, <1>7, <1>9, <2>1, <2>2 DEF MonitorInv, AwaitInv
  <2> QED BY <1>5, <1>6, <2>3, OneMonitor
<1> QED BY <1>8, <1>9

LEMMA AskKeeps ==
    ASSUME LoopInv, NEW m \in Monitors, NEW local \in BOOLEAN, Ask(m, local)
    PROVE  LoopInv'
<1> DEFINE where == IF local /\ open_incident[m] THEN "route" ELSE "announce"
<1>1. /\ pc[m] = "ask" /\ tick' = [tick EXCEPT ![m].local = local]
      /\ pc' = [pc EXCEPT ![m] = where]
      /\ UNCHANGED <<state, open_incident, cell, incidents, inbox, budget>>
  BY DEF Ask
<1>2. RestTypeOK' /\ \A k \in Monitors \ {m} : tick'[k] = tick[k]
  BY <1>1 DEF LoopInv, LoopTypeOK, RestTypeOK, budget
<1>3. LoopTypeOK' /\ pc'[m] = where /\ \A k \in Monitors \ {m} : pc'[k] = pc[k]
  BY <1>1, <1>2, MovedTypeOK DEF LoopInv, Awaits
<1>4. failures \in Nat
  BY MonitorLoopAssumption DEF MonitorLoopAssumption, LoopInv, LoopTypeOK
<1>5. OnlyOf(m)
  BY <1>1, <1>2, <1>3, <1>4 DEF OnlyOf, Untouched, budget
<1>6. AwaitInv(m)'
  BY <1>1, <1>3 DEF LoopInv, MonitorInv, AwaitInv, budget
<1>7. Held(m)' = Held(m)
  BY <1>1, <1>3 DEF Held
<1>8. MonitorInv(m)'
  BY <1>1, <1>3, <1>6, <1>7 DEF LoopInv, MonitorInv, budget
<1> QED BY <1>3, <1>5, <1>8, OneMonitor

LEMMA AskAgainKeeps ==
    ASSUME LoopInv, NEW m \in Monitors, NEW local \in BOOLEAN, AskAgain(m, local)
    PROVE  LoopInv'
<1> DEFINE where == IF local THEN "idle"
                    ELSE IF open_incident[m] THEN "route" ELSE "announce"
           c == IF local THEN state[m] ELSE cell[m]
<1>1. /\ pc[m] = "reask" /\ tick' = [tick EXCEPT ![m].local = local]
      /\ Suspend(m, where, state[m], c)
      /\ UNCHANGED <<open_incident, incidents, inbox, budget>>
  BY DEF AskAgain, Settle
<1>2. /\ RestTypeOK' /\ tick'[m].local = local
      /\ \A k \in Monitors \ {m} : tick'[k] = tick[k]
  BY <1>1 DEF LoopInv, LoopTypeOK, RestTypeOK, budget
<1>3. /\ state[m] \in AlertStates /\ cell[m] \in AlertStates
      /\ MonitorLevel(state[m]) /\ MonitorLevel(cell[m])
      /\ Entry(cell[m]) = Entry(state[m])
      /\ failures \in Nat
  BY <1>1, InTick
<1>4. /\ LoopTypeOK'
      /\ pc'[m] = where /\ state'[m] = state[m] /\ cell'[m] = c
      /\ \A k \in Monitors \ {m} :
            pc'[k] = pc[k] /\ state'[k] = state[k] /\ cell'[k] = cell[k]
  BY <1>1, <1>2, <1>3, SuspendTypeOK DEF LoopInv, Awaits
<1>5. OnlyOf(m)
  BY <1>1, <1>2, <1>3, <1>4 DEF OnlyOf, Untouched, budget
<1>6. /\ Entry(state[m]) = "local" /\ state[m].level = "down"
      /\ open_incident[m] => incidents[m] # <<>>
  BY <1>1, <1>3 DEF LoopInv, MonitorInv, AwaitInv, Entry, MonitorLevel
<1>7. AwaitInv(m)'
  BY <1>1, <1>2, <1>3, <1>4, <1>6 DEF AwaitInv
<1>8. Held(m)' = Held(m)
  BY <1>1, <1>4 DEF Held
<1>9. MonitorInv(m)'
  BY <1>1, <1>3, <1>4, <1>7, <1>8 DEF LoopInv, MonitorInv, budget
<1> QED BY <1>4, <1>5, <1>9, OneMonitor

LEMMA RouteKeeps ==
    ASSUME LoopInv, NEW m \in Monitors, NEW ok \in BOOLEAN, Route(m, ok)
    PROVE  LoopInv'
<1>1. /\ pc[m] = "route" /\ Statement(ok)
      /\ incidents' = IF ok THEN [incidents EXCEPT ![m] = Routed(@, tick[m].local)]
                            ELSE incidents
      /\ pc' = [pc EXCEPT ![m] = "announce"]
      /\ UNCHANGED <<state, open_incident, tick, cell, inbox>>
  BY DEF Route
<1>2. /\ incidents[m] \in Seq(Routings) /\ tick[m].local \in BOOLEAN
      /\ Len(incidents[m]) \in Nat /\ failures \in Nat
  BY MonitorLoopAssumption DEF MonitorLoopAssumption, LoopInv, LoopTypeOK
<1>3. /\ Routed(incidents[m], tick[m].local) \in Seq(Routings)
      /\ Len(Routed(incidents[m], tick[m].local)) = Len(incidents[m])
  BY <1>2, RowsTypeOK
<1>4. /\ incidents' \in [Monitors -> Seq(Routings)]
      /\ \A k \in Monitors \ {m} : incidents'[k] = incidents[k]
      /\ Len(incidents'[m]) = Len(incidents[m])
  BY <1>1, <1>3 DEF LoopInv, LoopTypeOK
<1>5. RestTypeOK'
  BY <1>1, <1>4, StatementEffect DEF LoopInv, LoopTypeOK, RestTypeOK
<1>6. LoopTypeOK' /\ pc'[m] = "announce" /\ \A k \in Monitors \ {m} : pc'[k] = pc[k]
  BY <1>1, <1>5, MovedTypeOK DEF LoopInv, Awaits
<1>7. failures' \in Nat /\ failures' >= failures
  BY <1>1, StatementEffect DEF LoopInv
<1>8. OnlyOf(m)
  BY <1>1, <1>4, <1>6, <1>7 DEF OnlyOf, Untouched
<1>9. open_incident'[m] => incidents'[m] # <<>>
  <2>1. open_incident[m] => Len(incidents[m]) > 0
    BY <1>2 DEF LoopInv, MonitorInv, AwaitInv
  <2> QED BY <1>1, <1>2, <1>4, <2>1
<1>10. AwaitInv(m)'
  BY <1>1, <1>2, <1>6, <1>7, <1>9 DEF LoopInv, MonitorInv, AwaitInv
<1>11. Len(incidents'[m]) <= failures' + Held(m)'
  BY <1>1, <1>2, <1>4, <1>6, <1>7 DEF Held, LoopInv, MonitorInv
<1>12. MonitorInv(m)'
  BY <1>1, <1>6, <1>10, <1>11 DEF LoopInv, MonitorInv
<1> QED BY <1>6, <1>8, <1>12, OneMonitor

LEMMA AnnounceKeeps ==
    ASSUME LoopInv, NEW m \in Monitors, Announce(m)
    PROVE  LoopInv'
<1> DEFINE s == [state[m] EXCEPT !.level = "down", !.local_only_asked = tick[m].local]
<1>1. /\ pc[m] = "announce" /\ inbox' = Append(inbox, Down(m, tick[m].local))
      /\ Suspend(m, "idle", s, s)
      /\ UNCHANGED <<open_incident, tick, incidents, budget>>
  BY DEF Announce, Send, Settle
<1>2. s \in AlertStates /\ s.level = "down" /\ tick[m].local \in BOOLEAN
  <2>1. state[m] \in AlertStates /\ tick[m].local \in BOOLEAN
    BY DEF LoopInv, LoopTypeOK
  <2> QED BY <2>1 DEF AlertStates, Levels
<1>3. RestTypeOK'
  BY <1>1, <1>2, SendTypeOK DEF LoopInv, LoopTypeOK, RestTypeOK, budget
<1>4. Stopped(m, "idle", s, s)
  BY <1>2 DEF Stopped, MonitorLevel
<1>5. failures \in Nat
  BY MonitorLoopAssumption DEF MonitorLoopAssumption, LoopInv, LoopTypeOK
<1>6. /\ open_incident'[m] => incidents'[m] # <<>>
      /\ Len(incidents'[m]) <= failures' + IF open_incident'[m] THEN 1 ELSE 0
      /\ failures' >= failures
  BY <1>1, <1>5 DEF LoopInv, MonitorInv, AwaitInv, Held, budget
<1> QED BY <1>1, <1>2, <1>3, <1>4, <1>6, StoppedKeeps DEF Awaits

LEMMA TellKeeps ==
    ASSUME LoopInv, NEW m \in Monitors, Tell(m)
    PROVE  LoopInv'
<1> DEFINE s == [state[m] EXCEPT !.level = "degraded"]
<1>1. /\ pc[m] = "tell" /\ Suspend(m, "idle", s, s)
      /\ UNCHANGED <<open_incident, tick, incidents, inbox, budget>>
  BY DEF Tell, Settle
<1>2. s \in AlertStates /\ s.level = "degraded"
  <2>1. state[m] \in AlertStates
    BY DEF LoopInv, LoopTypeOK
  <2> QED BY <2>1 DEF AlertStates, Levels
<1>3. RestTypeOK'
  BY <1>1 DEF LoopInv, LoopTypeOK, RestTypeOK, budget
<1>4. Stopped(m, "idle", s, s)
  BY <1>2 DEF Stopped, MonitorLevel
<1>5. failures \in Nat
  BY MonitorLoopAssumption DEF MonitorLoopAssumption, LoopInv, LoopTypeOK
<1>6. /\ open_incident'[m] => incidents'[m] # <<>>
      /\ Len(incidents'[m]) <= failures' + IF open_incident'[m] THEN 1 ELSE 0
      /\ failures' >= failures
  BY <1>1, <1>5 DEF LoopInv, MonitorInv, AwaitInv, Held, budget
<1> QED BY <1>1, <1>2, <1>3, <1>4, <1>6, StoppedKeeps DEF Awaits

\* Whatever statement an interruption catches half-way, the incidents stay within
\* what a new task may find.
LEMMA InterruptedBound ==
    ASSUME LoopInv, NEW m \in Monitors
    PROVE  /\ Interrupted(m) \in Seq(Routings)
           /\ Len(Interrupted(m)) <= failures + 1
           /\ Len(incidents[m]) <= failures + 1
<1>1. /\ incidents[m] \in Seq(Routings) /\ tick[m].local \in BOOLEAN
      /\ Len(incidents[m]) \in Nat /\ failures \in Nat
  BY MonitorLoopAssumption DEF MonitorLoopAssumption, LoopInv, LoopTypeOK
<1>2. Len(incidents[m]) <= failures + 1
  BY <1>1 DEF LoopInv, MonitorInv, Held
<1>3. CASE pc[m] = "record"
  <2>1. Len(incidents[m]) <= failures
    BY <1>1, <1>3 DEF LoopInv, MonitorInv, AwaitInv, Held
  <2>2. Interrupted(m) = Opened(incidents[m])
    BY <1>3 DEF Interrupted
  <2>3. /\ Opened(incidents[m]) \in Seq(Routings)
        /\ Len(Opened(incidents[m])) = Len(incidents[m]) + 1
    BY <1>1, RowsTypeOK
  <2> QED BY <1>1, <1>2, <2>1, <2>2, <2>3
<1>4. CASE pc[m] = "close"
  <2>1. Interrupted(m) = Closed(incidents[m])
    BY <1>4 DEF Interrupted
  <2>2. /\ Closed(incidents[m]) \in Seq(Routings)
        /\ Len(Closed(incidents[m])) <= Len(incidents[m])
    BY <1>1, RowsTypeOK
  <2>3. Len(Closed(incidents[m])) \in Nat
    BY <2>2, LenProperties
  <2> QED BY <1>1, <1>2, <2>1, <2>2, <2>3
<1>5. CASE pc[m] = "route"
  <2>1. Interrupted(m) = Routed(incidents[m], tick[m].local)
    BY <1>5 DEF Interrupted
  <2>2. /\ Routed(incidents[m], tick[m].local) \in Seq(Routings)
        /\ Len(Routed(incidents[m], tick[m].local)) = Len(incidents[m])
    BY <1>1, RowsTypeOK
  <2> QED BY <1>2, <2>1, <2>2
<1>6. CASE pc[m] \notin {"record", "close", "route"}
  <2>1. Interrupted(m) = incidents[m]
    BY <1>6 DEF Interrupted
  <2> QED BY <1>1, <1>2, <2>1
<1> QED BY <1>3, <1>4, <1>5, <1>6

LEMMA AbortKeeps ==
    ASSUME LoopInv, NEW m \in Monitors, NEW executed \in BOOLEAN, Abort(m, executed)
    PROVE  LoopInv'
<1>1. /\ aborts < MaxAborts /\ aborts' = aborts + 1
      /\ pc' = [pc EXCEPT ![m] = "attach"]
      /\ open_incident' = [open_incident EXCEPT ![m] = FALSE]
      /\ incidents' = IF executed THEN [incidents EXCEPT ![m] = Interrupted(m)]
                                  ELSE incidents
      /\ state' = [state EXCEPT ![m] = Fresh]
      /\ UNCHANGED <<tick, cell, inbox, failures, crashes>>
  BY DEF Abort
<1>2. failures \in Nat
  BY MonitorLoopAssumption DEF MonitorLoopAssumption, LoopInv, LoopTypeOK
<1>3. /\ incidents' \in [Monitors -> Seq(Routings)]
      /\ \A k \in Monitors \ {m} : incidents'[k] = incidents[k]
      /\ Len(incidents'[m]) <= failures + 1
  <2>1. /\ Interrupted(m) \in Seq(Routings) /\ Len(Interrupted(m)) <= failures + 1
        /\ Len(incidents[m]) <= failures + 1
    BY InterruptedBound
  <2> QED BY <1>1, <2>1 DEF LoopInv, LoopTypeOK
<1>4. aborts' \in 0..MaxAborts
  BY <1>1, MonitorLoopAssumption DEF MonitorLoopAssumption, LoopInv, LoopTypeOK
<1>5. LoopTypeOK'
  BY <1>1, <1>3, <1>4, StartStates DEF LoopInv, LoopTypeOK, Awaits
<1>6. /\ pc'[m] = "attach" /\ ~open_incident'[m] /\ state'[m] = Fresh
      /\ cell'[m] = cell[m]
  BY <1>1 DEF LoopInv, LoopTypeOK
<1>7. OnlyOf(m)
  BY <1>1, <1>2, <1>3 DEF OnlyOf, Untouched, LoopInv, LoopTypeOK
<1>8. MonitorLevel(Fresh)
  BY DEF MonitorLevel, Fresh
<1>9. AwaitInv(m)'
  BY <1>6, <1>8 DEF LoopInv, MonitorInv, AwaitInv
<1>10. Len(incidents'[m]) <= failures' + Held(m)'
  BY <1>1, <1>2, <1>3, <1>6 DEF Held
<1>11. MonitorInv(m)'
  BY <1>6, <1>9, <1>10 DEF MonitorInv
<1> QED BY <1>5, <1>7, <1>11, OneMonitor

LEMMA CrashKeeps ==
    ASSUME LoopInv, NEW executed \in SUBSET Monitors, Crash(executed)
    PROVE  LoopInv'
<1>1. /\ crashes < MaxCrashes /\ crashes' = crashes + 1
      /\ pc' = [m \in Monitors |-> "attach"]
      /\ state' = [m \in Monitors |-> Fresh]
      /\ open_incident' = [m \in Monitors |-> FALSE]
      /\ cell' = [m \in Monitors |-> NoState]
      /\ incidents' = [m \in Monitors |->
                          IF m \in executed THEN Interrupted(m) ELSE incidents[m]]
      /\ inbox' = <<>>
      /\ UNCHANGED <<tick, failures, aborts>>
  BY DEF Crash
<1>2. failures \in Nat
  BY MonitorLoopAssumption DEF MonitorLoopAssumption, LoopInv, LoopTypeOK
<1>3. crashes' \in 0..MaxCrashes
  BY <1>1, MonitorLoopAssumption DEF MonitorLoopAssumption, LoopInv, LoopTypeOK
<1>4. \A m \in Monitors :
         incidents'[m] \in Seq(Routings) /\ Len(incidents'[m]) <= failures + 1
  <2> SUFFICES ASSUME NEW m \in Monitors
               PROVE  incidents'[m] \in Seq(Routings) /\ Len(incidents'[m]) <= failures + 1
    OBVIOUS
  <2>1. /\ Interrupted(m) \in Seq(Routings) /\ Len(Interrupted(m)) <= failures + 1
        /\ Len(incidents[m]) <= failures + 1 /\ incidents[m] \in Seq(Routings)
    BY InterruptedBound DEF LoopInv, LoopTypeOK
  <2> QED BY <1>1, <2>1
<1>5. LoopTypeOK'
  <2>1. incidents' \in [Monitors -> Seq(Routings)]
    BY <1>1, <1>4
  <2>2. inbox' \in Seq(AlertMsg)
    BY <1>1
  <2> QED BY <1>1, <1>3, <2>1, <2>2, StartStates DEF LoopInv, LoopTypeOK, Awaits
<1>6. ASSUME NEW m \in Monitors PROVE MonitorInv(m)'
  <2>1. /\ pc'[m] = "attach" /\ ~open_incident'[m] /\ state'[m] = Fresh
        /\ cell'[m] = NoState /\ failures' = failures
    BY <1>1
  <2>2. MonitorLevel(Fresh)
    BY DEF MonitorLevel, Fresh
  <2>3. AwaitInv(m)'
    BY <2>1, <2>2 DEF AwaitInv
  <2>4. Len(incidents'[m]) <= failures' + Held(m)'
    BY <1>2, <1>4, <2>1 DEF Held
  <2> QED BY <2>1, <2>3, <2>4 DEF MonitorInv
<1> QED BY <1>5, <1>6 DEF LoopInv

LEMMA DeliverKeeps == ASSUME LoopInv, Deliver PROVE LoopInv'
<1>1. /\ inbox # <<>> /\ inbox' = Tail(inbox)
      /\ UNCHANGED <<taskVars, cell, incidents, budget>>
  BY DEF Deliver
<1>2. inbox' \in Seq(AlertMsg)
  BY <1>1 DEF LoopInv, LoopTypeOK
<1>3. LoopTypeOK'
  BY <1>1, <1>2 DEF LoopInv, LoopTypeOK, taskVars, budget
<1>4. \A m \in Monitors : MonitorInv(m)'
  BY <1>1 DEF LoopInv, MonitorInv, AwaitInv, Held, taskVars, budget
<1> QED BY <1>3, <1>4 DEF LoopInv

LEMMA InvInit == LoopInit => LoopInv
<1> SUFFICES ASSUME LoopInit PROVE LoopInv
  OBVIOUS
<1>1. LoopTypeOK
  <2>1. /\ failures \in 0..MaxFailures /\ aborts \in 0..MaxAborts
        /\ crashes \in 0..MaxCrashes
    BY MonitorLoopAssumption DEF MonitorLoopAssumption, LoopInit
  <2>2. incidents \in [Monitors -> Seq(Routings)] /\ inbox \in Seq(AlertMsg)
    BY DEF LoopInit
  <2> QED BY <2>1, <2>2, StartStates DEF LoopInit, LoopTypeOK, Awaits, Outcomes
<1>2. MonitorLevel(Fresh)
  BY DEF MonitorLevel, Fresh
<1>3. \A m \in Monitors : MonitorInv(m)
  BY <1>2 DEF LoopInit, MonitorInv, AwaitInv, Held
<1> QED BY <1>1, <1>3 DEF LoopInv

LEMMA InvNext == LoopInv /\ [Next]_loopVars => LoopInv'
<1> SUFFICES ASSUME LoopInv, [Next]_loopVars PROVE LoopInv'
  OBVIOUS
<1>1. CASE \E m \in Monitors : Step(m)
  <2> PICK m \in Monitors : Step(m)
    BY <1>1
  <2> QED BY AttachKeeps, SeedKeeps, CloseKeeps, RecordKeeps, RouteKeeps, TickKeeps,
             BurnKeeps, AskKeeps, AskAgainKeeps, AnnounceKeeps, TellKeeps DEF Step
<1>2. CASE Interruption
  BY <1>2, AbortKeeps, CrashKeeps DEF Interruption
<1>3. CASE Deliver
  BY <1>3, DeliverKeeps
<1>4. CASE UNCHANGED loopVars
  <2>1. LoopTypeOK'
    BY <1>4 DEF LoopInv, LoopTypeOK, loopVars, taskVars, budget
  <2>2. \A m \in Monitors : MonitorInv(m)'
    BY <1>4 DEF LoopInv, MonitorInv, AwaitInv, Held, loopVars, taskVars, budget
  <2> QED BY <2>1, <2>2 DEF LoopInv
<1> QED BY <1>1, <1>2, <1>3, <1>4 DEF Next, LoopNext

\* The invariant holds in every reachable state.
THEOREM LoopInvariant == Spec => []LoopInv
<1>1. LoopInit => LoopInv
  BY InvInit
<1>2. LoopInv /\ [Next]_loopVars => LoopInv'
  BY InvNext
<1> QED BY <1>1, <1>2, PTL DEF Spec

\* Type correctness of the monitor loops (scheduler.rs `run`): in particular the
\* failure counters never pass the threshold they are compared with.
THEOREM TypeCorrect == Spec => []LoopTypeOK
<1>1. LoopInv => LoopTypeOK
  BY DEF LoopInv
<1> QED BY <1>1, LoopInvariant, PTL

\* No open incident is left behind by a task, but for one per failed statement,
\* whatever is aborted, crashed or edited (`find_open_incident`).
THEOREM IncidentsAreHeld == Spec => []NoLeakedIncident
<1>1. LoopInv => NoLeakedIncident
  BY DEF LoopInv, MonitorInv, NoLeakedIncident
<1> QED BY <1>1, LoopInvariant, PTL

\* The alert cell always holds the last state a task settled on: the announced
\* level moves with the alert or not at all (`AlertCell`).
THEOREM CellFollowsTask == Spec => []CellIsLastSettled
<1>1. LoopInv => CellIsLastSettled
  BY DEF LoopInv, MonitorInv, CellIsLastSettled
<1> QED BY <1>1, LoopInvariant, PTL

---------------------------------------------------------------------------
(* The loops implement AlertLedger *)

Book == [m \in Monitors |-> Entry(cell[m])]

LEMMA Entering ==
    ASSUME NEW m \in Monitors, \A k \in Monitors \ {m} : cell'[k] = cell[k]
    PROVE  /\ Book[m] = Entry(cell[m])
           /\ Ledger!Enter(m, Entry(cell'[m]))
           /\ Entry(cell'[m]) = Entry(cell[m]) => Book' = Book
<1>1. Book' = [Book EXCEPT ![m] = Entry(cell'[m])]
  BY DEF Book, Entry
<1> QED BY <1>1 DEF Book, Ledger!Enter

\* A step that leaves the entries and the inbox alone.
LEMMA Stutters ==
    ASSUME Book' = Book, inbox' = inbox
    PROVE  UNCHANGED Ledger!ledgerVars
BY DEF Ledger!ledgerVars, Book

LEMMA SuspendSetsCell ==
    ASSUME LoopTypeOK, NEW m \in Monitors, NEW where, NEW s, NEW c,
           Suspend(m, where, s, c)
    PROVE  cell'[m] = c /\ \A k \in Monitors \ {m} : cell'[k] = cell[k]
BY DEF LoopTypeOK, Suspend

\* What a tick tells is a step of the ledger.
LEMMA TellsInLedger ==
    ASSUME LoopInv, NEW m \in Monitors, NEW where, NEW s, NEW c, NEW before,
           Suspend(m, where, s, c), Tells(m, before, c),
           Entry(before) = Entry(cell[m])
    PROVE  [Ledger!LedgerNext]_Ledger!ledgerVars
<1>1. cell'[m] = c /\ \A k \in Monitors \ {m} : cell'[k] = cell[k]
  BY SuspendSetsCell DEF LoopInv
<1>2. CASE inbox' = inbox /\ Entry(c) = Entry(before)
  BY <1>1, <1>2, Entering, Stutters
<1>3. CASE /\ Entry(before) \in {"degraded", "local", "down"}
           /\ Entry(c) = "healthy"
           /\ inbox' = Append(inbox, Recovered(m))
  <2>1. Book[m] \in {"degraded", "local", "down"} /\ Ledger!Enter(m, "healthy")
    BY <1>1, <1>3, Entering
  <2>2. Ledger!Send(Ledger!Recovered(m))
    BY <1>3 DEF Ledger!Send, Ledger!Recovered, Recovered
  <2>3. Ledger!AnnounceRecovery(m)
    BY <2>1, <2>2 DEF Ledger!AnnounceRecovery, Book
  <2> QED BY <2>3 DEF Ledger!LedgerStep, Ledger!LedgerNext
<1> QED BY <1>2, <1>3 DEF Tells

LEMMA AttachInLedger ==
    ASSUME LoopInv, NEW m \in Monitors, NEW ok \in BOOLEAN, Attach(m, ok)
    PROVE  [Ledger!LedgerNext]_Ledger!ledgerVars
<1>1. inbox' = inbox
  BY DEF Attach
<1>2. CASE cell[m] # NoState /\ Settle(m, cell[m])
  BY <1>1, <1>2, SuspendSetsCell, Entering, Stutters DEF LoopInv, Settle
<1>3. CASE cell[m] = NoState /\ Settle(m, Fresh)
  <2>1. cell'[m] = Fresh /\ \A k \in Monitors \ {m} : cell'[k] = cell[k]
    BY <1>3, SuspendSetsCell DEF LoopInv, Settle
  <2>2. Entry(Fresh) = "healthy" /\ Entry(cell[m]) = "unknown"
    BY <1>3, StartStates, MonitorLoopAssumption DEF MonitorLoopAssumption, Entry, Fresh
  <2>3. Book[m] = "unknown" /\ Ledger!Enter(m, "healthy")
    BY <2>1, <2>2, Entering
  <2>4. Ledger!Resume(m)
    BY <1>1, <2>3 DEF Ledger!Resume, Book
  <2> QED BY <2>4 DEF Ledger!LedgerStep, Ledger!LedgerNext
<1>4. CASE cell[m] = NoState /\ Suspend(m, "seed", ResumedDown, NoState)
  BY <1>1, <1>4, SuspendSetsCell, Entering, Stutters DEF LoopInv
<1> QED BY <1>2, <1>3, <1>4 DEF Attach

LEMMA SeedInLedger ==
    ASSUME LoopInv, NEW m \in Monitors, NEW ok \in BOOLEAN, Seed(m, ok)
    PROVE  [Ledger!LedgerNext]_Ledger!ledgerVars
<1> DEFINE routing == IF ok THEN incidents[m][Len(incidents[m])] ELSE "unset"
           s == [state[m] EXCEPT !.local_only_asked = (routing = "local")]
<1>1. /\ Settle(m, s) /\ TellsRouting(m, routing)
      /\ pc[m] = "seed" /\ cell[m] = NoState /\ state[m] = ResumedDown
  BY DEF Seed, LoopInv, MonitorInv, AwaitInv
<1>2. routing \in Routings
  <2>1. incidents[m] \in Seq(Routings) /\ incidents[m] # <<>>
    BY <1>1 DEF LoopInv, LoopTypeOK, MonitorInv, AwaitInv
  <2>2. incidents[m][Len(incidents[m])] \in Routings
    BY <2>1, ElementOfSeq
  <2> QED BY <2>2 DEF Routings
<1> HIDE DEF routing
<1>3. s \in AlertStates /\ s.level = "down" /\ s.local_only_asked = (routing = "local")
  <2>1. ResumedDown.level = "down"
    BY DEF ResumedDown, Fresh
  <2> QED BY <1>1, <2>1, StartStates DEF AlertStates
<1>4. Entry(s) = IF routing = "local" THEN "local" ELSE "down"
  BY <1>3, MonitorLoopAssumption DEF MonitorLoopAssumption, Entry
<1> HIDE DEF s
<1>5. cell'[m] = s /\ \A k \in Monitors \ {m} : cell'[k] = cell[k]
  BY <1>1, SuspendSetsCell DEF LoopInv, Settle
<1>6. Book[m] = "unknown" /\ Ledger!Enter(m, Entry(s))
  <2>1. Entry(cell[m]) = "unknown"
    BY <1>1 DEF Entry
  <2> QED BY <1>5, <2>1, Entering
<1>7. CASE routing = "unset"
  BY <1>1, <1>4, <1>6, <1>7 DEF TellsRouting, Book,
     Ledger!Resume, Ledger!LedgerStep, Ledger!LedgerNext
<1>8. CASE routing = "local"
  <2>1. Ledger!Send(Ledger!ResumedLocalOnly(m, FALSE))
    BY <1>1, <1>8 DEF TellsRouting, Send, ResumedLocalOnly,
       Ledger!Send, Ledger!ResumedLocalOnly
  <2> QED BY <1>4, <1>6, <1>8, <2>1 DEF Book,
          Ledger!Resume, Ledger!LedgerStep, Ledger!LedgerNext
<1>9. CASE routing = "confirmed"
  <2>1. Ledger!Send(Ledger!ResumedLocalOnly(m, TRUE))
    BY <1>1, <1>9 DEF TellsRouting, Send, ResumedLocalOnly,
       Ledger!Send, Ledger!ResumedLocalOnly
  <2> QED BY <1>4, <1>6, <1>9, <2>1 DEF Book,
          Ledger!Resume, Ledger!LedgerStep, Ledger!LedgerNext
<1> QED BY <1>2, <1>7, <1>8, <1>9 DEF Routings

LEMMA TickInLedger ==
    ASSUME LoopInv, NEW m \in Monitors, NEW outcome \in Outcomes,
           NEW muted \in BOOLEAN, Tick(m, outcome, muted)
    PROVE  [Ledger!LedgerNext]_Ledger!ledgerVars
<1>1. CASE Suspend(m, "close", state[m], cell[m]) /\ UNCHANGED inbox
  BY <1>1, SuspendSetsCell, Entering, Stutters DEF LoopInv
<1>2. CASE Judge(m, outcome, muted) /\ UNCHANGED open_incident
  <2>1. /\ state[m] \in AlertStates /\ cell[m] \in AlertStates
        /\ MonitorLevel(state[m]) /\ MonitorLevel(cell[m])
        /\ cell[m] = state[m]
    BY InTick DEF Tick
  <2> QED BY <1>2, <2>1, JudgeStops, TellsInLedger
<1> QED BY <1>1, <1>2 DEF Tick

LEMMA CloseInLedger ==
    ASSUME LoopInv, NEW m \in Monitors, NEW ok \in BOOLEAN, Close(m, ok)
    PROVE  [Ledger!LedgerNext]_Ledger!ledgerVars
<1>1. /\ state[m] \in AlertStates /\ cell[m] \in AlertStates
      /\ MonitorLevel(state[m]) /\ MonitorLevel(cell[m])
      /\ cell[m] = state[m]
      /\ tick[m].outcome \in Outcomes /\ tick[m].muted \in BOOLEAN
  BY InTick DEF Close, LoopInv, LoopTypeOK
<1>2. Judge(m, tick[m].outcome, tick[m].muted) /\ UNCHANGED open_incident
  BY DEF Close
<1> QED BY <1>1, <1>2, JudgeStops, TellsInLedger

LEMMA BurnInLedger ==
    ASSUME LoopInv, NEW m \in Monitors, NEW hot \in Windows, Burn(m, hot)
    PROVE  [Ledger!LedgerNext]_Ledger!ledgerVars
<1> DEFINE s0 == [state[m] EXCEPT !.burn = EvaluateBurn(@, hot)]
<1>1. /\ pc[m] = "burn" /\ UNCHANGED open_incident
      /\ React(m, tick[m].outcome, s0, s0)
  BY DEF Burn
<1>2. /\ state[m] \in AlertStates /\ MonitorLevel(state[m])
      /\ Entry(cell[m]) = Entry(state[m])
      /\ tick[m].outcome \in Outcomes
  BY <1>1, InTick DEF LoopInv, LoopTypeOK
<1>3. /\ s0 \in AlertStates /\ s0.level = state[m].level
      /\ s0.local_only_asked = state[m].local_only_asked
  <2>1. \A burn \in SUBSET {"fast", "slow"} :
           EvaluateBurn(burn, hot) \in SUBSET {"fast", "slow"}
    BY DEF EvaluateBurn, Cooled
  <2> QED BY <1>2, <2>1 DEF AlertStates
<1>4. Entry(s0) = Entry(cell[m])
  BY <1>2, <1>3, MonitorLoopAssumption DEF MonitorLoopAssumption, Entry
<1> QED BY <1>1, <1>2, <1>3, <1>4, ReactStops, TellsInLedger DEF MonitorLevel

LEMMA AskAgainInLedger ==
    ASSUME LoopInv, NEW m \in Monitors, NEW local \in BOOLEAN, AskAgain(m, local)
    PROVE  [Ledger!LedgerNext]_Ledger!ledgerVars
<1>1. inbox' = inbox /\ Entry(cell[m]) = Entry(state[m])
  BY InTick DEF AskAgain
<1>2. Entry(cell'[m]) = Entry(cell[m]) /\ \A k \in Monitors \ {m} : cell'[k] = cell[k]
  BY <1>1, SuspendSetsCell DEF AskAgain, Settle, LoopInv
<1> QED BY <1>1, <1>2, Entering, Stutters

LEMMA AnnounceInLedger ==
    ASSUME LoopInv, NEW m \in Monitors, Announce(m)
    PROVE  [Ledger!LedgerNext]_Ledger!ledgerVars
<1> DEFINE local == tick[m].local
           s == [state[m] EXCEPT !.level = "down", !.local_only_asked = local]
<1>1. /\ pc[m] = "announce" /\ inbox' = Append(inbox, Down(m, local))
      /\ Settle(m, s)
  BY DEF Announce, Send
<1>2. /\ state[m] \in AlertStates /\ state[m] # NoState /\ MonitorLevel(state[m])
      /\ Entry(cell[m]) = Entry(state[m]) /\ local \in BOOLEAN
      /\ state[m].level # "down" \/ (Entry(state[m]) = "local" /\ ~local)
  BY <1>1, InTick, MonitorLoopAssumption
  DEF MonitorLoopAssumption, LoopInv, LoopTypeOK, MonitorInv, AwaitInv
<1>3. Entry(s) = IF local THEN "local" ELSE "down"
  <2>1. s \in AlertStates /\ s.level = "down" /\ s.local_only_asked = local
    BY <1>2 DEF AlertStates, Levels
  <2> QED BY <2>1, MonitorLoopAssumption DEF MonitorLoopAssumption, Entry
<1> HIDE DEF s
<1>4. cell'[m] = s /\ \A k \in Monitors \ {m} : cell'[k] = cell[k]
  BY <1>1, SuspendSetsCell DEF LoopInv, Settle
<1>5. Book[m] = Entry(state[m]) /\ Ledger!Enter(m, IF local THEN "local" ELSE "down")
  BY <1>2, <1>3, <1>4, Entering
<1>6. Ledger!Send(Ledger!Down(m, local))
  BY <1>1 DEF Down, Ledger!Send, Ledger!Down
<1>7. CASE state[m].level # "down"
  <2>1. Book[m] \in {"healthy", "degraded"}
    BY <1>2, <1>5, <1>7 DEF Entry, MonitorLevel
  <2>2. Ledger!AnnounceDown(m)
    BY <1>2, <1>5, <1>6, <2>1 DEF Ledger!AnnounceDown, Book
  <2> QED BY <2>2 DEF Ledger!LedgerStep, Ledger!LedgerNext
<1>8. CASE Entry(state[m]) = "local" /\ ~local
  <2>1. local = FALSE
    BY <1>2, <1>8
  <2>2. Ledger!ConfirmLocal(m)
    BY <1>5, <1>6, <1>8, <2>1 DEF Ledger!ConfirmLocal, Book
  <2> QED BY <2>2 DEF Ledger!LedgerStep, Ledger!LedgerNext
<1> QED BY <1>2, <1>7, <1>8

LEMMA TellInLedger ==
    ASSUME LoopInv, NEW m \in Monitors, Tell(m)
    PROVE  [Ledger!LedgerNext]_Ledger!ledgerVars
<1> DEFINE s == [state[m] EXCEPT !.level = "degraded"]
<1>1. pc[m] = "tell" /\ inbox' = inbox /\ Settle(m, s)
  BY DEF Tell
<1>2. /\ state[m] \in AlertStates /\ state[m] # NoState /\ MonitorLevel(state[m])
      /\ Entry(cell[m]) = Entry(state[m])
      /\ AlertOnDegraded /\ state[m].level # "degraded"
  BY <1>1, InTick, MonitorLoopAssumption
  DEF MonitorLoopAssumption, LoopInv, LoopTypeOK, MonitorInv, AwaitInv
<1>3. Entry(s) = "degraded"
  <2>1. s \in AlertStates /\ s.level = "degraded"
    BY <1>2 DEF AlertStates, Levels
  <2> QED BY <2>1, MonitorLoopAssumption DEF MonitorLoopAssumption, Entry
<1> HIDE DEF s
<1>4. cell'[m] = s /\ \A k \in Monitors \ {m} : cell'[k] = cell[k]
  BY <1>1, SuspendSetsCell DEF LoopInv, Settle
<1>5. Book[m] = Entry(state[m]) /\ Ledger!Enter(m, "degraded")
  BY <1>2, <1>3, <1>4, Entering
<1>6. Book[m] \in {"healthy", "local", "down"}
  BY <1>2, <1>5 DEF Entry, MonitorLevel
<1>7. Ledger!AnnounceDegraded(m)
  BY <1>1, <1>2, <1>5, <1>6 DEF Ledger!AnnounceDegraded, Book
<1> QED BY <1>7 DEF Ledger!LedgerStep, Ledger!LedgerNext

LEMMA CrashInLedger ==
    ASSUME NEW executed \in SUBSET Monitors, Crash(executed)
    PROVE  [Ledger!LedgerNext]_Ledger!ledgerVars
<1>1. cell' = [m \in Monitors |-> NoState] /\ inbox' = <<>>
  BY DEF Crash
<1>2. Book' = [m \in Monitors |-> "unknown"]
  BY <1>1 DEF Book, Entry
<1>3. Ledger!Restart
  BY <1>1, <1>2 DEF Ledger!Restart, Book
<1> QED BY <1>3 DEF Ledger!LedgerNext

LEMMA LedgerNextStep ==
    LoopInv /\ [Next]_loopVars => [Ledger!LedgerNext]_Ledger!ledgerVars
<1> SUFFICES ASSUME LoopInv, [Next]_loopVars
             PROVE  [Ledger!LedgerNext]_Ledger!ledgerVars
  OBVIOUS
<1>1. CASE cell' = cell /\ inbox' = inbox
  <2>1. Book' = Book
    BY <1>1 DEF Book, Entry
  <2> QED BY <1>1, <2>1, Stutters
<1>2. CASE \E m \in Monitors : Step(m)
  <2> PICK m \in Monitors : Step(m)
    BY <1>2
  <2>1. ASSUME NEW ok \in BOOLEAN, Record(m, ok) \/ Route(m, ok)
        PROVE  cell' = cell /\ inbox' = inbox
    BY <2>1 DEF Record, Route
  <2>2. ASSUME NEW local \in BOOLEAN, Ask(m, local)
        PROVE  cell' = cell /\ inbox' = inbox
    BY <2>2 DEF Ask
  <2> QED BY <1>1, <2>1, <2>2, AttachInLedger, SeedInLedger, TickInLedger, CloseInLedger,
             BurnInLedger, AskAgainInLedger, AnnounceInLedger, TellInLedger DEF Step
<1>3. CASE Interruption
  <2>1. ASSUME NEW m \in Monitors, NEW executed \in BOOLEAN, Abort(m, executed)
        PROVE  cell' = cell /\ inbox' = inbox
    BY <2>1 DEF Abort
  <2> QED BY <1>1, <1>3, <2>1, CrashInLedger DEF Interruption
<1>4. CASE Deliver
  <2>1. Book' = Book
    BY <1>4 DEF Deliver, Book, Entry
  <2>2. Ledger!Take
    BY <1>4, <2>1 DEF Deliver, Ledger!Take, Book
  <2> QED BY <2>2 DEF Ledger!LedgerNext
<1>5. CASE UNCHANGED loopVars
  BY <1>1, <1>5 DEF loopVars
<1> QED BY <1>2, <1>3, <1>4, <1>5 DEF Next, LoopNext

\* The monitor loops implement the message protocol of AlertLedger: whatever is
\* aborted, crashes or fails, an alert is sent exactly when the cell's entry
\* changes ("an abort ... can at worst repeat an alert whose delivery it
\* interrupted, never lose one", `AlertCell`).
THEOREM Refinement == Spec => KeepsLedger
<1>1. LoopInit => Ledger!LedgerInit
  BY DEF LoopInit, Ledger!LedgerInit, Entry
<1>2. LoopInv /\ [Next]_loopVars => [Ledger!LedgerNext]_Ledger!ledgerVars
  BY LedgerNextStep
<1> QED BY <1>1, <1>2, LoopInvariant, PTL DEF Spec, KeepsLedger, Ledger!LedgerSpec
---------------------------------------------------------------------------
(* Downs are recorded before they are told *)

\* What every step but an announcement does to the inbox.
TellsNoDown ==
    \/ inbox' = inbox
    \/ \E k \in Monitors : inbox' = Append(inbox, Recovered(k))
    \/ \E k \in Monitors, confirmed \in BOOLEAN :
          inbox' = Append(inbox, ResumedLocalOnly(k, confirmed))
    \/ inbox' = <<>>
    \/ inbox # <<>> /\ inbox' = Tail(inbox)

LEMMA ReactTellsNoDown ==
    ASSUME NEW m \in Monitors, NEW outcome, NEW s, NEW c, React(m, outcome, s, c)
    PROVE  TellsNoDown
<1>1. ReactDown(m, s, c) \/ ReactDegraded(m, s, c) => inbox' = inbox
  BY DEF ReactDown, ReactDegraded
<1>2. ReactUp(m, s) => inbox' = inbox \/ inbox' = Append(inbox, Recovered(m))
  BY DEF ReactUp, Send
<1> QED BY <1>1, <1>2 DEF React, TellsNoDown

LEMMA StepTellsNoDown ==
    ASSUME NEW m \in Monitors, Step(m), ~Announce(m)
    PROVE  TellsNoDown
<1>1. ASSUME NEW outcome, NEW muted, Judge(m, outcome, muted)
      PROVE  TellsNoDown
  BY <1>1, ReactTellsNoDown DEF Judge, TellsNoDown
<1>2. ASSUME NEW ok \in BOOLEAN,
             Attach(m, ok) \/ Seed(m, ok) \/ Close(m, ok) \/ Record(m, ok) \/ Route(m, ok)
      PROVE  TellsNoDown
  <2>1. Attach(m, ok) \/ Record(m, ok) \/ Route(m, ok) => inbox' = inbox
    BY DEF Attach, Record, Route
  <2>2. ASSUME NEW routing, TellsRouting(m, routing)
        PROVE  TellsNoDown
    <3>1. (routing = "confirmed") \in BOOLEAN
      OBVIOUS
    <3> QED BY <2>2, <3>1 DEF TellsRouting, Send, TellsNoDown
  <2> QED BY <1>1, <1>2, <2>1, <2>2 DEF Seed, Close, TellsNoDown
<1>3. ASSUME NEW outcome, NEW muted, Tick(m, outcome, muted)
      PROVE  TellsNoDown
  BY <1>1, <1>3 DEF Tick, TellsNoDown
<1>4. ASSUME NEW hot, Burn(m, hot)
      PROVE  TellsNoDown
  BY <1>4, ReactTellsNoDown DEF Burn
<1>5. ASSUME NEW local, Ask(m, local) \/ AskAgain(m, local)
      PROVE  TellsNoDown
  BY <1>5 DEF Ask, AskAgain, TellsNoDown
<1>6. Tell(m) => TellsNoDown
  BY DEF Tell, TellsNoDown
<1> QED BY <1>2, <1>3, <1>4, <1>5, <1>6 DEF Step

\* A message is the last of the inbox it was sent to.
LEMMA DownIsNews ==
    ASSUME inbox \in Seq(AlertMsg), NEW m \in Monitors, NEW local \in BOOLEAN, TellsNoDown
    PROVE  inbox' # Append(inbox, Down(m, local))
<1>1. /\ Append(inbox, Down(m, local)) # inbox
      /\ Append(inbox, Down(m, local)) # <<>>
      /\ inbox # <<>> => Append(inbox, Down(m, local)) # Tail(inbox)
  <2>1. /\ Len(Append(inbox, Down(m, local))) = Len(inbox) + 1
        /\ inbox # <<>> => Len(Tail(inbox)) = Len(inbox) - 1
        /\ Len(inbox) \in Nat
    OBVIOUS
  <2> QED BY <2>1
<1>2. ASSUME NEW msg, Append(inbox, Down(m, local)) = Append(inbox, msg)
      PROVE  msg.kind = "down"
  <2>1. /\ Append(inbox, Down(m, local))[Len(inbox) + 1] = Down(m, local)
        /\ Append(inbox, msg)[Len(inbox) + 1] = msg
    OBVIOUS
  <2> QED BY <1>2, <2>1 DEF Down
<1>3. \A k : Append(inbox, Down(m, local)) # Append(inbox, Recovered(k))
  BY <1>2 DEF Recovered
<1>4. \A k, b : Append(inbox, Down(m, local)) # Append(inbox, ResumedLocalOnly(k, b))
  BY <1>2 DEF ResumedLocalOnly
<1> QED BY <1>1, <1>3, <1>4 DEF TellsNoDown

LEMMA OnlyAnnounceTellsDown ==
    ASSUME LoopInv, [Next]_loopVars, NEW m \in Monitors, NEW local \in BOOLEAN,
           inbox' = Append(inbox, Down(m, local))
    PROVE  \E k \in Monitors : Announce(k)
<1> SUFFICES ASSUME \A k \in Monitors : ~Announce(k)
             PROVE  TellsNoDown
  BY DownIsNews DEF LoopInv, LoopTypeOK
<1>1. ASSUME NEW k \in Monitors, Step(k)
      PROVE  TellsNoDown
  BY <1>1, StepTellsNoDown
<1>2. Interruption => inbox' = inbox \/ inbox' = <<>>
  BY DEF Interruption, Abort, Crash
<1>3. Deliver => inbox # <<>> /\ inbox' = Tail(inbox)
  BY DEF Deliver
<1>4. UNCHANGED loopVars => inbox' = inbox
  BY DEF loopVars
<1> QED BY <1>1, <1>2, <1>3, <1>4 DEF Next, LoopNext, TellsNoDown

\* A down reaches the coalescer with its incident in the database, unless a
\* statement failed (confirm_down: "Recorded *before* the peers are consulted").
THEOREM RecordedFirst == Spec => DownIsRecordedFirst
<1> DEFINE Recorded(m) ==
              (/\ cell[m] # NoState
               /\ cell[m].level # "down"
               /\ inbox' = Append(inbox, Down(m, FALSE)))
              => incidents[m] # <<>> \/ failures > 0
<1>1. ASSUME LoopInv, [Next]_loopVars, NEW m \in Monitors
      PROVE  Recorded(m)
  <2> SUFFICES ASSUME cell[m] # NoState, cell[m].level # "down",
                      inbox' = Append(inbox, Down(m, FALSE))
               PROVE  incidents[m] # <<>> \/ failures > 0
    OBVIOUS
  <2>1. PICK k \in Monitors : Announce(k)
    BY <1>1, OnlyAnnounceTellsDown
  <2>2. k = m
    <3>1. Append(inbox, Down(k, tick[k].local)) = Append(inbox, Down(m, FALSE))
      BY <2>1 DEF Announce, Send
    <3>2. inbox \in Seq(AlertMsg)
      BY <1>1 DEF LoopInv, LoopTypeOK
    <3>3. \A msg : Append(inbox, msg)[Len(inbox) + 1] = msg
      BY <3>2
    <3>4. Down(k, tick[k].local) = Down(m, FALSE)
      BY <3>1, <3>3
    <3> QED BY <3>4 DEF Down
  <2>3. pc[m] = "announce" /\ MonitorInv(m)
    BY <1>1, <2>1, <2>2 DEF Announce, LoopInv
  <2>4. state[m].level # "down"
    <3>1. state[m] # NoState /\ MonitorLevel(cell[m])
      BY <1>1, <2>3, MonitorLoopAssumption
      DEF MonitorLoopAssumption, LoopInv, LoopTypeOK, MonitorInv, AwaitInv
    <3>2. Entry(state[m]) = Entry(cell[m])
      BY <2>3 DEF MonitorInv
    <3> QED BY <3>1, <3>2 DEF Entry, MonitorLevel
  <2> QED BY <2>3, <2>4 DEF MonitorInv, AwaitInv
<1>2. LoopInv /\ [Next]_loopVars => [\A m \in Monitors : Recorded(m)]_loopVars
  BY <1>1
<1> QED BY <1>2, LoopInvariant, PTL DEF Spec, DownIsRecordedFirst
============================================================================
