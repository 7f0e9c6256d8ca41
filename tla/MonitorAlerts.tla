---------------------------- MODULE MonitorAlerts ----------------------------
(***************************************************************************)
(* The monitor loops with a coalescer that only reads its inbox: what the  *)
(* loops guarantee whatever becomes of their messages.                     *)
(***************************************************************************)
EXTENDS MonitorLoop

\* The coalescer takes the next message.
Deliver ==
    /\ inbox # <<>>
    /\ inbox' = Tail(inbox)
    /\ UNCHANGED <<taskVars, cell, incidents, budget>>

Next == LoopNext \/ Deliver

Spec == LoopInit /\ [][Next]_loopVars

FairSpec == Spec /\ LoopFairness /\ WF_loopVars(Deliver)

---------------------------------------------------------------------------
(* What the ledger of AlertLedger is in the code: the alert cell. *)

Entry(s) ==
    CASE s = NoState -> "unknown"
      [] s # NoState /\ s.level = "down" ->
            IF s.local_only_asked THEN "local" ELSE "down"
      [] OTHER -> s.level

Ledger == INSTANCE AlertLedger WITH ledger <- [m \in Monitors |-> Entry(cell[m])]

\* The loops keep the message protocol of AlertLedger, whatever task is
\* aborted at whatever .await and whichever statement fails: every alert and
\* the state that remembers it move together ("an abort ... can at worst repeat
\* an alert whose delivery it interrupted, never lose one", scheduler.rs).
KeepsLedger == Ledger!LedgerSpec

---------------------------------------------------------------------------
(* Incidents *)

\* The open incidents the task of m will still close.
Held(m) == IF open_incident[m] \/ pc[m] \in {"attach", "close"} THEN 1 ELSE 0

\* Each open incident no task holds costs one failed statement: an outage never
\* gets a second record, and none stays open forever, while the database
\* answers (`find_open_incident`, `open_incident_record`, `close_open_incident`).
NoLeakedIncident ==
    \A m \in Monitors : Len(incidents[m]) <= failures + Held(m)

\* A down is handed to the coalescer with its incident open in the database,
\* when it escalates from another level: the history is complete before anyone
\* is told, unless a statement failed (confirm_down).
DownIsRecordedFirst ==
    [][\A m \in Monitors :
          (/\ cell[m] # NoState
           /\ cell[m].level # "down"
           /\ inbox' = Append(inbox, Down(m, FALSE)))
          => incidents[m] # <<>> \/ failures > 0]_loopVars

\* An interrupted tick never leaves its half-made change in the cell: whenever
\* the task is between ticks, the cell holds exactly the task's state, and a
\* task in the middle of one has not yet moved the announced level.
CellIsLastSettled ==
    \A m \in Monitors :
        /\ pc[m] = "idle" => cell[m] = state[m]
        /\ pc[m] \notin {"attach", "seed"} => Entry(cell[m]) = Entry(state[m])

---------------------------------------------------------------------------
(* Liveness *)

Stays(m, outcome) == tick[m].outcome = outcome /\ ~tick[m].muted /\ crashes = 0

\* A monitor that stays down and unmuted is announced down, for good.
DownIsAnnounced ==
    \A m \in Monitors :
        <>[]Stays(m, "down") => <>[](Entry(cell[m]) \in {"down", "local"})

\* While an outage stays local-only the peers are asked about it forever:
\* nothing but their answer ends the quiet routing.
LocalDownIsReasked ==
    \A m \in Monitors :
        <>[](Stays(m, "down") /\ Entry(cell[m]) = "local") => []<>(pc[m] = "reask")

\* A monitor that stays up and unmuted ends up announced healthy, with no
\* incident left in its task's hands.
RecoveryIsAnnounced ==
    \A m \in Monitors :
        <>[]Stays(m, "up") =>
            <>[](Entry(cell[m]) = "healthy" /\ ~open_incident[m])

\* Whatever lasts is announced, and what is announced quietly is asked about again.
LastingIsAnnounced == DownIsAnnounced /\ RecoveryIsAnnounced /\ LocalDownIsReasked

\* What scheduler.rs says of the incidents ("the record should reflect the
\* real outage span") and the incident guide of the history ("every confirmed
\* down/up transition is recorded"): a monitor that stays down ends up with an
\* open incident.  It may not: an up tick that is muted, or merely degraded,
\* closes the incident and leaves the level at Down, so the next outage is not
\* confirmed anew and opens none.
OutageIsRecorded ==
    \A m \in Monitors : <>[]Stays(m, "down") => <>[](open_incident[m])
=============================================================================
