----------------------------- MODULE Coalescer -----------------------------
(***************************************************************************)
(* Root-cause alert grouping (coalesce.rs): the pure grouping machine      *)
(* (`Coalescer`, here a record) and the task that drives it, one message   *)
(* or one deadline at a time, each notification an .await.                 *)
(*                                                                         *)
(* Time is relative: a queued alert carries the seconds left to its        *)
(* deadline (negative once overdue), a cover those of its memory.  The     *)
(* configuration is fixed, so retain_monitors keeps everything; who hears  *)
(* an alert is its audience, "usual" (the monitor's own channels) or       *)
(* "quiet" (alerts.notify_unconfirmed).                                    *)
(***************************************************************************)
EXTENDS AlertMessages, Integers, FiniteSets, FiniteSetsExt

CONSTANTS
    Upstreams,      \* Upstreams[m]: the transitive upstreams of m
    Window,         \* alerts.group_window_secs
    CauseMemory,    \* CAUSE_MEMORY_SECS
    QuietChannel,   \* whether alerts.notify_unconfirmed is set
    MaxLate         \* bound: seconds a deadline is overdue when it is flushed

ASSUME CoalescerAssumption ==
    /\ Upstreams \in [Monitors -> SUBSET Monitors]
    /\ \A m \in Monitors : m \notin Upstreams[m]
    /\ Window \in Nat /\ CauseMemory \in Nat \ {0} /\ MaxLate \in Nat
    /\ QuietChannel \in BOOLEAN

VARIABLES
    coalescer,      \* the grouping machine
    driver,         \* what the outbox comes from: "handling" a message,
                    \*   "releasing" expired alerts, "draining" at shutdown
    outbox,         \* the notifications still to dispatch, in order
    heard           \* heard[m]: the audiences told that m is down, and not
                    \*   yet that it recovered (history, read by no action)

coalescerVars == <<coalescer, driver, outbox, heard>>

Audiences == {"usual", "quiet"}
Pending == [id: Monitors, wait: Int, requeued: BOOLEAN]
Notification ==
    [kind: {"down", "recovered"}, id: Monitors, to: (SUBSET Audiences) \ {{}}]

CoalescerTypeOK ==
    /\ coalescer.pending \in Seq(Pending)
    /\ coalescer.covered \in [Monitors -> 0..CauseMemory]
    /\ coalescer.suppressed \subseteq Monitors
    /\ coalescer.quiet \in [Monitors -> {"none", "announced", "confirmed"}]
    /\ \A i \in DOMAIN coalescer.pending :
          /\ coalescer.pending[i].wait >= -MaxLate
          /\ Upstreams[coalescer.pending[i].id] # {}
    /\ driver \in {"handling", "releasing", "draining"}
    /\ outbox \in Seq(Notification)
    /\ heard \in [Monitors -> SUBSET Audiences]

NewCoalescer ==
    [pending |-> <<>>, covered |-> [m \in Monitors |-> 0],
     suppressed |-> {}, quiet |-> [m \in Monitors |-> "none"]]

CoalescerInit ==
    /\ coalescer = NewCoalescer
    /\ driver = "releasing"
    /\ outbox = <<>>

---------------------------------------------------------------------------
(* The grouping machine *)

\* Mutant: the last element is copied, not moved.
SwapCopy(s, i) == [s EXCEPT ![i] = s[Len(s)]]

\* Vec::swap_remove: the last element takes the place of the removed one.
SwapRemove(s, i) == SubSeq([s EXCEPT ![i] = s[Len(s)]], 1, Len(s) - 1)

Queued(c) == {c.pending[i].id : i \in DOMAIN c.pending}

CoveredUpstream(c, id) == \E up \in Upstreams[id] : c.covered[up] > 0

MarkSent(c, id) ==
    [c EXCEPT !.covered[id] = CauseMemory, !.suppressed = @ \ {id}]

FoldAlert(c, id) ==
    [c EXCEPT !.covered[id] = CauseMemory, !.suppressed = @ \union {id}]

Enqueue(c, id) ==
    [c EXCEPT !.pending =
        Append(@, [id |-> id, wait |-> Window, requeued |-> FALSE])]

\* A usual down of a monitor announced as local-only confirms it.
ConfirmQuiet(c, id) ==
    [c EXCEPT !.quiet[id] = IF @ = "none" THEN "none" ELSE "confirmed"]

Notify(kind, id, to) ==
    IF to = {} THEN <<>> ELSE <<[kind |-> kind, id |-> id, to |-> to]>>

QuietAudience == IF QuietChannel THEN {"quiet"} ELSE {}

\* A method of the machine yields its next state and the notifications due.
Yield(c, out) == [state |-> c, out |-> out]

\* Mutant: a root is queued like any other alert.
GoesAtOnceUngrouped(id) == Window = 0

\* Mutant: a dependent is grouped even when grouping is off.
GoesAtOnceGrouped(id) == Upstreams[id] = {}

\* A root, or any alert when grouping is off.
GoesAtOnce(id) == Upstreams[id] = {} \/ Window = 0

\* on_down
OnDown(c, id, local) ==
    LET known == ConfirmQuiet(c, id)
    IN  CASE local ->
                Yield([c EXCEPT !.quiet[id] = "announced"],
                      Notify("down", id, QuietAudience))
          [] ~local /\ GoesAtOnce(id) ->
                Yield(MarkSent(known, id), Notify("down", id, {"usual"}))
          [] ~local /\ ~GoesAtOnce(id) ->
                Yield(IF CoveredUpstream(known, id) THEN FoldAlert(known, id)
                                                    ELSE Enqueue(known, id), <<>>)

\* Mutant: the recovery leaves the queued down to be sent.
Undropped(pending, id) == pending

\* The queue without the first alert of id, if it holds one.
Dropped(pending, id) ==
    LET positions == {i \in DOMAIN pending : pending[i].id = id}
    IN  IF positions = {} THEN pending ELSE SwapRemove(pending, Min(positions))

\* Mutant: a local-only down recovers quietly even once confirmed.
RecipientsQuietly(c, id) ==
    IF c.quiet[id] # "none" THEN QuietAudience
    ELSE IF id \in Queued(c) \union c.suppressed THEN {} ELSE {"usual"}

\* on_recovered: whoever received the down.
Recipients(c, id) ==
    (IF /\ id \notin Queued(c)
        /\ id \notin c.suppressed
        /\ c.quiet[id] # "announced"
     THEN {"usual"} ELSE {})
      \union IF c.quiet[id] = "none" THEN {} ELSE QuietAudience

\* Mutant: an outage that is over goes on covering its dependents.
StillCovered(c, id) == c.covered[id]

Uncovered(c, id) == 0

OnRecovered(c, id) ==
    Yield([c EXCEPT !.covered[id] = Uncovered(c, id),
                    !.quiet[id] = "none",
                    !.pending = Dropped(@, id),
                    !.suppressed = IF id \in Queued(c) THEN @ ELSE @ \ {id}],
          Notify("recovered", id, Recipients(c, id)))

OnResumed(c, id, confirmed) ==
    Yield([c EXCEPT !.quiet[id] = IF confirmed THEN "confirmed" ELSE "announced"],
          <<>>)

Handle(c, message) ==
    CASE message.kind = "down" -> OnDown(c, message.id, message.local_only)
      [] message.kind = "recovered" -> OnRecovered(c, message.id)
      [] message.kind = "resumed" -> OnResumed(c, message.id, message.confirmed)

Expired(pending) == {i \in DOMAIN pending : pending[i].wait <= 0}

\* The expired alert with the earliest deadline, the first of equals.
FirstExpired(pending) ==
    CHOOSE i \in Expired(pending) :
        \A j \in Expired(pending) :
            \/ pending[i].wait < pending[j].wait
            \/ pending[i].wait = pending[j].wait /\ i <= j

\* Mutant: an alert may wait for its upstreams again and again.
RequeueAgain(alert, waits) ==
    [alert EXCEPT !.wait = Max(waits \union {0}) + 1]

\* An expired alert whose upstream is still queued waits once for its verdict.
Requeue(alert, waits) ==
    [alert EXCEPT !.requeued = TRUE, !.wait = Max(waits \union {0}) + 1]

\* One turn of the loop of flush.
ReleaseFirst(y) ==
    LET index == FirstExpired(y.state.pending)
        alert == y.state.pending[index]
        rest == SwapRemove(y.state.pending, index)
        c == [y.state EXCEPT !.pending = rest]
        upstreamWaits == {rest[i].wait : i \in
                            {j \in DOMAIN rest : rest[j].id \in Upstreams[alert.id]}}
    IN  IF CoveredUpstream(c, alert.id)
        THEN [y EXCEPT !.state = FoldAlert(c, alert.id)]
        ELSE IF upstreamWaits # {} /\ ~alert.requeued
             THEN [y EXCEPT !.state =
                      [c EXCEPT !.pending = Append(@, Requeue(alert, upstreamWaits))]]
             ELSE Yield(MarkSent(c, alert.id),
                        y.out \o Notify("down", alert.id, {"usual"}))

\* flush: every expired alert is released; a requeued one is not expired.
Flush(c) ==
    LET released[n \in 0..Len(c.pending)] ==
          IF n = 0 THEN Yield(c, <<>>)
          ELSE LET y == released[n - 1]
               IN  IF Expired(y.state.pending) = {} THEN y ELSE ReleaseFirst(y)
    IN  released[Len(c.pending)]

\* drain: at shutdown the queue is emptied, in order, without waiting.
DrainFirst(y, id) ==
    IF CoveredUpstream(y.state, id)
    THEN [y EXCEPT !.state = FoldAlert(@, id)]
    ELSE Yield([y.state EXCEPT !.suppressed = @ \ {id}],
               y.out \o Notify("down", id, {"usual"}))

Drain(c) ==
    LET drained[n \in 0..Len(c.pending)] ==
          IF n = 0 THEN Yield([c EXCEPT !.pending = <<>>], <<>>)
          ELSE DrainFirst(drained[n - 1], c.pending[n].id)
    IN  drained[Len(c.pending)]

---------------------------------------------------------------------------
(* The task *)

Selecting == driver = "releasing" /\ outbox = <<>>

Dispatching(yielded, phase) ==
    \E y \in {yielded} :
        /\ coalescer' = y.state
        /\ outbox' = y.out
        /\ driver' = phase

\* A message is read and handled.
Receive ==
    /\ Selecting
    /\ inbox # <<>>
    /\ inbox' = Tail(inbox)
    /\ Dispatching(Handle(coalescer, Head(inbox)), "handling")
    /\ UNCHANGED heard

\* After a message, what has expired is released.
Release ==
    /\ driver = "handling" /\ outbox = <<>>
    /\ Dispatching(Flush(coalescer), "releasing")
    /\ UNCHANGED <<inbox, heard>>

\* The sleep until the next deadline ends.
Wake ==
    /\ Selecting
    /\ Expired(coalescer.pending) # {}
    /\ Dispatching(Flush(coalescer), "releasing")
    /\ UNCHANGED <<inbox, heard>>

\* send_down, send_recovered: the next notification reaches its audience.
Dispatch ==
    /\ outbox # <<>>
    /\ outbox' = Tail(outbox)
    /\ heard' = [heard EXCEPT ![Head(outbox).id] =
                    IF Head(outbox).kind = "down" THEN @ \union Head(outbox).to
                                                  ELSE @ \ Head(outbox).to]
    /\ UNCHANGED <<coalescer, driver, inbox>>

\* Shutdown is seen by the select: unread messages are never read.
Stop ==
    /\ Selecting
    /\ Dispatching(Drain(coalescer), "draining")
    /\ UNCHANGED <<inbox, heard>>

Less(n) == IF n = 0 THEN 0 ELSE n - 1

Nearer(pending) == [i \in DOMAIN pending |-> [pending[i] EXCEPT !.wait = @ - 1]]

\* A second passes.
Advance ==
    /\ \A i \in DOMAIN coalescer.pending : coalescer.pending[i].wait > -MaxLate
    /\ coalescer' = [coalescer EXCEPT !.pending = Nearer(@),
                                      !.covered = [m \in Monitors |-> Less(@[m])]]
    /\ UNCHANGED <<driver, outbox, heard, inbox>>

\* What the task does by itself, when it is scheduled and its channels answer.
Drive == Receive \/ Release \/ Wake \/ Dispatch
============================================================================
