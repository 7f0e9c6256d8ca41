----------------------------- MODULE AlertPath -----------------------------
(***************************************************************************)
(* The coalescer fed by every protocol of messages the monitor loops may   *)
(* follow (AlertLedger, which MonitorLoop implements): what reaches the    *)
(* people behind the channels.  One run of the process; AlertPipeline adds *)
(* its restarts.                                                           *)
(***************************************************************************)
EXTENDS AlertLedger, Coalescer

CONSTANT MaxInbox       \* bound: alerts not yet read by the coalescer

ASSUME MaxInboxAssumption == MaxInbox \in Nat \ {0}

pathVars == <<ledgerVars, coalescerVars>>

\* The process starts with nothing announced, or in the middle of outages an
\* earlier run announced; Resume then finds what that run left.
LeftAnnounced == {{}, {"usual"}} \union
    IF QuietChannel THEN {{"quiet"}, Audiences} ELSE {}

PathInit ==
    /\ LedgerInit
    /\ CoalescerInit
    /\ heard \in [Monitors -> LeftAnnounced]

\* The audiences of the outage the incident of m records as Resume finds it.
Resumed(m) ==
    CASE ledger'[m] = "healthy" -> {}
      [] ledger'[m] = "local" -> {"quiet"}
      [] ledger'[m] = "down" -> IF inbox' = inbox THEN {"usual"} ELSE Audiences

Announces(m) ==
    /\ Len(inbox) < MaxInbox
    /\ \/ Resume(m) /\ Resumed(m) = heard[m]
       \/ AnnounceDown(m)
       \/ ConfirmLocal(m)
       \/ AnnounceDegraded(m)
       \/ AnnounceRecovery(m)
    /\ UNCHANGED coalescerVars

Drives == Drive /\ UNCHANGED ledger
Advances == Advance /\ UNCHANGED ledger

PathNext == (\E m \in Monitors : Announces(m)) \/ Drives \/ Advances

\* The runtime keeps running the task, its channels answer, and time passes.
PathSpec ==
    PathInit /\ [][PathNext]_pathVars /\ WF_pathVars(Drives) /\ WF_pathVars(Advances)

---------------------------------------------------------------------------
(* What the channels hear *)

InFlight(m) ==
    {i \in DOMAIN inbox : inbox[i].id = m} # {}
        \/ {i \in DOMAIN outbox : outbox[i].id = m} # {}

\* A recovery goes to whoever received the down it ends: the usual channels,
\* the quiet ones, or both (`Recipients`); nobody is told of the end of an
\* outage they never heard of, nobody who heard of it is left out.
RecoveryReachesWhoeverHeard ==
    [][outbox # <<>> /\ outbox' = Tail(outbox) /\ Head(outbox).kind = "recovered"
         => Head(outbox).to = heard[Head(outbox).id]]_pathVars

\* An audience hears of one outage once: no queueing, folding or second
\* question repeats a down ("one notification per incident").
OneDownPerOutage ==
    [][outbox # <<>> /\ outbox' = Tail(outbox) /\ Head(outbox).kind = "down"
         => Head(outbox).to \intersect heard[Head(outbox).id] = {}]_pathVars

\* What each audience has heard once everything about a monitor is settled.
Expected(m) ==
    CASE ledger[m] = "healthy" -> {{}}
      [] ledger[m] = "local" -> {QuietAudience}
      [] ledger[m] = "down" ->
            {told \in SUBSET Audiences : "usual" \in told <=> m \notin coalescer.suppressed}
      [] OTHER -> SUBSET Audiences

\* With nothing about m queued or in flight, the audiences know exactly what
\* was decided: all clear, local-only on the quiet channels, or down on the
\* usual ones unless the down was folded into its cause.
SettledIsHeard ==
    \A m \in Monitors :
        ~InFlight(m) /\ m \notin Queued(coalescer) => heard[m] \in Expected(m)

\* An outage announced is heard where it was decided, through degradations and
\* relapses: on the usual channels when nothing is ever folded, on the quiet ones
\* when it is local-only.  (With alert_on_degraded, SettledIsHeard is too strong:
\* see EndIsHeardByAll.)
AnnouncedIsHeard ==
    \A m \in Monitors :
        ~InFlight(m) /\ m \notin Queued(coalescer) =>
            /\ ledger[m] = "down" /\ Window = 0 => "usual" \in heard[m]
            /\ ledger[m] = "local" => QuietAudience \subseteq heard[m]

\* A cover is a present outage: a down that went out, is about to, or was
\* itself folded, and not yet recovered - nothing folds into an outage that
\* is over or that was only seen from here.
CoverIsOutage ==
    \A m \in Monitors :
        coalescer.covered[m] > 0 =>
            \/ m \in coalescer.suppressed
            \/ "usual" \in heard[m]
            \/ \E i \in DOMAIN outbox : outbox[i].id = m /\ outbox[i].to = {"usual"}

\* A queued down is sent, folded or dropped in the end, even while its
\* upstreams flap: it waits for them once.
QueuedIsResolved ==
    \A m \in Monitors : m \in Queued(coalescer) ~> m \notin Queued(coalescer)

\* The head of coalesce.rs ("A recovery goes to whoever received a down"),
\* whatever alerts.alert_on_degraded is: nobody who heard of an outage is left
\* without its end.  With it on, an outage that eases into a degradation and
\* comes back local-only overwrites the routing: the usual channels, told of
\* the down, are not told of the recovery.
EndIsHeardByAll ==
    [][outbox # <<>> /\ outbox' = Tail(outbox) /\ Head(outbox).kind = "recovered"
         => heard[Head(outbox).id] \subseteq Head(outbox).to]_pathVars

\* Both: what is queued leaves the queue, and after every step what is settled was
\* heard where it was decided.
OutagesAreHeard == QueuedIsResolved /\ [][SettledIsHeard']_pathVars
============================================================================
