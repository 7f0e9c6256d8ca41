---------------------------- MODULE AlertLedger ----------------------------
(***************************************************************************)
(* What the monitor loops promise the coalescer: the protocol of the       *)
(* messages of each monitor, told from the level the alert cell records.   *)
(* A message and its entry in the ledger are one step, so an interrupted   *)
(* task neither loses an alert nor sends it twice.                         *)
(*                                                                         *)
(* MonitorLoop implements this specification; AlertPath composes it with   *)
(* the coalescer in place of the loops.                                    *)
(***************************************************************************)
EXTENDS AlertMessages

CONSTANT AlertOnDegraded    \* alerts.alert_on_degraded

VARIABLE ledger     \* ledger[m]: what m was last announced as

ledgerVars == <<ledger, inbox>>

\* "unknown": the process just started and m's first task has not yet looked.
Entries == {"unknown", "healthy", "degraded", "local", "down"}

LedgerInit ==
    /\ ledger = [m \in Monitors |-> "unknown"]
    /\ inbox = <<>>

Enter(m, entry) == ledger' = [ledger EXCEPT ![m] = entry]

\* A task starts after the process did: it finds no open incident, or one
\* whose down was ordinary, local-only, or local-only and then confirmed.
Resume(m) ==
    /\ ledger[m] = "unknown"
    /\ \/ \E entry \in {"healthy", "down"} : Enter(m, entry) /\ UNCHANGED inbox
       \/ Enter(m, "down") /\ Send(ResumedLocalOnly(m, TRUE))
       \/ Enter(m, "local") /\ Send(ResumedLocalOnly(m, FALSE))

\* An outage is confirmed: announced once, as local-only or not.
AnnounceDown(m) ==
    /\ ledger[m] \in {"healthy", "degraded"}
    /\ \E local \in BOOLEAN :
          /\ Enter(m, IF local THEN "local" ELSE "down")
          /\ Send(Down(m, local))

\* A local-only down stops being contradicted by the peers.
ConfirmLocal(m) ==
    /\ ledger[m] = "local"
    /\ Enter(m, "down")
    /\ Send(Down(m, FALSE))

\* A degradation is announced past the coalescer, also on the way out of an
\* outage.
AnnounceDegraded(m) ==
    /\ AlertOnDegraded
    /\ ledger[m] \in {"healthy", "local", "down"}
    /\ Enter(m, "degraded")
    /\ UNCHANGED inbox

AnnounceRecovery(m) ==
    /\ ledger[m] \in {"degraded", "local", "down"}
    /\ Enter(m, "healthy")
    /\ Send(Recovered(m))

\* The coalescer reads its next message.
Take ==
    /\ inbox # <<>>
    /\ inbox' = Tail(inbox)
    /\ UNCHANGED ledger

\* The process dies: the ledger is rebuilt, the unread messages are gone.
Restart ==
    /\ ledger' = [m \in Monitors |-> "unknown"]
    /\ inbox' = <<>>

LedgerStep(m) ==
    \/ Resume(m)
    \/ AnnounceDown(m)
    \/ ConfirmLocal(m)
    \/ AnnounceDegraded(m)
    \/ AnnounceRecovery(m)

LedgerNext == (\E m \in Monitors : LedgerStep(m)) \/ Take \/ Restart

LedgerSpec == LedgerInit /\ [][LedgerNext]_ledgerVars
===========================================================================
