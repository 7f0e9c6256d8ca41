---------------------------- MODULE PeerConfirm ----------------------------
(***************************************************************************)
(* The question a monitor that is down here asks its peers                 *)
(* (mesh/confirm.rs) and their answers (handlers/peer.rs): every peer is   *)
(* asked at once, probes the target once, from where it is, and answers;   *)
(* both ends give up after PROBE_DEADLINE.                                 *)
(*                                                                         *)
(* A peer's vantage is whether the target answers there ("up", "down"), or *)
(* swallows the probe ("silent"); it changes while the question is out.    *)
(* What the network and the peer may do to one request - losing it, a body *)
(* that is cut or malformed, a refused token - is one loss.                *)
(***************************************************************************)
EXTENDS Naturals, FiniteSets

CONSTANTS
    Asked,          \* the peers with a probe_url
    ProbeDeadline,  \* PROBE_DEADLINE, at both ends
    ProbeTakes,     \* how long a probe of a silent target takes: its timeout
    MaxTurns        \* bound: changes of the vantages

ASSUME ConfirmAssumption ==
    ProbeDeadline \in Nat \ {0} /\ ProbeTakes \in Nat /\ MaxTurns \in Nat

VARIABLES
    vantage,    \* vantage[p]: how the target is seen from p
    watched,    \* the peers with this target in their configuration
    enabled,    \* whether confirmation applies to the monitor
    question,   \* "due", "out" or "answered"
    remains,    \* what is left of the requester's deadline
    responder,  \* responder[p]: the request at p
    answers,    \* answers[p]: a Verdict, or "pending"
    turns       \* bound counter

confirmVars ==
    <<vantage, watched, enabled, question, remains, responder, answers, turns>>

\* What a peer does with the request: [at, ran, answer]; ran is how long its
\* probe has run.
Idle == [at |-> "idle", ran |-> 0, answer |-> "none", saw |-> {}]

ConfirmInit ==
    /\ vantage \in [Asked -> {"up", "down", "silent"}]
    /\ watched \in SUBSET Asked /\ enabled \in BOOLEAN
    /\ question = "due" /\ remains = 0
    /\ responder = [p \in Asked |-> Idle]
    /\ answers = [p \in Asked |-> "pending"]
    /\ turns = 0

---------------------------------------------------------------------------
(* peer_probe *)

\* The request reaches p: a target that is not p's own is a 404 at once.
Arrives(p) ==
    /\ question = "out" /\ responder[p].at = "idle"
    /\ responder' = [responder EXCEPT ![p] =
          IF p \in watched THEN [@ EXCEPT !.at = "probing", !.saw = {vantage[p]}]
          ELSE [@ EXCEPT !.at = "answering", !.answer = "not_watched"]]
    /\ UNCHANGED <<vantage, watched, enabled, question, remains, answers, turns>>

\* The request, or its answer, is lost on the way, refused or not understood.
Lost(p) ==
    /\ question = "out" /\ responder[p].at \in {"idle", "answering"}
    /\ responder' = [responder EXCEPT ![p].at = "gone"]
    /\ UNCHANGED <<vantage, watched, enabled, question, remains, answers, turns>>

\* The probe ends by what the target does, by its own timeout, or by the
\* deadline of the handler, which is a down as well.
Probed(p) ==
    LET expired == responder[p].ran >= ProbeTakes \/ responder[p].ran >= ProbeDeadline
    IN
    /\ responder[p].at = "probing" /\ (vantage[p] # "silent" \/ expired)
    /\ responder' = [responder EXCEPT ![p].at = "answering",
          ![p].answer = IF vantage[p] = "up" /\ ~expired THEN "up" ELSE "down"]
    /\ UNCHANGED <<vantage, watched, enabled, question, remains, answers, turns>>

---------------------------------------------------------------------------
(* peer_verdicts *)

\* enabled; with nobody to ask there is no question.
Ask ==
    /\ question = "due"
    /\ question' = IF enabled /\ Asked # {} THEN "out" ELSE "answered"
    /\ remains' = ProbeDeadline
    /\ UNCHANGED <<vantage, watched, enabled, responder, answers, turns>>

\* probe_peer
Replies(p) ==
    /\ question = "out" /\ answers[p] = "pending" /\ responder[p].at = "answering"
    /\ answers' = [answers EXCEPT ![p] = responder[p].answer]
    /\ responder' = [responder EXCEPT ![p].at = "gone"]
    /\ UNCHANGED <<vantage, watched, enabled, question, remains, turns>>

GivesUp(p) ==
    /\ question = "out" /\ answers[p] = "pending"
    /\ responder[p].at = "gone" \/ remains = 0
    /\ answers' = [answers EXCEPT ![p] = "unknown"]
    /\ UNCHANGED <<vantage, watched, enabled, question, remains, responder, turns>>

\* join_all
Joins ==
    /\ question = "out" /\ \A p \in Asked : answers[p] # "pending"
    /\ question' = "answered"
    /\ UNCHANGED <<vantage, watched, enabled, remains, responder, answers, turns>>

ConfirmWaits ==
    /\ question = "out" /\ remains > 0 /\ remains' = remains - 1
    /\ responder' = [p \in Asked |->
          IF responder[p].at = "probing" THEN [responder[p] EXCEPT !.ran = @ + 1]
          ELSE responder[p]]
    /\ UNCHANGED <<vantage, watched, enabled, question, answers, turns>>

\* The world: the target comes and goes, seen from one vantage.
Turns(p) ==
    /\ question = "out" /\ turns < MaxTurns /\ turns' = turns + 1
    /\ \E seen \in {"up", "down", "silent"} :
          /\ vantage' = [vantage EXCEPT ![p] = seen]
          /\ responder' = [responder EXCEPT ![p].saw =
                IF responder[p].at = "probing" THEN @ \cup {seen} ELSE @]
    /\ UNCHANGED <<watched, enabled, question, remains, answers>>

ConfirmNext ==
    \/ Ask \/ Joins \/ ConfirmWaits
    \/ \E p \in Asked :
          Arrives(p) \/ Lost(p) \/ Probed(p) \/ Replies(p) \/ GivesUp(p) \/ Turns(p)

ConfirmSpec == ConfirmInit /\ [][ConfirmNext]_confirmVars

---------------------------------------------------------------------------
(* local_only *)

\* Mutant: no answer counts as one that does not see the target down.
NobodyObjects == \A p \in Asked : answers[p] # "down"

Contradicted ==
    /\ \E p \in Asked : answers[p] = "up"
    /\ \A p \in Asked : answers[p] # "down"

LocalOnly == question = "answered" /\ enabled /\ Asked # {} /\ Contradicted

\* Only an explicit, fresh contradiction quiets a down: some peer that watches
\* the target saw it up while it was being asked, and no peer whose answer came
\* in time saw it down - whatever is slow, lost, unwatched or misconfigured
\* ("fail open").
QuietedOnlyByAWitness ==
    LocalOnly =>
        /\ \E p \in watched : answers[p] # "unknown" /\ "up" \in responder[p].saw
        /\ \A p \in watched :
              answers[p] # "unknown" => "up" \in responder[p].saw
=============================================================================
