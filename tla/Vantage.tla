------------------------------ MODULE Vantage ------------------------------
(***************************************************************************)
(* The per-vantage views (mesh/vantage.rs): a poller asks every configured *)
(* peer for its monitors, all at once, folds the round's answers into the  *)
(* ones it kept and publishes the map the pages read.  A peer's answer     *)
(* about the one target both watch stands for its list.                    *)
(***************************************************************************)
EXTENDS Integers

CONSTANTS
    Peers,             \* the peers that may be configured, by name
    MAX_MISSED_POLLS,  \* polls a kept answer outlives
    MaxPeerChanges     \* bound: reloads, changes of a peer's view

ASSUME VantageAssumption == MAX_MISSED_POLLS \in Nat /\ MaxPeerChanges \in Nat

VARIABLES
    configured,   \* the peers of the running configuration
    sees,         \* what each peer would answer
    poll,         \* the round in progress: who is [asked], the [answers] so far
    kept,         \* last answer and polls missed since, per peer
    published,    \* the map: what each peer is shown to see
    lastRound,    \* history: the peers asked in the last round
    lastAnswer,   \* history: the last answer of each peer
    age,          \* history: rounds since, saturated above the limit
    askedFor,     \* history: rounds in a row it was asked since its answer
    peerChanges   \* bound counter

vantageVars == <<configured, sees, poll, kept, published, lastRound, lastAnswer, age, askedFor,
                 peerChanges>>

Views == {"up", "down"}
NoView == "none"
Forgotten == [view |-> NoView, missed |-> 0]
BetweenPolls == [asked |-> {}, answers |-> <<>>]
TooOld == MAX_MISSED_POLLS + 1

VantageInit ==
    /\ configured = Peers
    /\ sees = [p \in Peers |-> "up"]
    /\ poll = BetweenPolls
    /\ kept = [p \in Peers |-> Forgotten]
    /\ published = [p \in Peers |-> NoView]
    /\ lastRound = {} /\ lastAnswer = [p \in Peers |-> NoView]
    /\ age = [p \in Peers |-> TooOld] /\ askedFor = [p \in Peers |-> 0]
    /\ peerChanges = 0

PeerChange == peerChanges < MaxPeerChanges /\ peerChanges' = peerChanges + 1

ReloadPeers ==
    /\ PeerChange
    /\ \E peers \in SUBSET Peers : peers # configured /\ configured' = peers
    /\ UNCHANGED <<sees, poll, kept, published, lastRound, lastAnswer, age, askedFor>>

PeerSeesOther ==
    /\ PeerChange
    /\ \E p \in Peers, v \in Views : v # sees[p] /\ sees' = [sees EXCEPT ![p] = v]
    /\ UNCHANGED <<configured, poll, kept, published, lastRound, lastAnswer, age, askedFor>>

---------------------------------------------------------------------------
(* A round *)

\* The configuration is read once: a peer removed meanwhile still answers.
StartPoll ==
    /\ poll = BetweenPolls /\ configured # {}
    /\ poll' = [poll EXCEPT !.asked = configured]
    /\ UNCHANGED <<configured, sees, kept, published, lastRound, lastAnswer, age, askedFor, peerChanges>>

Waiting == poll.asked \ DOMAIN poll.answers

\* An answer, or none: unreachable, late, refused, malformed.
PeerAnswers ==
    \E p \in Waiting, answer \in Views \cup {NoView} :
        /\ answer \in {NoView, sees[p]}
        /\ poll' = [poll EXCEPT !.answers = [q \in DOMAIN @ \cup {p} |-> IF q = p THEN answer ELSE @[q]]]
        /\ UNCHANGED <<configured, sees, kept, published, lastRound, lastAnswer, age, askedFor,
                       peerChanges>>

\* Mutant: a peer no longer asked keeps its answer.
RetainAll(answers) == Peers

Retained(answers) == DOMAIN answers

Missed(k) ==
    IF k.view = NoView \/ k.missed + 1 > MAX_MISSED_POLLS THEN Forgotten
    ELSE [k EXCEPT !.missed = @ + 1]

\* fold_round: what is kept of a peer after the round.
Folded(p, answers) ==
    LET held == IF p \in Retained(answers) THEN kept[p] ELSE Forgotten
    IN CASE p \notin DOMAIN answers -> held
         [] p \in DOMAIN answers /\ answers[p] = NoView -> Missed(held)
         [] OTHER -> [view |-> answers[p], missed |-> 0]

Merged(p, answers, after) == IF p \in DOMAIN answers THEN after[p].view ELSE NoView

Aged(n) == IF n < TooOld THEN n + 1 ELSE n

Fold(answers) ==
    LET after == [p \in Peers |-> Folded(p, answers)]
        answered == {p \in DOMAIN answers : answers[p] # NoView}
    IN /\ kept' = after
       /\ published' = [p \in Peers |-> Merged(p, answers, after)]
       /\ lastRound' = DOMAIN answers
       /\ lastAnswer' = [p \in Peers |-> IF p \in answered THEN answers[p] ELSE lastAnswer[p]]
       /\ age' = [p \in Peers |-> IF p \in answered THEN 0 ELSE Aged(age[p])]
       /\ askedFor' = [p \in Peers |->
              IF p \in answered THEN 0 ELSE IF p \in DOMAIN answers THEN Aged(askedFor[p]) ELSE askedFor[p]]

FinishPoll ==
    /\ poll # BetweenPolls /\ Waiting = {}
    /\ Fold(poll.answers)
    /\ poll' = BetweenPolls
    /\ UNCHANGED <<configured, sees, peerChanges>>

\* Without a peer to ask the round is empty.
EmptyPoll ==
    /\ poll = BetweenPolls /\ configured = {}
    /\ Fold(<<>>)
    /\ UNCHANGED <<configured, sees, poll, peerChanges>>

VantageNext ==
    \/ ReloadPeers \/ PeerSeesOther \/ StartPoll \/ PeerAnswers \/ FinishPoll \/ EmptyPoll

---------------------------------------------------------------------------
(* Properties *)

\* A view is shown only of a peer asked in the last round, is the last thing
\* that peer said, and is at most MAX_MISSED_POLLS rounds old, also after the
\* peer was removed and put back; a peer asked in every round since its last
\* answer is shown that long.
ViewIsRecent ==
    \A p \in Peers :
        /\ published[p] # NoView =>
              p \in lastRound /\ published[p] = lastAnswer[p] /\ age[p] <= MAX_MISSED_POLLS
        /\ (lastAnswer[p] # NoView /\ age[p] <= MAX_MISSED_POLLS /\ askedFor[p] = age[p])
              => published[p] # NoView
=============================================================================
