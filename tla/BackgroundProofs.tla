-------------------------- MODULE BackgroundProofs --------------------------
(***************************************************************************)
(* The background tasks, for any peers, keys and schedules and any number  *)
(* of changes, pushes and faults: a view that is shown is recent, a        *)
(* heartbeat monitor is late exactly when its schedule says so, no key     *)
(* passes that is not the pinned one unless it was reported.               *)
(***************************************************************************)
EXTENDS Background, FiniteSetTheorems, TLAPS

---------------------------------------------------------------------------
(* The least and the greatest of a set of seconds *)

\* A nonempty family of subsets of a finite set has a minimal member.
LEMMA MinimalSubset ==
    ASSUME NEW X, IsFiniteSet(X), NEW T \in SUBSET (SUBSET X), T # {}
    PROVE  \E s \in T : \A t \in T : t \subseteq s => t = s
  <1>1. IsWellFoundedOn(StrictSubsetOrdering(X), SUBSET X)
    BY FS_StrictSubsetOrderingWellFounded, FS_FiniteSubsetsOfFinite
  <1>2. \E s \in T : \A t \in T : <<t, s>> \notin StrictSubsetOrdering(X)
    BY <1>1, WFMin
  <1>3. \A s, t \in T : t \subseteq s /\ t # s => <<t, s>> \in StrictSubsetOrdering(X)
    BY DEF StrictSubsetOrdering
  <1>. QED BY <1>2, <1>3

\* A nonempty set of naturals has a least one: the intervals that start at 0
\* and end in it have a minimal one.
LEMMA LeastExists ==
    ASSUME NEW S \in SUBSET Nat, S # {}
    PROVE  \E x \in S : \A y \in S : x =< y
  <1>1. PICK n \in S : TRUE
    OBVIOUS
  <1>. DEFINE X == 0..n
              T == {0..m : m \in {k \in S : k =< n}}
  <1>2. IsFiniteSet(X) /\ T \in SUBSET (SUBSET X) /\ T # {}
    <2>1. IsFiniteSet(X)
      BY FS_Interval
    <2>2. \A m \in S : m =< n => 0..m \subseteq X
      OBVIOUS
    <2>3. 0..n \in T
      OBVIOUS
    <2>4. T \subseteq SUBSET X
      BY <2>2
    <2>. QED BY <2>1, <2>3, <2>4
  <1>3. \E s \in T : \A t \in T : t \subseteq s => t = s
    <2>. HIDE DEF T, X
    <2>. QED BY <1>2, MinimalSubset
  <1>4. PICK x \in S : x =< n /\ \A t \in T : t \subseteq 0..x => t = 0..x
    BY <1>3
  <1>5. \A y \in S : y < x => 0..y \in T /\ 0..y \subseteq 0..x /\ x \notin 0..y /\ x \in 0..x
    BY <1>4
  <1>6. \A y \in S : ~(y < x)
    BY <1>4, <1>5
  <1>. QED BY <1>6

LEMMA MinIsLeast ==
    ASSUME NEW S \in SUBSET Nat, S # {}
    PROVE  Min(S) \in S /\ \A y \in S : Min(S) =< y
  BY LeastExists DEF Min

\* The same from above, for a set that has a bound.
LEMMA MaxIsGreatest ==
    ASSUME NEW n \in Nat, NEW S \in SUBSET (0..n), S # {}
    PROVE  Max(S) \in S /\ \A y \in S : Max(S) >= y
  <1>. DEFINE R == {n - s : s \in S}
  <1>1. R \in SUBSET Nat /\ R # {}
    <2>1. \A s \in S : n - s \in Nat
      OBVIOUS
    <2>. QED BY <2>1
  <1>2. \E x \in R : \A y \in R : x =< y
    <2>. HIDE DEF R
    <2>. QED BY <1>1, LeastExists
  <1>3. \E x \in S : \A y \in S : x >= y
    <2>1. PICK x \in S : \A y \in R : n - x =< y
      BY <1>2
    <2>2. \A y \in S : n - y \in R /\ x \in Int /\ y \in Int
      OBVIOUS
    <2>3. \A y \in S : n - x =< n - y
      BY <2>1, <2>2
    <2>. QED BY <2>2, <2>3
  <1>. QED BY <1>3 DEF Max

---------------------------------------------------------------------------
(* The vantage poller *)

VantageTypeOK ==
    /\ configured \subseteq Peers /\ lastRound \subseteq Peers
    /\ sees \in [Peers -> Views]
    /\ poll.asked \subseteq Peers /\ DOMAIN poll.answers \subseteq poll.asked
    /\ \A p \in DOMAIN poll.answers : poll.answers[p] \in Views \cup {NoView}
    /\ kept \in [Peers -> [view : Views \cup {NoView}, missed : Nat]]
    /\ published \in [Peers -> Views \cup {NoView}]
    /\ lastAnswer \in [Peers -> Views \cup {NoView}]
    /\ age \in [Peers -> Nat] /\ askedFor \in [Peers -> Nat]

\* What the histories say the poller should hold of a peer: the last answer of
\* one asked in every round since, and at most MAX_MISSED_POLLS times in vain.
IsFresh(p) == lastAnswer[p] # NoView /\ age[p] <= MAX_MISSED_POLLS /\ askedFor[p] = age[p]

KeptIsFresh(p) ==
    /\ askedFor[p] <= age[p]
    /\ kept[p].view # NoView <=> IsFresh(p)
    /\ kept[p].view # NoView => kept[p].view = lastAnswer[p] /\ kept[p].missed = age[p]

\* Every kept view is on the pages: what was not asked for is forgotten.
ShownIsKept(p) ==
    /\ published[p] = kept[p].view
    /\ kept[p].view # NoView => p \in lastRound

VantageInv == VantageTypeOK /\ \A p \in Peers : KeptIsFresh(p) /\ ShownIsKept(p)

LEMMA VantageInvInit == VantageInit => VantageInv
  BY VantageAssumption DEF VantageAssumption, VantageInit, VantageInv, VantageTypeOK,
     KeptIsFresh, IsFresh, ShownIsKept, Views, NoView, Forgotten, BetweenPolls, TooOld

\* A round folds the answers of some peers into what is kept.
LEMMA FoldKeeps ==
    ASSUME VantageInv, NEW answers, DOMAIN answers \subseteq Peers,
           \A p \in DOMAIN answers : answers[p] \in Views \cup {NoView},
           Fold(answers), UNCHANGED <<configured, sees>>,
           poll' = poll \/ poll' = BetweenPolls
    PROVE  VantageInv'
  <1>. USE VantageAssumption DEF VantageAssumption, Views, NoView, Forgotten, BetweenPolls, TooOld
  <1>1. VantageTypeOK'
    <2>. DEFINE Held == [view : Views \cup {NoView}, missed : Nat]
    <2>1. \A p \in Peers : Folded(p, answers) \in Held
      <3>1. \A p \in Peers : kept[p] \in Held
        BY DEF VantageInv, VantageTypeOK
      <3>2. Forgotten \in Held /\ \A k \in Held : Missed(k) \in Held
        BY DEF Missed
      <3>3. \A p \in DOMAIN answers : answers[p] # NoView =>
                [view |-> answers[p], missed |-> 0] \in Held
        OBVIOUS
      <3>4. ASSUME NEW p \in Peers PROVE Folded(p, answers) \in Held
        <4>. HIDE DEF Held
        <4>1. CASE p \notin DOMAIN answers
          BY <3>2, <4>1 DEF Folded, Retained
        <4>2. CASE p \in DOMAIN answers /\ answers[p] = NoView
          BY <3>1, <3>2, <4>2 DEF Folded, Retained
        <4>3. CASE p \in DOMAIN answers /\ answers[p] # NoView
          BY <3>3, <4>3 DEF Folded, Retained
        <4>. QED BY <4>1, <4>2, <4>3
      <3>. QED BY <3>4
    <2>2. kept' = [p \in Peers |-> Folded(p, answers)]
      BY DEF Fold
    <2>3. \A p \in Peers : Merged(p, answers, kept') \in Views \cup {NoView}
      BY <2>1, <2>2 DEF Merged
    <2>4. published' \in [Peers -> Views \cup {NoView}]
      BY <2>2, <2>3 DEF Fold
    <2>5. (lastAnswer \in [Peers -> Views \cup {NoView}] /\ age \in [Peers -> Nat]
            /\ askedFor \in [Peers -> Nat])'
      BY DEF Fold, Aged, VantageInv, VantageTypeOK
    <2>. QED BY <2>1, <2>2, <2>4, <2>5 DEF Fold, VantageInv, VantageTypeOK
  <1>2. ASSUME NEW p \in Peers PROVE KeptIsFresh(p)' /\ ShownIsKept(p)'
    <2>1. CASE p \notin DOMAIN answers
      <3>1. kept'[p].view = NoView /\ published'[p] = NoView /\ askedFor'[p] = askedFor[p]
        BY <2>1 DEF Fold, Folded, Retained, Merged
      <3>2. age[p] \in Nat /\ askedFor[p] \in Nat /\ askedFor[p] <= age[p]
        BY DEF VantageInv, VantageTypeOK, KeptIsFresh
      <3>3. age'[p] = IF age[p] < TooOld THEN age[p] + 1 ELSE age[p]
        BY <2>1 DEF Fold, Aged
      <3>4. askedFor'[p] <= age'[p] /\ ~IsFresh(p)'
        BY <3>1, <3>2, <3>3 DEF IsFresh
      <3>. QED BY <3>1, <3>4 DEF KeptIsFresh, ShownIsKept
    <2>2. CASE p \in DOMAIN answers /\ answers[p] = NoView
      BY <2>2 DEF Fold, Folded, Retained, Missed, Merged, Aged, VantageInv, VantageTypeOK,
         KeptIsFresh, IsFresh, ShownIsKept
    <2>3. CASE p \in DOMAIN answers /\ answers[p] # NoView
      BY <2>3 DEF Fold, Folded, Retained, Missed, Merged, Aged, VantageInv, VantageTypeOK,
         KeptIsFresh, IsFresh, ShownIsKept
    <2>. QED BY <2>1, <2>2, <2>3
  <1>. QED BY <1>1, <1>2 DEF VantageInv

LEMMA VantageInvStep == VantageInv /\ [VantageNext]_vantageVars => VantageInv'
  <1>. SUFFICES ASSUME VantageInv, [VantageNext]_vantageVars PROVE VantageInv'
    OBVIOUS
  <1>. USE DEF VantageInv, VantageTypeOK, KeptIsFresh, IsFresh, ShownIsKept
  <1>1. CASE ReloadPeers
    BY <1>1 DEF ReloadPeers
  <1>2. CASE PeerSeesOther
    BY <1>2 DEF PeerSeesOther, Views
  <1>3. CASE StartPoll
    BY <1>3 DEF StartPoll, BetweenPolls
  <1>4. CASE PeerAnswers
    BY <1>4 DEF PeerAnswers, Waiting
  <1>5. CASE FinishPoll
    BY <1>5, FoldKeeps DEF FinishPoll
  <1>6. CASE EmptyPoll
    BY <1>6, FoldKeeps DEF EmptyPoll
  <1>7. CASE UNCHANGED vantageVars
    BY <1>7 DEF vantageVars
  <1>. QED BY <1>1, <1>2, <1>3, <1>4, <1>5, <1>6, <1>7 DEF VantageNext

LEMMA BackgroundPolls == [Next]_vars => [VantageNext]_vantageVars
  BY DEF Next, vars, vantageVars

\* The poller keeps of a peer exactly what it answered last, as long as it is
\* asked and for MAX_MISSED_POLLS rounds without an answer.
THEOREM VantageInvariant == Spec => []VantageInv
  <1>1. Init => VantageInv
    BY VantageInvInit DEF Init
  <1>2. VantageInv /\ [Next]_vars => VantageInv'
    BY VantageInvStep, BackgroundPolls
  <1>. QED BY <1>1, <1>2, PTL DEF Spec

\* No page shows a view of a peer that is gone, or one older than the polls it
\* may outlive, and a view that is recent is shown.
THEOREM ViewsAreRecent == Spec => []ViewIsRecent
  <1>1. VantageInv => ViewIsRecent
    BY VantageAssumption DEF VantageAssumption, VantageInv, VantageTypeOK, KeptIsFresh, IsFresh,
       ShownIsKept, ViewIsRecent
  <1>. QED BY <1>1, VantageInvariant, PTL

---------------------------------------------------------------------------
(* The watcher of heartbeats *)

Watches ==
    [pc : {"off", "idle", "judging", "missed", "judged"}, expected : Seconds \cup {NotYet},
     now : Seconds, verdict : Statuses \cup {"unknown", "overdue"}]

BeatTypeOK ==
    /\ clock \in Seconds /\ cadence \in {"cron", "every"}
    /\ rows \in [Seconds -> [source : {"none", "probe", "push", "miss"}, status : Statuses]]
    /\ pushed \in [Seconds -> Statuses \cup {"none"}]
    /\ expected \in Seconds \cup {NotYet} /\ firstWatch \in Seconds \cup {NotYet}
    /\ watch \in Watches
    /\ blind \in BOOLEAN

\* What counts as a heartbeat was pushed, or is older than the source column.
RowsAreHeard ==
    \A s \in Seconds :
        /\ pushed[s] # "none" => rows[s] = PushRow(pushed[s])
        /\ rows[s].source = "push" => pushed[s] # "none"
        /\ rows[s].source = "probe" => s = 0

\* The deadline runs from the first moment a task watched, across restarts.
WatchedSince ==
    /\ ~blind => expected = firstWatch
    /\ watch.pc # "off" => firstWatch # NotYet /\ watch.expected # NotYet
    /\ watch.pc # "off" /\ ~blind => watch.expected = firstWatch
    /\ watch.now <= clock

BeatInv == BeatTypeOK /\ RowsAreHeard /\ WatchedSince /\ VerdictIsEarned

LEMMA BeatConstants ==
    Runs \subseteq Nat /\ Grace \in Nat /\ Interval \in Nat /\ LastSecond \in Nat
  BY HeartbeatAssumption DEF HeartbeatAssumption

\* How early a heartbeat may be for a run: the allowance of Answers.
Allowance(run) ==
    IF RunsAfter(run) = {} THEN 0 ELSE Min({Grace, (Min(RunsAfter(run)) - run) \div 2})

LEMMA AllowanceIsNat == \A run \in Runs : Allowance(run) \in Nat
  <1>. SUFFICES ASSUME NEW run \in Runs, RunsAfter(run) # {} PROVE Allowance(run) \in Nat
    BY DEF Allowance
  <1>. DEFINE next == Min(RunsAfter(run))
              half == (next - run) \div 2
  <1>1. RunsAfter(run) \in SUBSET Nat
    BY BeatConstants DEF RunsAfter
  <1>2. next \in Nat /\ next > run /\ run \in Nat
    BY <1>1, MinIsLeast, BeatConstants DEF RunsAfter
  <1>3. half \in Nat
    <2>. HIDE DEF next
    <2>. QED BY <1>2
  <1>4. Min({Grace, half}) \in Nat
    <2>. HIDE DEF half
    <2>1. {Grace, half} \in SUBSET Nat /\ {Grace, half} # {}
      BY <1>3, BeatConstants
    <2>. QED BY <2>1, MinIsLeast
  <1>. QED BY <1>4 DEF Allowance

\* What cron_due returns: a run after the last heartbeat, and every run before it
\* was answered by that heartbeat.
LEMMA CronDueIsRight ==
    ASSUME NEW from \in Nat, NEW seen \in BOOLEAN
    PROVE  LET due == CronDue(from, seen) IN
           /\ due = NotYet => \A run \in Runs : run <= from
           /\ due # NotYet =>
                 /\ due \in Runs /\ due > from
                 /\ \A run \in Runs : run < due =>
                        run <= from \/ (seen /\ from >= run - Allowance(run))
  <1>. DEFINE due == CronDue(from, seen)
  <1>. USE BeatConstants DEF NotYet
  <1>0. \A s \in Nat : RunsAfter(s) \in SUBSET Nat /\ RunsAfter(s) \subseteq Runs
    BY DEF RunsAfter
  <1>1. CASE RunsAfter(from) = {}
    <2>1. due = NotYet
      BY <1>1 DEF CronDue
    <2>2. \A run \in Runs : run <= from
      BY <1>1 DEF RunsAfter
    <2>. QED BY <2>1, <2>2
  <1>2. CASE RunsAfter(from) # {}
    <2>. DEFINE next == Min(RunsAfter(from))
                after == IF RunsAfter(next) = {} THEN next ELSE Min(RunsAfter(next))
    <2>1. next \in RunsAfter(from) /\ \A run \in RunsAfter(from) : next <= run
      BY <1>0, <1>2, MinIsLeast
    <2>2. next \in Runs /\ next \in Nat /\ next > from
      BY <2>1 DEF RunsAfter
    <2>3. \A run \in Runs : run < next => run <= from
      BY <2>1, <2>2 DEF RunsAfter
    <2>4. due = IF seen /\ after # next /\ next - from <= Early(next, after) THEN after ELSE next
      BY <1>2 DEF CronDue
    <2>5. CASE due = next
      BY <2>2, <2>3, <2>5
    <2>6. CASE due # next
      <3>1. seen /\ due = after /\ after # next /\ next - from <= Early(next, after)
        <4>. HIDE DEF next, after, due
        <4>. QED BY <2>4, <2>6
      <3>2. RunsAfter(next) # {} /\ after = Min(RunsAfter(next))
        BY <3>1
      <3>3. after \in RunsAfter(next) /\ \A run \in RunsAfter(next) : after <= run
        BY <1>0, <2>2, <3>2, MinIsLeast
      <3>4. after \in Runs /\ after \in Nat /\ after > next
        BY <3>3, <2>2 DEF RunsAfter
      <3>5. \A run \in Runs : run < after => run <= next
        BY <3>3, <2>2, <3>4 DEF RunsAfter
      <3>6. Allowance(next) = Early(next, after) /\ Allowance(next) \in Nat
        BY <3>2, <2>2, AllowanceIsNat DEF Allowance, Early
      <3>7. from >= next - Allowance(next)
        <4>. HIDE DEF next, after, due
        <4>. QED BY <3>1, <3>6, <2>2
      <3>8. \A run \in Runs : run < due =>
                run <= from \/ (seen /\ from >= run - Allowance(run))
        <4>. HIDE DEF next, after, due
        <4>. QED BY <3>1, <3>5, <3>7, <2>2, <2>3
      <3>9. due \in Runs /\ due > from /\ due # NotYet
        <4>. HIDE DEF next, after, due
        <4>. QED BY <3>1, <3>4, <2>2
      <3>. QED BY <3>8, <3>9
    <2>. QED BY <2>5, <2>6
  <1>. QED BY <1>1, <1>2

\* The last heartbeat is one that counts, and no other that counts is later.
LEMMA LastBeatIsLast ==
    ASSUME BeatTypeOK, RowsAreHeard
    PROVE  /\ LastBeat = NotYet => Heard = {}
           /\ LastBeat # NotYet =>
                 LastBeat \in Heard /\ LastBeat \in Seconds /\ \A s \in Heard : s <= LastBeat
  <1>. USE BeatConstants DEF Seconds
  <1>1. Heard \subseteq Beats /\ Beats \subseteq Heard /\ Beats \in SUBSET (0..LastSecond)
    BY DEF BeatTypeOK, RowsAreHeard, Heard, Beats, IsHeartbeat, PushRow
  <1>2. Heard = Beats
    BY <1>1
  <1>3. CASE Beats = {}
    BY <1>2, <1>3 DEF LastBeat
  <1>4. CASE Beats # {}
    <2>1. Max(Beats) \in Beats /\ \A s \in Beats : Max(Beats) >= s
      BY <1>1, <1>4, MaxIsGreatest
    <2>2. LastBeat = Max(Beats)
      BY <1>4 DEF LastBeat
    <2>3. LastBeat \in Beats /\ LastBeat \in Seconds /\ LastBeat # NotYet
      <3>1. LastBeat \in Beats
        BY <2>1, <2>2
      <3>2. LastBeat \in 0..LastSecond
        BY <1>1, <3>1
      <3>. QED BY <3>1, <3>2 DEF NotYet
    <2>4. \A s \in Beats : s <= LastBeat
      BY <1>1, <2>1, <2>2, <2>3
    <2>. QED BY <1>2, <2>3, <2>4
  <1>. QED BY <1>3, <1>4

\* A verdict says what the schedule, or the interval, says of what was heard.
LEMMA JudgementIsRight ==
    ASSUME BeatInv, Judge
    PROVE  VerdictIsEarned'
  <1>. USE BeatConstants
  <1>. DEFINE last == LastBeat
              from == IF last = NotYet THEN watch.expected ELSE last
              now == watch.now
  <1>1. watch.pc = "judging" /\ UNCHANGED <<cadence, rows, pushed, firstWatch, blind>>
    BY DEF Judge
  <1>2. from \in Nat /\ now \in Nat /\ firstWatch \in Nat
    <2>1. last # NotYet => last \in Seconds
      BY LastBeatIsLast DEF BeatInv
    <2>2. watch.now \in Seconds /\ watch.expected \in Seconds /\ firstWatch \in Seconds
      BY <1>1 DEF BeatInv, BeatTypeOK, WatchedSince, Watches
    <2>. QED BY <2>1, <2>2 DEF Seconds
  <1>3. /\ last = NotYet => Heard = {}
        /\ last # NotYet => from = last /\ last \in Heard /\ \A s \in Heard : s <= from
        /\ Heard \subseteq Nat
    BY LastBeatIsLast DEF BeatInv, BeatTypeOK, Heard, Beats, Seconds
  <1>4. last = NotYet /\ ~blind => from = firstWatch
    BY <1>1 DEF BeatInv, WatchedSince
  <1>5. /\ watch'.now = now
        /\ watch'.pc = "missed" <=> Overdue(from, last # NotYet, now)
        /\ watch'.pc \in {"missed", "judged"}
        /\ watch'.pc = "judged" => ~Overdue(from, last # NotYet, now)
    <2>. DEFINE verdict == Verdict(last, now)
    <2>1. /\ watch'.now = now
          /\ watch'.pc = IF verdict = "overdue" THEN "missed" ELSE "judged"
      BY DEF Judge, BeatInv, BeatTypeOK
    <2>2. last # NotYet => rows[last].status # "overdue"
      BY LastBeatIsLast DEF BeatInv, BeatTypeOK, Statuses
    <2>3. verdict = "overdue" <=> Overdue(from, last # NotYet, now)
      BY <2>2 DEF Verdict
    <2>. HIDE DEF verdict, last, now, from
    <2>. QED BY <2>1, <2>3
  <1>6. Heard' = Heard
    BY <1>1 DEF Heard, Beats
  <1>. HIDE DEF last, from, now
  <1>7. RunIsNotSwallowed'
    <2>1. CASE cadence = "cron"
      <3>. DEFINE due == CronDue(from, last # NotYet)
      <3>1. SUFFICES ASSUME watch'.pc = "judged", ~blind, NEW run \in Runs,
                            firstWatch < run, run + Grace < now
                     PROVE  \E s \in Heard : s >= run - Allowance(run)
        BY <1>1, <1>5, <1>6, <2>1 DEF RunIsNotSwallowed, Lapsed, Answers, Allowance
      <3>2. due = NotYet \/ ~(now > due + Grace)
        BY <1>5, <2>1, <3>1 DEF Overdue
      <3>3. run <= from \/ (last # NotYet /\ from >= run - Allowance(run))
        <4>1. due = NotYet => \A r \in Runs : r <= from
          BY <1>2, CronDueIsRight
        <4>2. due # NotYet => due \in Nat /\ \A r \in Runs : r < due =>
                 r <= from \/ (last # NotYet /\ from >= r - Allowance(r))
          BY <1>2, CronDueIsRight
        <4>. HIDE DEF due
        <4>3. due # NotYet => run < due
          BY <3>1, <3>2, <4>2, <1>2
        <4>. QED BY <4>1, <4>2, <4>3
      <3>4. last # NotYet
        BY <1>2, <1>4, <3>1, <3>3
      <3>5. Allowance(run) \in Nat
        BY AllowanceIsNat
      <3>. QED BY <1>2, <1>3, <3>3, <3>4, <3>5
    <2>2. CASE cadence # "cron"
      <3>1. watch'.pc = "judged" => now - from <= Interval
        BY <1>2, <1>5, <2>2 DEF Overdue, BeatInv, BeatTypeOK
      <3>2. last # NotYet => from \in Heard
        BY <1>3
      <3>. QED BY <1>1, <1>2, <1>4, <1>5, <1>6, <2>2, <3>1, <3>2 DEF RunIsNotSwallowed
    <2>. QED BY <2>1, <2>2
  <1>8. PushWins'
    <2>1. \A s \in Seconds : pushed'[s] # "none" => rows'[s] = PushRow(pushed'[s])
      BY <1>1 DEF BeatInv, RowsAreHeard
    <2>2. CASE cadence = "cron" /\ watch'.pc = "missed"
      <3>. DEFINE due == CronDue(from, last # NotYet)
      <3>1. due # NotYet /\ now > due + Grace
        BY <1>5, <2>2 DEF Overdue
      <3>2. due \in Runs /\ due > from
        BY <1>2, <3>1, CronDueIsRight
      <3>. HIDE DEF due
      <3>3. due + Grace < now /\ \A s \in Heard : s < due
        BY <1>2, <1>3, <3>1, <3>2
      <3>. QED BY <1>1, <1>5, <1>6, <2>1, <2>2, <3>2, <3>3 DEF PushWins
    <2>3. CASE cadence # "cron" /\ watch'.pc = "missed"
      <3>1. now - from > Interval
        BY <1>5, <2>3 DEF Overdue, BeatInv, BeatTypeOK
      <3>2. \A s \in Heard : now - s > Interval
        BY <1>2, <1>3, <3>1
      <3>. QED BY <1>1, <1>5, <1>6, <2>1, <2>3, <3>2 DEF PushWins
    <2>. QED BY <2>1, <2>2, <2>3 DEF PushWins
  <1>. QED BY <1>7, <1>8 DEF VerdictIsEarned

LEMMA BeatInvInit == HeartbeatInit => BeatInv
  <1>. SUFFICES ASSUME HeartbeatInit PROVE BeatInv
    OBVIOUS
  <1>1. BeatTypeOK
    <2>1. clock \in Seconds /\ watch \in Watches
      BY BeatConstants DEF HeartbeatInit, Seconds, Watches, NotRunning, NotYet
    <2>2. rows \in [Seconds -> [source : {"none", "probe", "push", "miss"}, status : Statuses]]
      BY DEF HeartbeatInit, OldRows, NoRow, Statuses
    <2>. QED BY <2>1, <2>2 DEF HeartbeatInit, BeatTypeOK
  <1>2. RowsAreHeard
    BY DEF HeartbeatInit, RowsAreHeard, OldRows, NoRow, PushRow
  <1>3. WatchedSince
    BY DEF HeartbeatInit, WatchedSince, NotRunning
  <1>4. VerdictIsEarned
    BY DEF HeartbeatInit, VerdictIsEarned, RunIsNotSwallowed, PushWins, NotRunning
  <1>. QED BY <1>1, <1>2, <1>3, <1>4 DEF BeatInv

\* What a push or a miss does to a second.
LEMMA RowIsKept ==
    ASSUME BeatTypeOK, RowsAreHeard, NEW put,
           \/ put = MissRow /\ UNCHANGED pushed
           \/ \E status \in Statuses :
                 put = PushRow(status) /\ pushed' = [pushed EXCEPT ![clock] = status],
           InsertRow(put)
    PROVE  /\ RowsAreHeard'
           /\ rows' \in [Seconds -> [source : {"none", "probe", "push", "miss"}, status : Statuses]]
           /\ pushed' \in [Seconds -> Statuses \cup {"none"}]
           /\ Heard \subseteq Heard'
           /\ \A s \in Heard' : s \in Heard \/ s = clock
  <1>. USE DEF BeatTypeOK, RowsAreHeard, InsertRow, Kept, MissRow, PushRow, NoRow, Statuses
  <1>1. CASE put = MissRow /\ UNCHANGED pushed
    <2>1. \A s \in Seconds : s # clock => rows'[s] = rows[s]
      OBVIOUS
    <2>2. rows'[clock] = rows[clock] \/ (rows'[clock] = MissRow /\ rows[clock] = NoRow)
      BY <1>1
    <2>3. RowsAreHeard' /\ rows' \in [Seconds -> [source : {"none", "probe", "push", "miss"}, status : Statuses]]
      BY <1>1, <2>1, <2>2
    <2>4. Heard' = Heard
      BY <1>1, <2>1, <2>2 DEF Heard, Beats, IsHeartbeat
    <2>. QED BY <1>1, <2>3, <2>4
  <1>2. ASSUME NEW status \in Statuses, put = PushRow(status),
               pushed' = [pushed EXCEPT ![clock] = status]
        PROVE  /\ RowsAreHeard'
               /\ rows' \in [Seconds -> [source : {"none", "probe", "push", "miss"}, status : Statuses]]
               /\ pushed' \in [Seconds -> Statuses \cup {"none"}]
               /\ Heard \subseteq Heard'
               /\ \A s \in Heard' : s \in Heard \/ s = clock
    <2>1. rows' = [rows EXCEPT ![clock] = PushRow(status)]
      BY <1>2
    <2>2. \A s \in Seconds : s # clock => rows'[s] = rows[s] /\ pushed'[s] = pushed[s]
      BY <1>2, <2>1
    <2>3. rows'[clock] = PushRow(status) /\ pushed'[clock] = status /\ status # "none"
      BY <1>2, <2>1
    <2>4. Heard \subseteq Heard' /\ \A s \in Heard' : s \in Heard \/ s = clock
      BY <2>2, <2>3 DEF Heard, Beats, IsHeartbeat
    <2>. QED BY <1>2, <2>1, <2>2, <2>3, <2>4
  <1>. QED BY <1>1, <1>2

\* A verdict given stands while the schedule, the clock of its tick and what was
\* heard before it do.
LEMMA VerdictStands ==
    ASSUME BeatInv, UNCHANGED <<watch, cadence, firstWatch, blind>>, RowsAreHeard',
           Heard \subseteq Heard', \A s \in Heard' : s \in Heard \/ s = clock
    PROVE  VerdictIsEarned'
  <1>1. RunIsNotSwallowed'
    BY DEF BeatInv, VerdictIsEarned, RunIsNotSwallowed, Answers, Lapsed
  <1>2. \A s \in Heard' : s \in Heard \/ s >= watch.now
    BY BeatConstants DEF BeatInv, BeatTypeOK, WatchedSince, Seconds
  <1>3. PushWins'
    BY <1>2 DEF BeatInv, VerdictIsEarned, PushWins, RowsAreHeard
  <1>. QED BY <1>1, <1>3 DEF VerdictIsEarned

LEMMA NoVerdict ==
    ASSUME RowsAreHeard', watch'.pc \notin {"missed", "judged"}
    PROVE  VerdictIsEarned'
  BY DEF RowsAreHeard, VerdictIsEarned, RunIsNotSwallowed, PushWins

\* A task that starts watches from a moment stored, or from now.
LEMMA StartsWatching ==
    ASSUME BeatInv, NEW from \in Seconds,
           watch.pc = "off", watch' = [NotRunning EXCEPT !.pc = "idle", !.expected = from],
           firstWatch' = IF firstWatch = NotYet THEN clock ELSE firstWatch,
           expected' \in Seconds \cup {NotYet}, blind' \in BOOLEAN,
           ~blind' => expected' = from /\ from = firstWatch',
           UNCHANGED <<clock, cadence, rows, pushed>>
    PROVE  BeatInv'
  <1>1. watch' = [pc |-> "idle", expected |-> from, now |-> 0, verdict |-> "unknown"]
    BY DEF NotRunning
  <1>. DEFINE started == [pc |-> "idle", expected |-> from, now |-> 0, verdict |-> "unknown"]
  <1>0. watch' = started /\ started.now = 0
    BY <1>1
  <1>2. watch' \in Watches /\ firstWatch' \in Seconds
    BY <1>1, BeatConstants DEF Watches, BeatInv, BeatTypeOK, Seconds
  <1>3. BeatTypeOK'
    BY <1>2 DEF BeatInv, BeatTypeOK
  <1>4. RowsAreHeard'
    BY DEF BeatInv, RowsAreHeard
  <1>5. firstWatch' # NotYet /\ watch'.expected # NotYet
    BY <1>1, <1>2, BeatConstants DEF Seconds, NotYet
  <1>6. watch'.now <= clock'
    <2>1. clock' \in Nat /\ watch'.now = 0
      <3>1. clock' = clock /\ clock \in 0..LastSecond
        BY DEF BeatInv, BeatTypeOK, Seconds
      <3>2. watch'.now = 0
        <4>. HIDE DEF started
        <4>. QED BY <1>0
      <3>3. clock' \in Nat
        BY <3>1, BeatConstants
      <3>. QED BY <3>2, <3>3
    <2>. QED BY <2>1
  <1>7. WatchedSince'
    BY <1>1, <1>5, <1>6 DEF WatchedSince
  <1>8. VerdictIsEarned'
    BY <1>1, <1>4, NoVerdict
  <1>. QED BY <1>3, <1>4, <1>7, <1>8 DEF BeatInv

\* A task that stands between two ticks, or stops, has no verdict to earn.
LEMMA StopsJudging ==
    ASSUME BeatInv, RowsAreHeard',
           rows' \in [Seconds -> [source : {"none", "probe", "push", "miss"}, status : Statuses]],
           watch.pc # "off", watch' = BetweenTicks(watch) \/ watch' = NotRunning,
           UNCHANGED <<clock, cadence, expected, pushed, firstWatch, blind>>
    PROVE  BeatInv'
  <1>1. /\ watch'.pc \in {"off", "idle"} /\ watch'.now = 0 /\ watch'.verdict = "unknown"
        /\ watch'.pc = "idle" => watch'.expected = watch.expected
        /\ watch' \in Watches
    <2>1. 0 \in Seconds /\ watch.expected \in Seconds \cup {NotYet}
      BY BeatConstants DEF Seconds, BeatInv, BeatTypeOK, Watches
    <2>2. watch' \in {[pc |-> "idle", expected |-> watch.expected, now |-> 0, verdict |-> "unknown"],
                      [pc |-> "off", expected |-> NotYet, now |-> 0, verdict |-> "unknown"]}
      BY DEF BetweenTicks, NotRunning
    <2>. QED BY <2>1, <2>2 DEF Watches
  <1>2. BeatTypeOK'
    BY <1>1 DEF BeatInv, BeatTypeOK
  <1>3. watch'.now <= clock'
    <2>1. clock' \in Nat
      BY BeatConstants DEF BeatInv, BeatTypeOK, Seconds
    <2>. QED BY <1>1, <2>1
  <1>4. WatchedSince'
    BY <1>1, <1>3 DEF WatchedSince, BeatInv
  <1>5. VerdictIsEarned'
    BY <1>1, NoVerdict
  <1>. QED BY <1>2, <1>4, <1>5 DEF BeatInv

LEMMA BeatInvStep == BeatInv /\ [HeartbeatNext]_beatVars => BeatInv'
  <1>. SUFFICES ASSUME BeatInv, [HeartbeatNext]_beatVars PROVE BeatInv'
    OBVIOUS
  <1>0. clock \in Seconds /\ clock \in Nat
    BY BeatConstants DEF BeatInv, BeatTypeOK, Seconds
  <1>1. CASE SecondPasses
    <2>1. Heard' = Heard /\ RowsAreHeard'
      BY <1>1 DEF SecondPasses, Heard, Beats, RowsAreHeard, BeatInv
    <2>2. clock' \in Seconds /\ watch.now <= clock'
      BY <1>0, <1>1, BeatConstants DEF SecondPasses, Seconds, BeatInv, BeatTypeOK, WatchedSince, Watches
    <2>3. BeatTypeOK' /\ WatchedSince'
      BY <1>1, <2>2 DEF SecondPasses, BeatInv, BeatTypeOK, WatchedSince
    <2>. QED BY <1>1, <2>1, <2>3, VerdictStands DEF SecondPasses, BeatInv
  <1>2. CASE Push
    <2>1. PICK status \in Statuses :
             InsertRow(PushRow(status)) /\ pushed' = [pushed EXCEPT ![clock] = status]
      BY <1>2 DEF Push
    <2>2. /\ RowsAreHeard'
          /\ rows' \in [Seconds -> [source : {"none", "probe", "push", "miss"}, status : Statuses]]
          /\ pushed' \in [Seconds -> Statuses \cup {"none"}]
          /\ Heard \subseteq Heard'
          /\ \A s \in Heard' : s \in Heard \/ s = clock
      BY <2>1, RowIsKept DEF BeatInv
    <2>3. BeatTypeOK' /\ WatchedSince'
      BY <1>2, <2>2 DEF Push, BeatInv, BeatTypeOK, WatchedSince
    <2>. QED BY <1>2, <2>2, <2>3, VerdictStands DEF Push, BeatInv
  <1>3. CASE StartWatch
    <2>. DEFINE from == IF expected = NotYet THEN clock ELSE expected
    <2>1. from \in Seconds /\ blind \in BOOLEAN
      BY <1>0 DEF BeatInv, BeatTypeOK
    <2>2. /\ watch.pc = "off" /\ watch' = [NotRunning EXCEPT !.pc = "idle", !.expected = from]
          /\ firstWatch' = IF firstWatch = NotYet THEN clock ELSE firstWatch
          /\ UNCHANGED <<clock, cadence, rows, pushed>>
      BY <1>3 DEF StartWatch
    <2>3. CASE expected' = from /\ UNCHANGED blind
      <3>1. ~blind => from = firstWatch'
        BY <2>2 DEF BeatInv, WatchedSince
      <3>. HIDE DEF from
      <3>. QED BY <2>1, <2>2, <2>3, <3>1, StartsWatching
    <2>4. CASE expected = NotYet /\ blind' = TRUE /\ UNCHANGED expected
      <3>. HIDE DEF from
      <3>. QED BY <2>1, <2>2, <2>4, StartsWatching
    <2>. QED BY <1>3, <2>3, <2>4 DEF StartWatch
  <1>4. CASE StartBlind
    <2>1. /\ watch.pc = "off" /\ watch' = [NotRunning EXCEPT !.pc = "idle", !.expected = clock]
          /\ firstWatch' = IF firstWatch = NotYet THEN clock ELSE firstWatch
          /\ blind' = TRUE /\ UNCHANGED <<clock, cadence, rows, pushed, expected>>
      BY <1>4 DEF StartBlind
    <2>2. expected' \in Seconds \cup {NotYet}
      BY <2>1 DEF BeatInv, BeatTypeOK
    <2>. QED BY <1>0, <2>1, <2>2, StartsWatching
  <1>5. CASE TakeTime
    <2>1. /\ watch'.pc = "judging" /\ watch'.now = clock /\ watch'.expected = watch.expected
          /\ watch' \in Watches
      BY <1>0, <1>5 DEF TakeTime, BeatInv, BeatTypeOK, Watches
    <2>2. BeatTypeOK' /\ RowsAreHeard'
      BY <1>5, <2>1 DEF TakeTime, BeatInv, BeatTypeOK, RowsAreHeard
    <2>3. watch'.now <= clock'
      BY <1>0, <1>5, <2>1 DEF TakeTime
    <2>4. WatchedSince'
      BY <1>5, <2>1, <2>3 DEF TakeTime, BeatInv, WatchedSince
    <2>5. VerdictIsEarned'
      BY <2>1, <2>2, NoVerdict
    <2>. QED BY <2>2, <2>4, <2>5 DEF BeatInv
  <1>6. CASE Judge
    <2>1. VerdictIsEarned'
      BY <1>6, JudgementIsRight
    <2>2. Verdict(LastBeat, watch.now) \in Statuses \cup {"unknown", "overdue"}
      BY LastBeatIsLast DEF Verdict, BeatInv, BeatTypeOK
    <2>3. /\ watch' \in Watches /\ watch'.pc \in {"missed", "judged"}
          /\ watch'.now = watch.now /\ watch'.expected = watch.expected
      BY <1>6, <2>2 DEF Judge, BeatInv, BeatTypeOK, Watches
    <2>4. BeatTypeOK' /\ RowsAreHeard'
      BY <1>6, <2>3 DEF Judge, BeatInv, BeatTypeOK, RowsAreHeard
    <2>5. watch'.now <= clock'
      BY <1>6, <2>3 DEF Judge, BeatInv, WatchedSince
    <2>6. WatchedSince'
      BY <1>6, <2>3, <2>5 DEF Judge, BeatInv, WatchedSince
    <2>. QED BY <2>1, <2>4, <2>6 DEF BeatInv
  <1>7. CASE RecordMiss
    <2>1. CASE InsertRow(MissRow)
      <3>1. /\ RowsAreHeard'
            /\ rows' \in [Seconds -> [source : {"none", "probe", "push", "miss"}, status : Statuses]]
        BY <1>7, <2>1, RowIsKept DEF RecordMiss, BeatInv
      <3>. QED BY <1>7, <3>1, StopsJudging DEF RecordMiss
    <2>2. CASE UNCHANGED rows
      <3>1. RowsAreHeard'
        BY <1>7, <2>2 DEF RecordMiss, BeatInv, RowsAreHeard
      <3>. QED BY <1>7, <2>2, <3>1, StopsJudging DEF RecordMiss, BeatInv, BeatTypeOK
    <2>. QED BY <1>7, <2>1, <2>2 DEF RecordMiss
  <1>8. CASE Judged \/ Unread \/ StopWatch
    <2>1. UNCHANGED <<rows, pushed>>
      BY <1>8 DEF Judged, Unread, StopWatch
    <2>2. RowsAreHeard'
      BY <2>1 DEF BeatInv, RowsAreHeard
    <2>. QED BY <1>8, <2>1, <2>2, StopsJudging DEF Judged, Unread, StopWatch, BeatInv, BeatTypeOK
  <1>9. CASE UNCHANGED beatVars
    <2>1. Heard' = Heard /\ RowsAreHeard'
      BY <1>9 DEF beatVars, Heard, Beats, RowsAreHeard, BeatInv
    <2>2. BeatTypeOK' /\ WatchedSince'
      BY <1>9 DEF beatVars, BeatInv, BeatTypeOK, WatchedSince
    <2>. QED BY <1>9, <2>1, <2>2, VerdictStands DEF beatVars, BeatInv
  <1>. QED BY <1>1, <1>2, <1>3, <1>4, <1>5, <1>6, <1>7, <1>8, <1>9 DEF HeartbeatNext

LEMMA BackgroundBeats == [Next]_vars => [HeartbeatNext]_beatVars
  BY DEF Next, vars, beatVars

\* The watcher's deadline runs from the moment the monitor was first watched,
\* and every row that reads as a heartbeat is one.
THEOREM HeartbeatInvariant == Spec => []BeatInv
  <1>1. Init => BeatInv
    BY BeatInvInit DEF Init
  <1>2. BeatInv /\ [Next]_vars => BeatInv'
    BY BeatInvStep, BackgroundBeats
  <1>. QED BY <1>1, <1>2, PTL DEF Spec

\* For any schedule, grace and interval: an on-time verdict means every lapsed run
\* was answered, a late one that some run was not, and a push keeps its second.
THEOREM VerdictsAreEarned == Spec => []VerdictIsEarned
  <1>1. BeatInv => VerdictIsEarned
    BY DEF BeatInv
  <1>. QED BY <1>1, HeartbeatInvariant, PTL

---------------------------------------------------------------------------
(* The watcher of certificates *)

Judging == {"expiry", "telling_expiry", "pin", "alerting", "remember", "remember_against"}
Remembering == {"remember", "remember_against"}

\* The key is the pinned one, or its alert went out.
Cleared(key, pin) == key = pin \/ <<key, pin>> \in reported

\* A sweep remembers the key it read against the pin of its snapshot, and only
\* one that was cleared; what is stored was cleared against the pin beside it,
\* outside the two statements that store it.
CertInv ==
    /\ server.key \in Fingerprints /\ around.pin \in Fingerprints \cup {NoKey}
    /\ sweep.pc \in Judging => sweep.key \in Fingerprints
    /\ sweep.pc \in Remembering \cup {"alerting"} => sweep.pin # NoKey
    /\ sweep.pc = "remember_against" => pins.stored = sweep.key
    /\ sweep.pc \in Remembering => torn \/ Cleared(sweep.key, sweep.pin)
    /\ torn \/ sweep.pc = "remember_against" \/ pins.stored = NoKey
        \/ (pins.against # NoKey /\ Cleared(pins.stored, pins.against))
    /\ RogueIsReported
    /\ DOMAIN sweep = {"pc", "pin", "key", "expiring", "muted"}
    /\ DOMAIN around = {"present", "pin", "muted", "incident"}
    /\ DOMAIN pins = {"stored", "against"}

LEMMA CertInvInit == CertInit => CertInv
  BY CertAssumption DEF CertAssumption, CertInit, CertInv, NoSweep, Judging, Remembering,
     RogueIsReported

LEMMA CertInvStep == CertInv /\ [CertNext]_certVars => CertInv'
  <1>. SUFFICES ASSUME CertInv, [CertNext]_certVars PROVE CertInv'
    OBVIOUS
  <1>. USE CertAssumption DEF CertAssumption, CertInv, Judging, Remembering, Cleared, RogueIsReported,
           NoSweep, SweepAt
  <1>1. CASE BeginSweep
    BY <1>1 DEF BeginSweep, told
  <1>2. CASE ReadCert
    BY <1>2 DEF ReadCert, told
  <1>3. CASE ReportUnreadable
    BY <1>3 DEF ReportUnreadable, told
  <1>4. CASE TellUnreadable
    BY <1>4 DEF TellUnreadable
  <1>5. CASE JudgeExpiry
    BY <1>5 DEF JudgeExpiry, told
  <1>6. CASE TellExpiry
    BY <1>6 DEF TellExpiry
  <1>7. CASE NoPin
    BY <1>7 DEF NoPin, told
  <1>8. CASE PinPasses
    <2>1. torn \/ Cleared(sweep.key, sweep.pin)
      BY <1>8 DEF PinPasses, PinMatters, Known, HasVerdict, SamePin
    <2>2. torn \/ \A rogue \in accepted' : rogue[1] = rogue[2] \/ rogue \in reported
      BY <1>8, <2>1 DEF PinPasses
    <2>. QED BY <1>8, <2>1, <2>2 DEF PinPasses, PinMatters
  <1>9. CASE PinDiffers
    BY <1>9 DEF PinDiffers, PinMatters, told
  <1>10. CASE AlertDelivered
    BY <1>10 DEF AlertDelivered
  <1>11. CASE RememberKey
    BY <1>11 DEF RememberKey, told
  <1>12. CASE RememberPin
    BY <1>12 DEF RememberPin, told
  <1>13. CASE ServerChanges
    BY <1>13 DEF ServerChanges, watcher
  <1>14. CASE WorldChanges
    BY <1>14 DEF WorldChanges, watcher, told
  <1>15. CASE LeftOut
    BY <1>15 DEF LeftOut, told
  <1>16. CASE PinUnread
    BY <1>16 DEF PinUnread, PinMatters, told
  <1>17. CASE AlertFails
    BY <1>17 DEF AlertFails, told
  <1>18. CASE RememberFails
    BY <1>18 DEF RememberFails
  <1>19. CASE CertCrash
    BY <1>19 DEF CertCrash
  <1>20. CASE UNCHANGED certVars
    BY <1>20 DEF certVars
  <1>. QED
    BY <1>1, <1>2, <1>3, <1>4, <1>5, <1>6, <1>7, <1>8, <1>9, <1>10, <1>11, <1>12, <1>13, <1>14,
       <1>15, <1>16, <1>17, <1>18, <1>19, <1>20 DEF CertNext, Sweeping

\* No key passes against a pin it does not match unless the alert about this key
\* and this pin was delivered, as long as no key is stored without its pin.
THEOREM RoguesAreReported == Spec => []RogueIsReported
  <1>1. Init => CertInv
    BY CertInvInit DEF Init
  <1>2. CertInv /\ [Next]_vars => CertInv'
    <2>1. [Next]_vars => [CertNext]_certVars
      BY DEF Next, vars, certVars
    <2>. QED BY <2>1, CertInvStep
  <1>3. CertInv => RogueIsReported
    BY DEF CertInv
  <1>. QED BY <1>1, <1>2, <1>3, PTL DEF Spec

=============================================================================
