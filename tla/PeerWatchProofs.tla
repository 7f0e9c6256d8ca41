-------------------------- MODULE PeerWatchProofs --------------------------
(***************************************************************************)
(* Theorems about the watch of a peer, for every set of witnesses, every   *)
(* threshold and every bound.                                              *)
(***************************************************************************)
EXTENDS PeerWatch, TLAPS

(* The inductive invariant.  The task's level is the cell's at every .await *)
(* and only moves as a dispatch ends; a down on its way is news to the      *)
(* cell.  Channels that know of a down the cell does not are what a crash   *)
(* or an abort leaves behind, and what a repeated down needs.               *)

Debt == IF told = "down" /\ cell.level # "down" THEN 1 ELSE 0

WatchInv ==
    /\ PeerTypeOK
    /\ cell.level = state.level
    /\ pc = "telling" <=> saying # "nothing"
    /\ pc = "polling" \/ saying = "down" => state.level # "down"
    /\ repeats + Debt <= aborts + crashes

\* What an action may change, by what it is about.
TaskTypeOK ==
    /\ pc \in {"idle", "polling", "telling"}
    /\ state \in AlertStates /\ cell \in AlertStates
    /\ answers \in [Witnesses -> Views \union {"none"}]
    /\ saying \in Events \union {"nothing"}

---------------------------------------------------------------------------
(* The alert state machine *)

LEMMA ObservedType ==
    ASSUME NEW s \in AlertStates
    PROVE  /\ ObserveDown(s) \in AlertStates /\ ObserveDown(s).level = s.level
           /\ ObserveUp(s) \in AlertStates /\ ObserveUp(s).level = s.level
<1>1. \A n \in 0..FailThreshold : Count(n) \in 0..FailThreshold
  BY FailThresholdAssumption DEF FailThresholdAssumption, Count
<1>2. 0 \in 0..FailThreshold
  BY FailThresholdAssumption DEF FailThresholdAssumption
<1> QED BY <1>1, <1>2 DEF ObserveDown, ObserveUp, AlertStates

LEMMA LevelType ==
    ASSUME NEW s \in AlertStates, NEW level \in Levels
    PROVE  /\ [s EXCEPT !.level = level] \in AlertStates
           /\ [s EXCEPT !.level = level].level = level
BY DEF AlertStates

LEMMA FreshType == Fresh \in AlertStates /\ Fresh.level = "healthy"
BY FailThresholdAssumption DEF FailThresholdAssumption, Fresh, AlertStates, Levels

LEMMA UnaskedType == Unasked \in [Witnesses -> Views \union {"none"}]
BY DEF Unasked

---------------------------------------------------------------------------
(* The invariant, action by action *)

\* A step that settles on a state keeps the invariant, if the level it settles on
\* does not forget a down the channels know.
LEMMA SettleKeeps ==
    ASSUME WatchInv, NEW s \in AlertStates, Settle(s),
           PeerTypeOK', aborts' = aborts, crashes' = crashes,
           repeats' + (IF told' = "down" /\ s.level # "down" THEN 1 ELSE 0)
             <= aborts + crashes
    PROVE  WatchInv'
BY DEF WatchInv, Settle, Debt

\* The variables of a tick besides the task's.
LEMMA TickTypeOK ==
    ASSUME WatchInv, NEW mute \in BOOLEAN, TaskTypeOK', due' = Expect, muted' = mute,
           UNCHANGED <<age, seen, grace, view, history, budget>>
    PROVE  PeerTypeOK'
BY PeerWatchAssumption
DEF PeerWatchAssumption, WatchInv, PeerTypeOK, TaskTypeOK, history, budget

LEMMA TickKeeps ==
    ASSUME WatchInv, NEW mute \in BOOLEAN, Tick(mute)
    PROVE  WatchInv'
<1> DEFINE up == ObserveUp(state)
           miss == ObserveDown(state)
           well == [up EXCEPT !.level = "healthy"]
<1>1. /\ pc = "idle" /\ due' = Expect /\ muted' = mute
      /\ UNCHANGED <<age, seen, grace, view, history, budget>>
  BY DEF Tick
<1>2. /\ state \in AlertStates /\ cell \in AlertStates /\ cell.level = state.level
      /\ answers \in [Witnesses -> Views \union {"none"}]
      /\ saying \in Events \union {"nothing"}
  BY DEF WatchInv, PeerTypeOK
<1>3. /\ up \in AlertStates /\ up.level = state.level
      /\ miss \in AlertStates /\ miss.level = state.level
  BY <1>2, ObservedType
<1>4. well \in AlertStates /\ well.level = "healthy"
  BY <1>3, LevelType DEF Levels
<1>5. repeats' = repeats /\ told' = told /\ aborts' = aborts /\ crashes' = crashes
  BY <1>1 DEF history, budget
<1>6. saying = "nothing"
  BY <1>1 DEF WatchInv
<1> HIDE DEF up, miss, well
<1>7. CASE Settle(miss)
  <2>1. TaskTypeOK'
    BY <1>3, <1>7, UnaskedType DEF Settle, TaskTypeOK
  <2>2. PeerTypeOK'
    BY <1>1, <2>1, TickTypeOK
  <2> QED BY <1>2, <1>3, <1>5, <1>7, <2>2, SettleKeeps DEF WatchInv, Debt
<1>8. CASE /\ ConfirmsDown(miss) /\ cell' = miss /\ state' = miss /\ pc' = "polling"
           /\ UNCHANGED <<answers, saying>>
  <2>1. TaskTypeOK'
    BY <1>2, <1>3, <1>8 DEF TaskTypeOK
  <2>2. PeerTypeOK'
    BY <1>1, <2>1, TickTypeOK
  <2> QED BY <1>2, <1>3, <1>5, <1>6, <1>8, <2>2 DEF WatchInv, Debt, ConfirmsDown
<1>9. CASE Say(up, "recovered") /\ UNCHANGED cell
  <2>1. TaskTypeOK'
    BY <1>2, <1>3, <1>9, UnaskedType DEF Say, TaskTypeOK, Events
  <2>2. PeerTypeOK'
    BY <1>1, <2>1, TickTypeOK
  <2> QED BY <1>2, <1>3, <1>5, <1>9, <2>2 DEF WatchInv, Debt, Say
<1>10. CASE ~WasAnnounced(state.level) /\ Settle(well)
  <2>1. TaskTypeOK'
    BY <1>4, <1>10, UnaskedType DEF Settle, TaskTypeOK
  <2>2. PeerTypeOK'
    BY <1>1, <2>1, TickTypeOK
  <2> QED BY <1>2, <1>4, <1>5, <1>10, <2>2, SettleKeeps DEF WatchInv, Debt, WasAnnounced
<1>11. CASE UNCHANGED <<pc, state, cell, answers, saying>>
  <2>1. TaskTypeOK'
    BY <1>1, <1>2, <1>11 DEF TaskTypeOK
  <2>2. PeerTypeOK'
    BY <1>1, <2>1, TickTypeOK
  <2> QED BY <1>1, <1>2, <1>5, <1>11, <2>2 DEF WatchInv, Debt
<1> QED BY <1>7, <1>8, <1>9, <1>10, <1>11 DEF Tick, Hit, Miss, up, miss, well

LEMMA AnswerKeeps ==
    ASSUME WatchInv, NEW w \in Witnesses, Answer(w)
    PROVE  WatchInv'
BY DEF WatchInv, PeerTypeOK, Debt, Answer, clock, history, budget

LEMMA DecideKeeps == ASSUME WatchInv, Decide PROVE WatchInv'
<1> DEFINE isolated == [state EXCEPT !.level = "isolated"]
<1>1. /\ pc = "polling" /\ state.level # "down"
      /\ UNCHANGED <<muted, seen, clock, view, history, budget>>
  BY DEF Decide, WatchInv
<1>2. state \in AlertStates /\ isolated \in AlertStates /\ isolated.level = "isolated"
  BY LevelType DEF WatchInv, PeerTypeOK, Levels
<1> HIDE DEF isolated
<1>3. ASSUME NEW event \in {"down", "link"}, Say(state, event), UNCHANGED cell
      PROVE  WatchInv'
  BY <1>1, <1>3, UnaskedType
  DEF WatchInv, PeerTypeOK, Debt, Say, Events, clock, history, budget
<1>4. ASSUME NEW s \in {state, isolated}, Settle(s)
      PROVE  WatchInv'
  <2>1. s \in AlertStates /\ s.level # "down"
    BY <1>1, <1>2
  <2>2. PeerTypeOK'
    BY <1>1, <1>4, <2>1, UnaskedType DEF WatchInv, PeerTypeOK, Settle, clock, history, budget
  <2> QED BY <1>1, <1>4, <2>1, <2>2, SettleKeeps DEF WatchInv, Debt, history, budget
<1> QED BY <1>3, <1>4 DEF Decide, isolated

\* What the channels are told of a dispatch.
LEMMA ReachesKeeps ==
    ASSUME WatchInv, pc = "telling", Reaches(saying)
    PROVE  /\ told' \in {"nothing", "down", "link"} /\ repeats' \in Nat
           /\ saying = "down" => told' = "down" /\ repeats' <= aborts + crashes
           /\ saying # "down" => told' # "down" /\ repeats' = repeats
BY DEF WatchInv, PeerTypeOK, Debt, Reaches, Events

LEMMA DeliverKeeps == ASSUME WatchInv, Deliver PROVE WatchInv'
<1> DEFINE s == [state EXCEPT !.level = LevelAfter(saying)]
<1>1. /\ pc = "telling" /\ Reaches(saying) /\ Settle(s)
      /\ UNCHANGED <<muted, seen, clock, view, budget>>
  BY DEF Deliver
<1>2. saying \in Events
  BY <1>1 DEF WatchInv, PeerTypeOK
<1>3. s \in AlertStates /\ (saying = "down" => s.level = "down")
  <2>1. LevelAfter(saying) \in Levels /\ LevelAfter("down") = "down"
    BY <1>2 DEF LevelAfter, Levels, Events
  <2>2. state \in AlertStates
    BY DEF WatchInv, PeerTypeOK
  <2> QED BY <2>1, <2>2, LevelType
<1> HIDE DEF s
<1>4. PeerTypeOK'
  BY <1>1, <1>3, ReachesKeeps, UnaskedType DEF WatchInv, PeerTypeOK, Settle, clock, budget
<1>5. repeats \in Nat /\ repeats <= aborts + crashes
  BY DEF WatchInv, PeerTypeOK, Debt
<1>6. repeats' + (IF told' = "down" /\ s.level # "down" THEN 1 ELSE 0) <= aborts + crashes
  BY <1>1, <1>3, <1>4, <1>5, ReachesKeeps DEF PeerTypeOK
<1> QED BY <1>1, <1>3, <1>4, <1>6, SettleKeeps DEF budget

LEMMA OneMore ==
    ASSUME NEW a \in Nat, NEW c \in Nat, NEW a2 \in Nat, NEW c2 \in Nat,
           a2 + c2 = a + c + 1, NEW r \in Nat, r <= a + c
    PROVE  r + 1 <= a2 + c2 /\ r + 0 <= a2 + c2
OBVIOUS

\* An interrupted dispatch pays for what it may leave behind.
LEMMA InterruptedKeeps ==
    ASSUME WatchInv, NEW reached \in BOOLEAN, Interrupted(reached),
           NEW s \in AlertStates, Starts(s), s = cell \/ s = Fresh,
           aborts' \in 0..MaxAborts, crashes' \in 0..MaxCrashes,
           aborts' + crashes' = aborts + crashes + 1,
           UNCHANGED <<muted, age, seen, view>>
    PROVE  WatchInv'
<1>1. /\ told' \in {"nothing", "down", "link"} /\ repeats' \in Nat
      /\ repeats' <= aborts + crashes
  BY ReachesKeeps DEF Interrupted, history, WatchInv, PeerTypeOK, Debt
<1>2. PeerTypeOK'
  BY <1>1, UnaskedType, PeerWatchAssumption
  DEF PeerWatchAssumption, WatchInv, PeerTypeOK, Starts
<1>3. aborts \in Nat /\ crashes \in Nat /\ aborts' \in Nat /\ crashes' \in Nat
  BY PeerWatchAssumption DEF PeerWatchAssumption, WatchInv, PeerTypeOK
<1>4. repeats' + 1 <= aborts' + crashes' /\ repeats' + 0 <= aborts' + crashes'
  BY <1>1, <1>3, OneMore
<1>5. repeats' + Debt' <= aborts' + crashes'
  BY <1>4 DEF Debt
<1> QED BY <1>2, <1>5 DEF WatchInv, Starts

LEMMA AbortKeeps ==
    ASSUME WatchInv, NEW reached \in BOOLEAN, Abort(reached)
    PROVE  WatchInv'
<1>1. /\ aborts' \in 0..MaxAborts /\ crashes' \in 0..MaxCrashes
      /\ aborts' + crashes' = aborts + crashes + 1
  BY PeerWatchAssumption DEF PeerWatchAssumption, Abort, WatchInv, PeerTypeOK
<1> QED BY <1>1, InterruptedKeeps DEF Abort, WatchInv, PeerTypeOK

LEMMA CrashKeeps ==
    ASSUME WatchInv, NEW reached \in BOOLEAN, Crash(reached)
    PROVE  WatchInv'
<1>1. /\ aborts' \in 0..MaxAborts /\ crashes' \in 0..MaxCrashes
      /\ aborts' + crashes' = aborts + crashes + 1
  BY PeerWatchAssumption DEF PeerWatchAssumption, Crash, WatchInv, PeerTypeOK
<1> QED BY <1>1, InterruptedKeeps, FreshType DEF Crash

LEMMA OutsideKeeps ==
    ASSUME WatchInv,
           \/ Beat
           \/ \E w \in Witnesses, v \in Views : Turn(w, v)
           \/ Advance
    PROVE  WatchInv'
<1>1. CASE Beat
  BY <1>1, PeerWatchAssumption
  DEF PeerWatchAssumption, WatchInv, PeerTypeOK, Debt, Beat, task, history, budget
<1>2. ASSUME NEW w \in Witnesses, NEW v \in Views, Turn(w, v)
      PROVE  WatchInv'
  BY <1>2 DEF WatchInv, PeerTypeOK, Debt, Turn, task, clock, history, budget
<1>3. CASE Advance
  <2>1. age' \in 0..Expect + 1
    BY <1>3, PeerWatchAssumption
    DEF PeerWatchAssumption, WatchInv, PeerTypeOK, Advance, Overdue
  <2>2. due' \in 0..Expect /\ grace' \in 0..Grace
    BY <1>3, PeerWatchAssumption
    DEF PeerWatchAssumption, WatchInv, PeerTypeOK, Advance, Less
  <2> QED BY <1>3, <2>1, <2>2 DEF WatchInv, PeerTypeOK, Debt, Advance, task, history, budget
<1> QED BY <1>1, <1>2, <1>3

LEMMA WatchInit == Init => WatchInv
<1> SUFFICES ASSUME Init PROVE WatchInv
  OBVIOUS
<1>1. PeerTypeOK
  <2>1. /\ age \in 0..Expect + 1 /\ due \in 0..Expect /\ grace \in 0..Grace
        /\ aborts \in 0..MaxAborts /\ crashes \in 0..MaxCrashes /\ repeats \in Nat
    BY PeerWatchAssumption DEF PeerWatchAssumption, Init
  <2>2. /\ state \in AlertStates /\ cell \in AlertStates
        /\ answers \in [Witnesses -> Views \union {"none"}]
    BY FreshType, UnaskedType DEF Init
  <2> QED BY <2>1, <2>2 DEF Init, PeerTypeOK
<1>2. repeats + Debt <= aborts + crashes
  BY DEF Init, Debt
<1> QED BY <1>1, <1>2 DEF Init, WatchInv

LEMMA WatchNext == WatchInv /\ [Next]_watchVars => WatchInv'
<1> SUFFICES ASSUME WatchInv, [Next]_watchVars PROVE WatchInv'
  OBVIOUS
<1>1. CASE Work
  BY <1>1, TickKeeps, AnswerKeeps, DecideKeeps, DeliverKeeps DEF Work
<1>2. CASE UNCHANGED watchVars
  BY <1>2 DEF WatchInv, PeerTypeOK, Debt, watchVars, task, clock, history, budget
<1> QED BY <1>1, <1>2, AbortKeeps, CrashKeeps, OutsideKeeps DEF Next

---------------------------------------------------------------------------
(* The theorems *)

\* The invariant holds in every reachable state.
THEOREM WatchInvariant == Spec => []WatchInv
<1> QED BY WatchInit, WatchNext, PTL DEF Spec

\* Type correctness of a peer's watch (`spawn_watch`).
THEOREM WatchTypeCorrect == Spec => []PeerTypeOK
<1>1. WatchInv => PeerTypeOK
  BY DEF WatchInv
<1> QED BY <1>1, WatchInvariant, PTL

\* What a witness that always answers "up" makes of the watch.
Vouched(w) ==
    /\ answers[w] \in {"none", "up"}
    /\ saying # "down"
    /\ told # "down"

LEMMA VouchedNext ==
    ASSUME WatchInv, NEW w \in Asked, Vouched(w), view[w] = "up", [Next]_watchVars
    PROVE  Vouched(w)'
<1>1. w \in Witnesses
  BY DEF Asked
<1>2. Unasked[w] = "none" /\ answers \in [Witnesses -> Views \union {"none"}]
  BY <1>1 DEF Unasked, WatchInv, PeerTypeOK
<1>3. ASSUME NEW mute \in BOOLEAN, Tick(mute)
      PROVE  Vouched(w)'
  BY <1>2, <1>3 DEF Vouched, Tick, Hit, Miss, Settle, Say, history
<1>4. ASSUME NEW v \in Witnesses, Answer(v)
      PROVE  Vouched(w)'
  BY <1>1, <1>2, <1>4 DEF Vouched, Answer, history
<1>5. CASE Decide
  <2> DEFINE given == {answers[v] : v \in Asked}
  <2>1. "up" \in given
    BY <1>1, <1>5 DEF Decide, Vouched
  <2>2. Verdict(given) = "partition"
    BY <2>1 DEF Verdict
  <2> QED BY <1>2, <1>5, <2>2 DEF Decide, Settle, Say, Vouched, history
<1>6. Reaches(saying) => told' # "down"
  BY DEF Vouched, Reaches
<1>7. CASE Deliver
  BY <1>2, <1>6, <1>7 DEF Deliver, Settle, Vouched
<1>8. ASSUME NEW reached \in BOOLEAN, Abort(reached) \/ Crash(reached)
      PROVE  Vouched(w)'
  BY <1>2, <1>6, <1>8 DEF Abort, Crash, Interrupted, Starts, Vouched, history
<1>9. ASSUME \/ Beat
             \/ \E x \in Witnesses, v \in Views : Turn(x, v)
             \/ Advance
             \/ UNCHANGED watchVars
      PROVE  Vouched(w)'
  BY <1>9 DEF Beat, Turn, Advance, watchVars, task, history, Vouched
<1> QED BY <1>3, <1>4, <1>5, <1>7, <1>8, <1>9 DEF Next, Work

\* A peer one of the asked witnesses sees up at every moment is never announced
\* down: no answer of another round, another witness or another life of the watch
\* turns the verdict (`confirm_down`).
THEOREM VouchedNeverDown == Spec => VouchedIsNotDown
<1>1. ASSUME NEW w \in Asked
      PROVE  Spec => ([](view[w] = "up") => [](told # "down"))
  <2>1. Init => Vouched(w)
    BY <1>1 DEF Init, Unasked, Asked, Vouched
  <2>2. WatchInv /\ Vouched(w) /\ view[w] = "up" /\ [Next]_watchVars => Vouched(w)'
    BY <1>1, VouchedNext
  <2>3. Vouched(w) => told # "down"
    BY DEF Vouched
  <2> QED BY <2>1, <2>2, <2>3, WatchInvariant, PTL DEF Spec
<1> QED BY <1>1 DEF VouchedIsNotDown

\* However often a watch is aborted in the middle of a dispatch or dies with what
\* it knew, each interruption repeats at most one down (`AlertCell`).
THEOREM RepeatsArePaidFor == Spec => []RepeatsAreInterruptions
<1>1. WatchInv => RepeatsAreInterruptions
  BY DEF WatchInv, PeerTypeOK, Debt, RepeatsAreInterruptions
<1> QED BY <1>1, WatchInvariant, PTL
============================================================================
