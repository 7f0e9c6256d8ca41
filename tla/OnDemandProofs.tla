--------------------------- MODULE OnDemandProofs ---------------------------
(***************************************************************************)
(* What a daemon does when asked, for any keys, channels, commands,        *)
(* graphs and peers, and any number of requests, reloads and faults: the   *)
(* watchdog of the channels, the windows of pushed alerts, compaction, the *)
(* exec probe, the question to the peers, the order of dependencies, the   *)
(* requests of a probe, what a notification says and where it ends, what   *)
(* a configuration is taken for, what operators record and the race of the *)
(* connects.                                                               *)
(***************************************************************************)
EXTENDS PushedAlerts, Compaction, ConnectRace, ExecProbe, PeerConfirm, Topology, Probes,
        Deliveries, Configuration, Annotations,
        SequenceTheorems, FiniteSetTheorems, TLAPS

---------------------------------------------------------------------------
(* Least members, without an induction over an operator *)

\* A nonempty family of subsets of a finite set has a minimal member.
LEMMA MinimalSubset ==
    ASSUME NEW X, IsFiniteSet(X), NEW T \in SUBSET (SUBSET X), T # {}
    PROVE  \E s \in T : \A t \in T : t \subseteq s => t = s
  <1>1. IsWellFoundedOn(StrictSubsetOrdering(X), SUBSET X)
    BY FS_StrictSubsetOrderingWellFounded, FS_FiniteSubsetsOfFinite
  <1>2. \E s \in T : \A t \in T : <<t, s>> \notin StrictSubsetOrdering(X)
    BY <1>1, WFMin
  <1>3. \A s, t \in T : t \subseteq s /\ t # s => <<t, s>> \in StrictSubsetOrdering(X)
    BY DEF StrictSubsetOrdering
  <1>. QED BY <1>2, <1>3

\* A nonempty set of naturals has a least one: the intervals that start at 0
\* and end in it have a minimal one.
LEMMA LeastExists ==
    ASSUME NEW S \in SUBSET Nat, S # {}
    PROVE  \E x \in S : \A y \in S : x =< y
  <1>1. PICK n \in S : TRUE
    OBVIOUS
  <1>. DEFINE X == 0..n
              T == {0..m : m \in {k \in S : k =< n}}
  <1>2. IsFiniteSet(X) /\ T \in SUBSET (SUBSET X) /\ T # {}
    <2>1. IsFiniteSet(X)
      BY FS_Interval
    <2>2. \A m \in S : m =< n => 0..m \subseteq X
      OBVIOUS
    <2>3. 0..n \in T
      OBVIOUS
    <2>4. T \subseteq SUBSET X
      BY <2>2
    <2>. QED BY <2>1, <2>3, <2>4
  <1>3. \E s \in T : \A t \in T : t \subseteq s => t = s
    <2>. HIDE DEF T, X
    <2>. QED BY <1>2, MinimalSubset
  <1>4. PICK x \in S : x =< n /\ \A t \in T : t \subseteq 0..x => t = 0..x
    BY <1>3
  <1>5. \A y \in S : y < x => 0..y \in T /\ 0..y \subseteq 0..x /\ x \notin 0..y /\ x \in 0..x
    BY <1>4
  <1>6. \A y \in S : ~(y < x)
    BY <1>4, <1>5
  <1>. QED BY <1>6

---------------------------------------------------------------------------
(* The watchdog of the channels.  A channel's history is a sequence of     *)
(* events; the current streak is what came since the last event that ends  *)
(* one.                                                                    *)

Events ==
    [is : {"ok", "failed", "rejected", "dropped", "alarm"}, threshold : Nat, others : SUBSET Channels]

EndsStreak(e) == e.is \in {"ok", "dropped"}

StreakOf(s, i) == {j \in 1..(i - 1) : \A k \in 1..(i - 1) : EndsStreak(s[k]) => k < j}
FailuresOf(s, at) == Cardinality({j \in at : s[j].is = "failed"})
Current(s) == StreakOf(s, Len(s) + 1)

\* What an event adds to a history: no earlier streak changes, the current one
\* is over or one longer.
LEMMA AppendExtends ==
    ASSUME NEW s \in Seq(Events), NEW e \in Events
    PROVE  LET t == Append(s, e) IN
           /\ t \in Seq(Events) /\ Len(s) \in Nat /\ Len(t) = Len(s) + 1
           /\ \A i \in 1..Len(s) : t[i] = s[i]
           /\ t[Len(s) + 1] = e
           /\ \A i \in 1..(Len(s) + 1) : StreakOf(t, i) = StreakOf(s, i) /\ StreakOf(s, i) \subseteq 1..(i - 1)
           /\ EndsStreak(e) => Current(t) = {}
           /\ ~EndsStreak(e) => Current(t) = Current(s) \cup {Len(s) + 1}
           /\ Current(s) \subseteq 1..Len(s)
  <1>. DEFINE t == Append(s, e)
              n == Len(s)
  <1>1. t \in Seq(Events) /\ n \in Nat /\ Len(t) = n + 1
        /\ (\A i \in 1..n : t[i] = s[i]) /\ t[n + 1] = e
    OBVIOUS
  <1>. HIDE DEF t, n
  <1>2. \A i \in 1..(n + 1) : StreakOf(t, i) = StreakOf(s, i) /\ StreakOf(s, i) \subseteq 1..(i - 1)
    <2>. SUFFICES ASSUME NEW i \in 1..(n + 1)
                  PROVE  StreakOf(t, i) = StreakOf(s, i) /\ StreakOf(s, i) \subseteq 1..(i - 1)
      OBVIOUS
    <2>1. \A k \in 1..(i - 1) : t[k] = s[k]
      BY <1>1
    <2>. QED BY <2>1 DEF StreakOf
  <1>3. Current(t) = {j \in 1..(n + 1) : \A k \in 1..(n + 1) : EndsStreak(t[k]) => k < j}
    BY <1>1 DEF Current, StreakOf
  <1>4. Current(s) = {j \in 1..n : \A k \in 1..n : EndsStreak(s[k]) => k < j}
    BY <1>1 DEF Current, StreakOf, n
  <1>5. EndsStreak(e) => Current(t) = {}
    <2>. SUFFICES ASSUME EndsStreak(e), NEW j \in 1..(n + 1), \A k \in 1..(n + 1) : EndsStreak(t[k]) => k < j
                  PROVE  FALSE
      BY <1>3
    <2>1. n + 1 \in 1..(n + 1)
      BY <1>1
    <2>. QED BY <1>1, <2>1
  <1>6. ~EndsStreak(e) => Current(t) = Current(s) \cup {n + 1}
    <2>. SUFFICES ASSUME ~EndsStreak(e) PROVE Current(t) = Current(s) \cup {n + 1}
      OBVIOUS
    <2>1. \A k \in 1..(n + 1) : EndsStreak(t[k]) => k \in 1..n /\ EndsStreak(s[k])
      BY <1>1
    <2>2. \A k \in 1..n : EndsStreak(s[k]) => k \in 1..(n + 1) /\ EndsStreak(t[k])
      BY <1>1
    <2>. QED BY <1>1, <1>3, <1>4, <2>1, <2>2
  <1>7. Current(s) \subseteq 1..n
    BY <1>4
  <1>. QED BY <1>1, <1>2, <1>5, <1>6, <1>7 DEF t, n

\* How many failures a streak counts after an event.
LEMMA AppendCounts ==
    ASSUME NEW s \in Seq(Events), NEW e \in Events, NEW at \in SUBSET (1..Len(s))
    PROVE  LET t == Append(s, e) IN
           /\ FailuresOf(s, at) \in Nat
           /\ FailuresOf(t, at) = FailuresOf(s, at)
           /\ FailuresOf(t, at \cup {Len(s) + 1}) =
                 IF e.is = "failed" THEN FailuresOf(s, at) + 1 ELSE FailuresOf(s, at)
  <1>. DEFINE t == Append(s, e)
              n == Len(s)
              F == {j \in at : s[j].is = "failed"}
  <1>1. n \in Nat /\ (\A i \in 1..n : t[i] = s[i]) /\ t[n + 1] = e
    OBVIOUS
  <1>2. IsFiniteSet(F) /\ Cardinality(F) \in Nat
    <2>1. IsFiniteSet(1..n)
      BY <1>1, FS_Interval
    <2>2. F \in SUBSET (1..n)
      OBVIOUS
    <2>. HIDE DEF F
    <2>. QED BY <2>1, <2>2, FS_Subset, FS_CardinalityType
  <1>3. {j \in at : t[j].is = "failed"} = F
    BY <1>1
  <1>4. {j \in at \cup {n + 1} : t[j].is = "failed"} = IF e.is = "failed" THEN F \cup {n + 1} ELSE F
    BY <1>1
  <1>5. n + 1 \notin F
    BY <1>1
  <1>6. Cardinality(F \cup {n + 1}) = Cardinality(F) + 1
    <2>. HIDE DEF F
    <2>. QED BY <1>2, <1>5, FS_AddElement
  <1>. QED BY <1>2, <1>3, <1>4, <1>6 DEF FailuresOf

\* What the health of a channel says of its history, and what AlarmsAreRight
\* says of it.
Tracks(s, h) ==
    /\ h.fails = FailuresOf(s, Current(s))
    /\ h.told <=> \E j \in Current(s) : s[j].is = "alarm"

AlarmedOnce(s) ==
    \A i \in 1..Len(s) : s[i].is = "alarm" => \A j \in StreakOf(s, i) : s[j].is # "alarm"

AlarmedLate(s) ==
    \A i \in 1..Len(s) : s[i].is = "alarm" => FailuresOf(s, StreakOf(s, i)) >= s[i].threshold

NoticedAt(s, i) ==
    /\ s[i].is = "failed" /\ s[i].others # {}
    /\ FailuresOf(s, StreakOf(s, i) \cup {i}) >= s[i].threshold
    => \E j \in (StreakOf(s, i) \cup {i + 1}) \cap 1..Len(s) : s[j].is = "alarm"

Right(s, h) ==
    /\ Tracks(s, h) /\ AlarmedOnce(s) /\ AlarmedLate(s)
    /\ \A i \in 1..Len(s) : NoticedAt(s, i)

Health == [fails : Nat, told : BOOLEAN]

\* An event that is no alarm leaves every earlier verdict alone.
LEMMA AppendKeeps ==
    ASSUME NEW s \in Seq(Events), NEW e \in Events,
           AlarmedOnce(s), AlarmedLate(s), \A i \in 1..Len(s) : NoticedAt(s, i)
    PROVE  LET t == Append(s, e) IN
           /\ \A i \in 1..Len(s) : NoticedAt(t, i)
           /\ e.is # "alarm" => AlarmedOnce(t) /\ AlarmedLate(t)
  <1>. DEFINE t == Append(s, e)
              n == Len(s)
  <1>1. /\ n \in Nat /\ Len(t) = n + 1 /\ t[n + 1] = e
        /\ \A i \in 1..n : t[i] = s[i]
        /\ \A i \in 1..(n + 1) : StreakOf(t, i) = StreakOf(s, i) /\ StreakOf(s, i) \subseteq 1..(i - 1)
    BY AppendExtends
  <1>2. \A at \in SUBSET (1..n) : FailuresOf(t, at) = FailuresOf(s, at)
    BY AppendCounts
  <1>. HIDE DEF t
  <1>3. ASSUME NEW i \in 1..n PROVE NoticedAt(t, i)
    <2>. SUFFICES ASSUME t[i].is = "failed", t[i].others # {},
                         FailuresOf(t, StreakOf(t, i) \cup {i}) >= t[i].threshold
                  PROVE  \E j \in (StreakOf(t, i) \cup {i + 1}) \cap 1..Len(t) : t[j].is = "alarm"
      BY DEF NoticedAt
    <2>1. StreakOf(s, i) \cup {i} \in SUBSET (1..n) /\ StreakOf(t, i) = StreakOf(s, i) /\ t[i] = s[i]
      BY <1>1
    <2>2. FailuresOf(t, StreakOf(t, i) \cup {i}) = FailuresOf(s, StreakOf(s, i) \cup {i})
      BY <1>2, <2>1
    <2>3. PICK j \in (StreakOf(s, i) \cup {i + 1}) \cap 1..n : s[j].is = "alarm"
      BY <2>1, <2>2 DEF NoticedAt
    <2>4. j \in 1..Len(t) /\ t[j] = s[j]
      BY <1>1, <2>3
    <2>. QED BY <2>1, <2>3, <2>4
  <1>4. ASSUME e.is # "alarm" PROVE AlarmedOnce(t) /\ AlarmedLate(t)
    <2>1. \A i \in 1..Len(t) : t[i].is = "alarm" => i \in 1..n /\ t[i] = s[i]
      BY <1>1, <1>4
    <2>2. \A i \in 1..n : \A j \in StreakOf(s, i) : j \in 1..n /\ t[j] = s[j]
      BY <1>1
    <2>3. \A i \in 1..n : StreakOf(t, i) = StreakOf(s, i) /\ FailuresOf(t, StreakOf(t, i)) = FailuresOf(s, StreakOf(s, i))
      BY <1>1, <1>2
    <2>. QED BY <2>1, <2>2, <2>3 DEF AlarmedOnce, AlarmedLate
  <1>. QED BY <1>3, <1>4 DEF t

\* A success, or a name that leaves the configuration: the count starts anew.
LEMMA EndIsRight ==
    ASSUME NEW s \in Seq(Events), NEW h \in Health, NEW e \in Events, Right(s, h), EndsStreak(e)
    PROVE  Right(Append(s, e), Healthy)
  <1>. DEFINE t == Append(s, e)
  <1>1. /\ Len(s) \in Nat /\ Len(t) = Len(s) + 1 /\ t[Len(s) + 1] = e /\ Current(t) = {}
        /\ e.is \notin {"alarm", "failed"}
    BY AppendExtends DEF EndsStreak
  <1>2. /\ \A i \in 1..Len(s) : NoticedAt(t, i)
        /\ AlarmedOnce(t) /\ AlarmedLate(t)
    BY <1>1, AppendKeeps DEF Right
  <1>. HIDE DEF t
  <1>3. \A i \in 1..Len(t) : NoticedAt(t, i)
    <2>1. NoticedAt(t, Len(s) + 1)
      BY <1>1 DEF NoticedAt
    <2>. QED BY <1>1, <1>2, <2>1
  <1>4. FailuresOf(t, Current(t)) = 0
    BY <1>1, FS_EmptySet DEF FailuresOf
  <1>5. Tracks(t, Healthy)
    BY <1>1, <1>4 DEF Tracks, Healthy
  <1>. QED BY <1>2, <1>3, <1>5 DEF Right, t

\* A payload refused as too large changes nothing.
LEMMA RejectedIsRight ==
    ASSUME NEW s \in Seq(Events), NEW h \in Health, NEW e \in Events, Right(s, h), e.is = "rejected"
    PROVE  Right(Append(s, e), h)
  <1>. DEFINE t == Append(s, e)
              n == Len(s)
  <1>1. /\ n \in Nat /\ Len(t) = n + 1 /\ t[n + 1] = e /\ Current(t) = Current(s) \cup {n + 1}
        /\ Current(s) \in SUBSET (1..n) /\ \A i \in 1..n : t[i] = s[i]
    BY AppendExtends DEF EndsStreak
  <1>2. /\ \A i \in 1..Len(s) : NoticedAt(t, i)
        /\ AlarmedOnce(t) /\ AlarmedLate(t)
    BY AppendKeeps DEF Right
  <1>3. FailuresOf(t, Current(t)) = FailuresOf(s, Current(s))
    BY <1>1, AppendCounts
  <1>. HIDE DEF t
  <1>4. \A i \in 1..Len(t) : NoticedAt(t, i)
    <2>1. NoticedAt(t, n + 1)
      BY <1>1 DEF NoticedAt
    <2>. QED BY <1>1, <1>2, <2>1
  <1>5. (\E j \in Current(t) : t[j].is = "alarm") <=> (\E j \in Current(s) : s[j].is = "alarm")
    BY <1>1
  <1>6. Tracks(t, h)
    BY <1>3, <1>5 DEF Tracks, Right
  <1>. QED BY <1>2, <1>4, <1>6 DEF Right, t

\* A failure that does not cross the threshold, or has nobody to tell, or was
\* told already.
LEMMA FailureIsRight ==
    ASSUME NEW s \in Seq(Events), NEW h \in Health, NEW e \in Events, Right(s, h), e.is = "failed",
           h.fails + 1 < e.threshold \/ h.told \/ e.others = {}
    PROVE  Right(Append(s, e), [fails |-> h.fails + 1, told |-> h.told])
  <1>. DEFINE t == Append(s, e)
              n == Len(s)
  <1>1. /\ n \in Nat /\ Len(t) = n + 1 /\ t[n + 1] = e /\ Current(t) = Current(s) \cup {n + 1}
        /\ Current(s) \in SUBSET (1..n) /\ (\A i \in 1..n : t[i] = s[i])
        /\ StreakOf(t, n + 1) = Current(s)
    BY AppendExtends DEF EndsStreak, Current
  <1>2. /\ \A i \in 1..Len(s) : NoticedAt(t, i)
        /\ AlarmedOnce(t) /\ AlarmedLate(t)
    BY AppendKeeps DEF Right
  <1>3. FailuresOf(t, Current(t)) = h.fails + 1
    <2>1. FailuresOf(t, Current(t)) = FailuresOf(s, Current(s)) + 1
      BY <1>1, AppendCounts
    <2>. QED BY <2>1 DEF Right, Tracks
  <1>. HIDE DEF t
  <1>4. \A i \in 1..Len(t) : NoticedAt(t, i)
    <2>1. NoticedAt(t, n + 1)
      <3>. SUFFICES ASSUME e.others # {}, h.fails + 1 >= e.threshold
                    PROVE  \E j \in Current(s) : t[j].is = "alarm" /\ j \in 1..Len(t)
        BY <1>1, <1>3 DEF NoticedAt
      <3>1. ~(h.fails + 1 < e.threshold)
        BY DEF Events, Health
      <3>2. h.told
        BY <3>1
      <3>3. PICK j \in Current(s) : s[j].is = "alarm"
        BY <3>2 DEF Right, Tracks
      <3>. QED BY <1>1, <3>3
    <2>. QED BY <1>1, <1>2, <2>1
  <1>5. (\E j \in Current(t) : t[j].is = "alarm") <=> (\E j \in Current(s) : s[j].is = "alarm")
    BY <1>1
  <1>6. Tracks(t, [fails |-> h.fails + 1, told |-> h.told])
    BY <1>3, <1>5 DEF Tracks, Right
  <1>. QED BY <1>2, <1>4, <1>6 DEF Right, t

\* A failure that crosses the threshold, and the alarm that goes with it.
LEMMA AlarmIsRight ==
    ASSUME NEW s \in Seq(Events), NEW h \in Health, NEW e \in Events, NEW a \in Events, Right(s, h),
           e.is = "failed", a.is = "alarm", a.threshold = e.threshold,
           h.fails + 1 >= e.threshold, ~h.told
    PROVE  Right(Append(Append(s, e), a), [fails |-> h.fails + 1, told |-> TRUE])
  <1>. DEFINE t == Append(s, e)
              u == Append(t, a)
              n == Len(s)
  <1>1. /\ n \in Nat /\ Len(t) = n + 1 /\ t[n + 1] = e /\ Current(t) = Current(s) \cup {n + 1}
        /\ Current(s) \in SUBSET (1..n) /\ (\A i \in 1..n : t[i] = s[i])
        /\ t \in Seq(Events)
    BY AppendExtends DEF EndsStreak
  <1>2. FailuresOf(t, Current(t)) = h.fails + 1
    <2>1. FailuresOf(t, Current(t)) = FailuresOf(s, Current(s)) + 1
      BY <1>1, AppendCounts
    <2>. QED BY <2>1 DEF Right, Tracks
  <1>3. \A j \in Current(t) : t[j].is # "alarm"
    BY <1>1 DEF Right, Tracks
  <1>4. (\A i \in 1..n : NoticedAt(t, i)) /\ AlarmedOnce(t) /\ AlarmedLate(t)
    BY AppendKeeps DEF Right
  <1>. HIDE DEF t
  <1>5. /\ Len(u) = n + 2 /\ u[n + 2] = a /\ Current(u) = Current(t) \cup {n + 2}
        /\ Current(t) \in SUBSET (1..(n + 1)) /\ (\A i \in 1..(n + 1) : u[i] = t[i])
        /\ StreakOf(u, n + 2) = Current(t)
        /\ \A i \in 1..(n + 2) : StreakOf(u, i) = StreakOf(t, i) /\ StreakOf(t, i) \subseteq 1..(i - 1)
    <2>1. t \in Seq(Events) /\ Len(t) + 1 = n + 2
      BY <1>1
    <2>. QED BY <1>1, <2>1, AppendExtends DEF EndsStreak, Current
  <1>6. /\ FailuresOf(u, Current(t)) = h.fails + 1
        /\ FailuresOf(u, Current(u)) = h.fails + 1
        /\ \A i \in 1..(n + 1) : FailuresOf(u, StreakOf(u, i)) = FailuresOf(t, StreakOf(t, i))
    <2>1. \A at \in SUBSET (1..Len(t)) :
             /\ FailuresOf(u, at) = FailuresOf(t, at)
             /\ FailuresOf(u, at \cup {Len(t) + 1}) = FailuresOf(t, at)
      BY <1>1, AppendCounts
    <2>2. \A i \in 1..(n + 1) : StreakOf(t, i) \in SUBSET (1..Len(t))
      BY <1>1, <1>5
    <2>3. Current(t) \in SUBSET (1..Len(t)) /\ Len(t) + 1 = n + 2
      BY <1>1, <1>5
    <2>4. Current(u) = Current(t) \cup {Len(t) + 1}
      BY <1>5, <2>3
    <2>5. \A i \in 1..(n + 1) : StreakOf(u, i) = StreakOf(t, i)
      BY <1>1, <1>5
    <2>. HIDE DEF u
    <2>6. FailuresOf(u, Current(t)) = h.fails + 1 /\ FailuresOf(u, Current(u)) = h.fails + 1
      BY <1>2, <2>1, <2>3, <2>4
    <2>. QED BY <2>1, <2>2, <2>5, <2>6
  <1>. HIDE DEF u
  <1>7. AlarmedOnce(u) /\ AlarmedLate(u)
    <2>1. ASSUME NEW i \in 1..Len(u), u[i].is = "alarm"
          PROVE  /\ \A j \in StreakOf(u, i) : u[j].is # "alarm"
                 /\ FailuresOf(u, StreakOf(u, i)) >= u[i].threshold
      <3>1. CASE i = n + 2
        <4>1. \A j \in Current(t) : u[j].is # "alarm"
          BY <1>3, <1>5
        <4>. QED BY <1>5, <1>6, <3>1, <4>1
      <3>2. CASE i \in 1..(n + 1)
        <4>1. t[i].is = "alarm" /\ u[i] = t[i] /\ i \in 1..Len(t)
          BY <1>1, <1>5, <2>1, <3>2
        <4>2. \A j \in StreakOf(t, i) : u[j] = t[j]
          BY <1>1, <1>5, <3>2
        <4>. QED BY <1>4, <1>5, <1>6, <3>2, <4>1, <4>2 DEF AlarmedOnce, AlarmedLate
      <3>. QED BY <1>1, <1>5, <3>1, <3>2
    <2>. QED BY <2>1 DEF AlarmedOnce, AlarmedLate
  <1>8. \A i \in 1..Len(u) : NoticedAt(u, i)
    <2>1. \A i \in 1..n : NoticedAt(u, i)
      <3>. SUFFICES ASSUME NEW i \in 1..n, u[i].is = "failed", u[i].others # {},
                           FailuresOf(u, StreakOf(u, i) \cup {i}) >= u[i].threshold
                    PROVE  \E j \in (StreakOf(u, i) \cup {i + 1}) \cap 1..Len(u) : u[j].is = "alarm"
        BY DEF NoticedAt
      <3>1. /\ StreakOf(u, i) = StreakOf(t, i) /\ u[i] = t[i]
            /\ StreakOf(t, i) \cup {i} \in SUBSET (1..Len(t))
        BY <1>1, <1>5
      <3>2. FailuresOf(u, StreakOf(t, i) \cup {i}) = FailuresOf(t, StreakOf(t, i) \cup {i})
        BY <1>1, <3>1, AppendCounts DEF u
      <3>3. PICK j \in (StreakOf(t, i) \cup {i + 1}) \cap 1..Len(t) : t[j].is = "alarm"
        BY <1>4, <3>1, <3>2 DEF NoticedAt
      <3>4. j \in 1..Len(u) /\ u[j] = t[j]
        BY <1>1, <1>5, <3>3
      <3>. QED BY <3>1, <3>3, <3>4
    <2>2. NoticedAt(u, n + 1)
      BY <1>1, <1>5 DEF NoticedAt
    <2>3. NoticedAt(u, n + 2)
      BY <1>1, <1>5 DEF NoticedAt
    <2>. QED BY <1>1, <1>5, <2>1, <2>2, <2>3
  <1>9. Tracks(u, [fails |-> h.fails + 1, told |-> TRUE])
    <2>1. \E j \in Current(u) : u[j].is = "alarm"
      BY <1>5
    <2>. QED BY <1>6, <2>1 DEF Tracks
  <1>. QED BY <1>7, <1>8, <1>9 DEF Right, u, t

---------------------------------------------------------------------------
(* The dispatcher *)

\* Dispatches of any alerts at any moment, and restarts: what PushedAlerts does
\* to a dispatcher, and more.
Crash ==
    /\ health' = <<>>
    /\ flights' \in [Flights -> {Grounded, [Grounded EXCEPT !.pc = "done"]}]
    /\ streaks' = [c \in Channels |-> Append(streaks[c], Befell("dropped", notifier, c))]
    /\ UNCHANGED notifier

AnyDispatch ==
    \/ Crash
    \/ \E d \in Dispatchers : Swap(d)
    \/ \E f \in Flights :
          \/ Flying(f)
          \/ \E only : Launch(f, only) /\ UNCHANGED <<notifier, health, streaks, swaps>>

AnySpec == DispatchInit /\ [][AnyDispatch]_dispatchVars

Notifiers == [channels : Seq(Channels), threshold : Nat]

\* A flight that sends goes to channels of its dispatcher.
FlightHolds(f) ==
    flights[f].pc = "sending" =>
        /\ flights[f].by \in Notifiers
        /\ flights[f].to \subseteq Named(flights[f].by)
        /\ DOMAIN flights[f].outcome = flights[f].to
        /\ \A c \in flights[f].to : flights[f].outcome[c] \in Outcomes

FlightsHold ==
    /\ DOMAIN flights = Flights
    /\ \A f \in Flights :
          DOMAIN flights[f] = {"pc", "by", "to", "outcome", "warn"} /\ FlightHolds(f)

DispatchInv ==
    /\ notifier \in Notifiers
    /\ FlightsHold
    /\ streaks \in [Channels -> Seq(Events)]
    /\ \A c \in DOMAIN health : health[c] \in Health
    /\ \A c \in Channels : Right(streaks[c], HealthOf(c))

\* A dispatcher as built, whose channels have not failed yet, names the channels it was
\* given.
LEMMA BuiltIsNotifier ==
    ASSUME NEW d \in Dispatchers
    PROVE  Built(d) \in Notifiers /\ Named(Built(d)) = Named(d) /\ Named(d) \subseteq Channels
  <1>1. d \in [channels : Seq(Channels), threshold : Nat]
    BY DispatcherAssumption DEF DispatcherAssumption
  <1>2. Built(d) \in Notifiers /\ Built(d).channels = d.channels
    BY <1>1 DEF Built, Notifiers
  <1>. QED BY <1>1, <1>2 DEF Named

\* What befell a channel is one of the events the watchdog's ledger is made of.
LEMMA BefellIsEvent ==
    ASSUME NEW d \in Notifiers, NEW c,
           NEW what \in {"ok", "failed", "rejected", "dropped", "alarm"}
    PROVE  /\ Befell(what, d, c) \in Events
           /\ Befell(what, d, c).is = what /\ Befell(what, d, c).threshold = d.threshold
           /\ Befell(what, d, c).others = Named(d) \ {c}
  <1>1. Named(d) \subseteq Channels
    BY DEF Named, Notifiers
  <1>. QED BY <1>1 DEF Befell, Events, Notifiers

\* What a delivery may come to.
LEMMA DeliveriesAreOutcomes == Deliveries \subseteq {"ok", "failed", "rejected"}
  <1>. SUFFICES ASSUME NEW replies \in [1..MAX_ATTEMPTS -> Answers]
                PROVE  SendRetrying(replies) \in {"ok", "failed", "rejected"}
    BY DEF Deliveries
  <1>. DEFINE decisive == {i \in 1..MAX_ATTEMPTS : replies[i] # "transient"}
              first == CHOOSE i \in decisive : \A j \in decisive : i <= j
  <1>1. CASE decisive = {}
    BY <1>1 DEF SendRetrying
  <1>2. CASE decisive # {}
    <2>1. decisive \in SUBSET Nat
      BY DEF MAX_ATTEMPTS
    <2>2. \E i \in decisive : \A j \in decisive : i <= j
      <3>. HIDE DEF decisive
      <3>. QED BY <1>2, <2>1, LeastExists
    <2>3. first \in decisive
      <3>. HIDE DEF decisive
      <3>. QED BY <2>2
    <2>4. replies[first] \in {"accepted", "refused", "too_large"}
      <3>. HIDE DEF first
      <3>. QED BY <2>3 DEF Answers
    <2>5. SendRetrying(replies) = CASE replies[first] = "accepted" -> "ok"
                                    [] replies[first] = "too_large" -> "rejected"
                                    [] replies[first] = "refused" -> "failed"
      BY <1>2 DEF SendRetrying
    <2>. HIDE DEF first
    <2>. QED BY <2>4, <2>5
  <1>. QED BY <1>1, <1>2

\* The counts and the ledger agree before anything was sent.
LEMMA DispatchInvInit == DispatchInit => DispatchInv
  <1>. SUFFICES ASSUME DispatchInit PROVE DispatchInv
    OBVIOUS
  <1>1. notifier \in Notifiers
    BY BuiltIsNotifier DEF DispatchInit
  <1>2. FlightsHold
    BY DEF DispatchInit, FlightsHold, FlightHolds, Grounded
  <1>3. streaks \in [Channels -> Seq(Events)] /\ DOMAIN health = {}
    BY DEF DispatchInit
  <1>4. ASSUME NEW c \in Channels PROVE Right(streaks[c], HealthOf(c))
    <2>1. streaks[c] = <<>> /\ HealthOf(c) = Healthy
      BY <1>3 DEF DispatchInit, HealthOf
    <2>. DEFINE none == <<>>
    <2>2. Len(none) = 0 /\ 1..Len(none) = {} /\ Current(none) = {}
      BY DEF Current, StreakOf
    <2>3. FailuresOf(none, {}) = 0
      BY FS_EmptySet DEF FailuresOf
    <2>. HIDE DEF none
    <2>4. Right(none, Healthy)
      BY <2>2, <2>3 DEF Right, Tracks, AlarmedOnce, AlarmedLate, Healthy
    <2>. QED BY <2>1, <2>4 DEF none
  <1>. QED BY <1>1, <1>2, <1>3, <1>4 DEF DispatchInv

\* The outcomes of a flight are counted, each against its channel.
LEMMA CountIsRight ==
    ASSUME DispatchInv, NEW f \in Flights, Count(f)
    PROVE  DispatchInv'
  <1>. DEFINE flight == flights[f]
              d == flight.by
              counted == {c \in flight.to : Counts(flight.outcome[c])}
              trig == {c \in counted : Triggered(d, c, flight.outcome[c])}
  <1>1. /\ flight.pc = "sending" /\ d \in Notifiers /\ flight.to \subseteq Named(d)
        /\ \A c \in flight.to : flight.outcome[c] \in {"ok", "failed", "rejected"}
    BY DEF Count, DispatchInv, FlightsHold, FlightHolds, Outcomes
  <1>2. /\ health' = [c \in DOMAIN health \cup counted |->
                         IF c \in counted THEN Updated(d, c, flight.outcome[c]) ELSE health[c]]
        /\ streaks' = [c \in Channels |->
                         IF c \notin flight.to THEN streaks[c]
                         ELSE streaks[c] \o <<Befell(flight.outcome[c], d, c)>>
                                 \o (IF c \in trig THEN Told(d, c) ELSE <<>>)]
        /\ notifier' = notifier
        /\ FlightsHold'
    <2>1. FlightsHold'
      BY DEF Count, Landing, Grounded, DispatchInv, FlightsHold, FlightHolds
    <2>. QED BY <2>1 DEF Count
  <1>. HIDE DEF counted, trig, d
  <1>3. \A c : HealthOf(c) \in Health /\ HealthOf(c) = [fails |-> HealthOf(c).fails, told |-> HealthOf(c).told]
    BY DEF HealthOf, DispatchInv, Healthy, Health
  <1>4. ASSUME NEW c \in flight.to, NEW h, h = HealthOf(c)
        PROVE  /\ c \in counted <=> flight.outcome[c] \in {"ok", "failed"}
               /\ c \in trig <=> /\ flight.outcome[c] = "failed"
                                 /\ h.fails + 1 >= d.threshold /\ ~h.told /\ Named(d) \ {c} # {}
               /\ flight.outcome[c] = "ok" => Updated(d, c, flight.outcome[c]) = Healthy
               /\ flight.outcome[c] = "failed" =>
                     Updated(d, c, flight.outcome[c]) =
                        [fails |-> h.fails + 1, told |-> h.told \/ c \in trig]
    <2>1. c \in Named(d) /\ (Named(d) # {c} <=> Named(d) \ {c} # {})
      BY <1>1, <1>4
    <2>2. c \in counted <=> flight.outcome[c] \in {"ok", "failed"}
      BY <1>1 DEF counted, Counts
    <2>3. [HealthOf(c) EXCEPT !.fails = @ + 1] = [fails |-> h.fails + 1, told |-> h.told]
      BY <1>3, <1>4 DEF Health
    <2>4. Crosses(d, c, [HealthOf(c) EXCEPT !.fails = @ + 1]) <=>
             h.fails + 1 >= d.threshold /\ ~h.told /\ Named(d) \ {c} # {}
      BY <2>1, <2>3 DEF Crosses, HasOthers
    <2>5. c \in trig <=> flight.outcome[c] = "failed" /\ Crosses(d, c, [HealthOf(c) EXCEPT !.fails = @ + 1])
      BY <2>2 DEF trig, Triggered
    <2>6. flight.outcome[c] = "failed" =>
             Updated(d, c, flight.outcome[c]) =
                [fails |-> h.fails + 1,
                 told |-> h.told \/ Crosses(d, c, [HealthOf(c) EXCEPT !.fails = @ + 1])]
      BY <2>3 DEF Updated
    <2>7. flight.outcome[c] = "ok" => Updated(d, c, flight.outcome[c]) = Healthy
      BY DEF Updated
    <2>. QED BY <2>2, <2>4, <2>5, <2>6, <2>7
  <1>5. ASSUME NEW c \in Channels
        PROVE  streaks'[c] \in Seq(Events) /\ Right(streaks'[c], HealthOf(c)')
    <2>. DEFINE s == streaks[c]
                h == HealthOf(c)
                what == flight.outcome[c]
                e == Befell(what, d, c)
                a == Befell("alarm", d, c)
    <2>1. s \in Seq(Events) /\ h \in Health /\ Right(s, h)
      BY <1>3 DEF DispatchInv
    <2>2. CASE c \notin flight.to
      <3>1. c \notin counted
        BY <2>2 DEF counted
      <3>2. HealthOf(c)' = h /\ streaks'[c] = s
        BY <1>2, <2>2, <3>1 DEF HealthOf
      <3>. QED BY <2>1, <3>2
    <2>3. CASE c \in flight.to
      <3>1. what \in {"ok", "failed", "rejected"} /\ e \in Events /\ a \in Events
            /\ e.is = what /\ e.threshold = d.threshold /\ e.others = Named(d) \ {c}
            /\ a.is = "alarm" /\ a.threshold = d.threshold
        BY <1>1, <2>3, BefellIsEvent
      <3>2. streaks'[c] = s \o <<e>> \o (IF c \in trig THEN Told(d, c) ELSE <<>>)
        BY <1>2, <2>3
      <3>3. c \in trig => Told(d, c) = <<a>>
        BY <1>4, <2>3 DEF Told
      <3>4. HealthOf(c)' = IF c \in counted THEN Updated(d, c, what) ELSE h
        BY <1>2, <2>3 DEF HealthOf
      <3>. HIDE DEF e, a, what, s, h
      <3>5. /\ streaks'[c] = IF c \in trig THEN Append(Append(s, e), a) ELSE Append(s, e)
            /\ streaks'[c] \in Seq(Events)
        <4>1. CASE c \in trig
          <5>1. s \o <<e>> = Append(s, e) /\ Append(s, e) \in Seq(Events)
            BY <2>1, <3>1
          <5>2. /\ Append(s, e) \o <<a>> = Append(Append(s, e), a)
                /\ Append(Append(s, e), a) \in Seq(Events)
            BY <3>1, <5>1
          <5>3. streaks'[c] = s \o <<e>> \o <<a>>
            BY <3>2, <3>3, <4>1
          <5>. QED BY <4>1, <5>1, <5>2, <5>3
        <4>2. CASE c \notin trig
          <5>1. s \o <<e>> = Append(s, e) /\ Append(s, e) \in Seq(Events)
            BY <2>1, <3>1
          <5>2. Append(s, e) \o <<>> = Append(s, e)
            BY <5>1
          <5>3. streaks'[c] = s \o <<e>> \o <<>>
            BY <3>2, <4>2
          <5>. QED BY <4>2, <5>1, <5>2, <5>3
        <4>. QED BY <4>1, <4>2
      <3>6. CASE what = "ok"
        <4>1. c \notin trig /\ c \in counted /\ HealthOf(c)' = Healthy
          BY <1>4, <2>3, <3>4, <3>6 DEF what
        <4>. QED BY <2>1, <3>1, <3>5, <3>6, <4>1, EndIsRight DEF EndsStreak
      <3>7. CASE what = "rejected"
        <4>1. c \notin trig /\ c \notin counted /\ HealthOf(c)' = h
          BY <1>4, <2>3, <3>4, <3>7 DEF what
        <4>. QED BY <2>1, <3>1, <3>5, <3>7, <4>1, RejectedIsRight
      <3>8. CASE what = "failed" /\ c \in trig
        <4>1. /\ c \in counted /\ HealthOf(c)' = [fails |-> h.fails + 1, told |-> h.told \/ c \in trig]
              /\ h.fails + 1 >= d.threshold /\ ~h.told
          BY <1>4, <2>3, <3>4, <3>8 DEF what, h
        <4>2. HealthOf(c)' = [fails |-> h.fails + 1, told |-> TRUE]
          BY <3>8, <4>1
        <4>. QED BY <2>1, <3>1, <3>5, <3>8, <4>1, <4>2, AlarmIsRight
      <3>9. CASE what = "failed" /\ c \notin trig
        <4>1. /\ c \in counted /\ HealthOf(c)' = [fails |-> h.fails + 1, told |-> h.told \/ c \in trig]
              /\ ~(h.fails + 1 >= d.threshold) \/ h.told \/ e.others = {}
          BY <1>4, <2>3, <3>1, <3>4, <3>9 DEF what, h
        <4>2. HealthOf(c)' = [fails |-> h.fails + 1, told |-> h.told]
          <5>1. (h.told \/ c \in trig) = h.told
            BY <2>1, <3>9 DEF Health
          <5>. QED BY <4>1, <5>1
        <4>3. h.fails \in Nat /\ d.threshold \in Nat
          BY <1>1, <2>1 DEF Health, Notifiers
        <4>4. h.fails + 1 < e.threshold \/ h.told \/ e.others = {}
          BY <3>1, <4>1, <4>3
        <4>. QED BY <2>1, <3>1, <3>5, <3>9, <4>2, <4>4, FailureIsRight
      <3>. QED BY <3>1, <3>6, <3>7, <3>8, <3>9
    <2>. QED BY <2>2, <2>3
  <1>6. \A c \in DOMAIN health' : health'[c] \in Health
    <2>1. ASSUME NEW c \in counted PROVE Updated(d, c, flight.outcome[c]) \in Health
      <3>1. c \in flight.to /\ HealthOf(c).fails \in Nat /\ HealthOf(c).told \in BOOLEAN
        BY <1>3, <2>1 DEF counted, Health
      <3>2. Healthy \in Health /\ [fails |-> HealthOf(c).fails + 1, told |-> HealthOf(c).told \/ c \in trig] \in Health
        BY <3>1 DEF Healthy, Health
      <3>. QED BY <1>4, <2>1, <3>1, <3>2
    <2>. QED BY <1>2, <2>1 DEF DispatchInv
  <1>7. streaks' \in [Channels -> Seq(Events)]
    BY <1>2, <1>5
  <1>. QED BY <1>2, <1>5, <1>6, <1>7 DEF DispatchInv

\* Every step of a flight, of a reload and of an alarm keeps the counts in agreement
\* with the ledger.
LEMMA DispatchInvStep == DispatchInv /\ [AnyDispatch]_dispatchVars => DispatchInv'
  <1>. SUFFICES ASSUME DispatchInv, [AnyDispatch]_dispatchVars PROVE DispatchInv'
    OBVIOUS
  <1>0. \A c : HealthOf(c) \in Health
    BY DEF HealthOf, DispatchInv, Healthy, Health
  <1>1. CASE Crash
    <2>1. ASSUME NEW c \in Channels
          PROVE  streaks'[c] \in Seq(Events) /\ Right(streaks'[c], HealthOf(c)')
      <3>1. HealthOf(c)' = Healthy /\ streaks'[c] = Append(streaks[c], Befell("dropped", notifier, c))
        BY <1>1 DEF Crash, HealthOf
      <3>2. Befell("dropped", notifier, c) \in Events /\ EndsStreak(Befell("dropped", notifier, c))
        BY BefellIsEvent DEF DispatchInv, EndsStreak
      <3>3. streaks[c] \in Seq(Events) /\ Right(streaks[c], HealthOf(c))
        BY DEF DispatchInv
      <3>. QED BY <1>0, <3>1, <3>2, <3>3, EndIsRight
    <2>2. streaks' \in [Channels -> Seq(Events)] /\ DOMAIN health' = {}
      BY <1>1, <2>1 DEF Crash
    <2>3. FlightsHold'
      BY <1>1 DEF Crash, FlightsHold, FlightHolds, Grounded
    <2>. QED BY <1>1, <2>1, <2>2, <2>3 DEF Crash, DispatchInv
  <1>2. ASSUME NEW d \in Dispatchers, Swap(d) PROVE DispatchInv'
    <2>1. Built(d) \in Notifiers
      BY BuiltIsNotifier
    <2>2. ASSUME NEW c \in Channels
          PROVE  streaks'[c] \in Seq(Events) /\ Right(streaks'[c], HealthOf(c)')
      <3>1. streaks[c] \in Seq(Events) /\ Right(streaks[c], HealthOf(c))
        BY DEF DispatchInv
      <3>2. CASE c \in Named(d)
        <4>1. streaks'[c] = streaks[c] /\ HealthOf(c)' = HealthOf(c)
          BY <1>2, <3>2 DEF Swap, Carried, HealthOf
        <4>. QED BY <3>1, <4>1
      <3>3. CASE c \notin Named(d)
        <4>1. HealthOf(c)' = Healthy /\ streaks'[c] = Append(streaks[c], Befell("dropped", Built(d), c))
          BY <1>2, <3>3 DEF Swap, Carried, HealthOf
        <4>2. Befell("dropped", Built(d), c) \in Events /\ EndsStreak(Befell("dropped", Built(d), c))
          BY <2>1, BefellIsEvent DEF EndsStreak
        <4>. QED BY <1>0, <3>1, <4>1, <4>2, EndIsRight
      <3>. QED BY <3>2, <3>3
    <2>3. streaks' \in [Channels -> Seq(Events)]
      BY <1>2, <2>2 DEF Swap
    <2>4. \A c \in DOMAIN health' : health'[c] \in Health
      BY <1>2 DEF Swap, Carried, DispatchInv
    <2>. QED BY <1>2, <2>1, <2>2, <2>3, <2>4 DEF Swap, DispatchInv, FlightsHold, FlightHolds
  <1>3. ASSUME NEW f \in Flights, Warn(f) PROVE DispatchInv'
    <2>1. FlightsHold'
      BY <1>3 DEF Warn, Landing, Grounded, DispatchInv, FlightsHold, FlightHolds
    <2>. QED BY <1>3, <2>1 DEF Warn, DispatchInv, HealthOf
  <1>4. ASSUME NEW f \in Flights, Count(f) PROVE DispatchInv'
    BY <1>4, CountIsRight
  <1>5. ASSUME NEW f \in Flights, NEW c \in Channels, Deliver(f, c) PROVE DispatchInv'
    <2>1. PICK outcome \in Deliveries : flights' = [flights EXCEPT ![f].outcome[c] = outcome]
      BY <1>5 DEF Deliver
    <2>2. outcome \in Outcomes
      BY DeliveriesAreOutcomes DEF Outcomes
    <2>3. FlightsHold'
      <3>1. flights' = [flights EXCEPT ![f] = [flights[f] EXCEPT !.outcome = [@ EXCEPT ![c] = outcome]]]
        BY <2>1
      <3>2. flights[f].pc = "sending" /\ FlightHolds(f)
        BY <1>5 DEF Deliver, DispatchInv, FlightsHold
      <3>. DEFINE flight == [flights[f] EXCEPT !.outcome = [@ EXCEPT ![c] = outcome]]
      <3>3. /\ flight.by = flights[f].by /\ flight.to = flights[f].to
            /\ DOMAIN flight.outcome = flights[f].to
            /\ \A x \in flights[f].to : flight.outcome[x] \in Outcomes
            /\ DOMAIN flight = DOMAIN flights[f]
        BY <2>2, <3>2 DEF FlightHolds, DispatchInv, FlightsHold
      <3>. HIDE DEF flight
      <3>4. flights'[f] = flight /\ DOMAIN flights' = Flights
        BY <3>1 DEF flight, DispatchInv, FlightsHold
      <3>5. FlightHolds(f)'
        BY <3>2, <3>3, <3>4 DEF FlightHolds
      <3>6. \A g \in Flights : g # f => flights'[g] = flights[g]
        BY <3>1 DEF DispatchInv, FlightsHold
      <3>. QED BY <3>3, <3>4, <3>5, <3>6 DEF DispatchInv, FlightsHold, FlightHolds
    <2>. QED BY <1>5, <2>3 DEF Deliver, DispatchInv, HealthOf
  <1>6. ASSUME NEW f \in Flights, NEW only, Launch(f, only),
               UNCHANGED <<notifier, health, streaks, swaps>>
        PROVE  DispatchInv'
    <2>1. FlightsHold'
      BY <1>6 DEF Launch, Targets, DispatchInv, FlightsHold, FlightHolds, Outcomes
    <2>. QED BY <1>6, <2>1 DEF DispatchInv, HealthOf
  <1>7. CASE UNCHANGED dispatchVars
    BY <1>7 DEF dispatchVars, DispatchInv, HealthOf, FlightsHold, FlightHolds
  <1>. QED BY <1>1, <1>2, <1>3, <1>4, <1>5, <1>6, <1>7 DEF AnyDispatch, Flying

\* The failures a channel is held to are those since it last delivered, or left
\* the configuration, and it is marked as told when an alarm said so.
THEOREM DispatchInvariant == AnySpec => []DispatchInv
  BY DispatchInvInit, DispatchInvStep, PTL DEF AnySpec

\* A step of the alert endpoint is a step of the dispatcher or leaves its state alone.
LEMMA PushesDispatch == [PushNext]_pushedVars => [AnyDispatch]_dispatchVars
  <1>. SUFFICES ASSUME PushNext PROVE [AnyDispatch]_dispatchVars
    BY DEF pushedVars, dispatchVars
  <1>1. CASE Restart
    <2>1. flights' \in [Flights -> {Grounded, [Grounded EXCEPT !.pc = "done"]}]
      BY <1>1 DEF Restart
    <2>. QED BY <1>1, <2>1 DEF Restart, AnyDispatch, Crash
  <1>2. ASSUME NEW f \in Flights, StartDispatch(f) PROVE AnyDispatch
    BY <1>2 DEF StartDispatch, AnyDispatch
  <1>3. ASSUME NEW f \in Flights, Fly(f) PROVE AnyDispatch
    BY <1>3 DEF Fly, AnyDispatch
  <1>4. ASSUME NEW d \in Dispatchers, NEW c \in Configured, Reload(d, c) PROVE AnyDispatch
    BY <1>4 DEF Reload, AnyDispatch
  <1>5. ASSUME NEW f \in Flights, NEW k \in Keys \cup {NoKey}, Receive(f, k)
        PROVE UNCHANGED dispatchVars
    BY <1>5 DEF Receive, dispatchVars
  <1>6. ASSUME NEW f \in Flights,
               Admit(f) \/ AdmitAlways(f) \/ Insert(f) \/ InsertFails(f) \/ HangUp(f)
        PROVE UNCHANGED dispatchVars
    BY <1>6 DEF Admit, AdmitAlways, Insert, InsertFails, HangUp, dispatchVars
  <1>7. CASE Tick
    BY <1>7 DEF Tick, dispatchVars
  <1>. QED BY <1>1, <1>2, <1>3, <1>4, <1>5, <1>6, <1>7 DEF PushNext, Handle

\* The other channels are told of a failing one at most once before it delivers
\* again, after as many failures as the threshold asks, and not later.
THEOREM AlarmsInOrder == PushSpec => []AlarmsAreRight
  <1>1. ASSUME DispatchInv PROVE AlarmsAreRight
    <2>1. \A c \in Channels : streaks[c] \in Seq(Events) /\ DOMAIN streaks[c] = 1..Len(streaks[c])
      BY <1>1 DEF DispatchInv
    <2>2. \A c, i : StreakAt(c, i) = StreakOf(streaks[c], i)
      BY DEF StreakAt, StreakOf, EndsStreak
    <2>3. \A c, at : Failures(c, at) = FailuresOf(streaks[c], at)
      BY DEF Failures, FailuresOf
    <2>4. \A c \in Channels :
             /\ AlarmedOnce(streaks[c]) /\ AlarmedLate(streaks[c])
             /\ \A i \in 1..Len(streaks[c]) : NoticedAt(streaks[c], i)
      BY <1>1 DEF DispatchInv, Right
    <2>5. OneAlarmPerStreak
      BY <2>1, <2>2, <2>4 DEF OneAlarmPerStreak, AlarmedOnce
    <2>6. AlarmIsDeserved
      BY <2>1, <2>2, <2>3, <2>4 DEF AlarmIsDeserved, AlarmedLate
    <2>7. SilenceIsNoticed
      BY <2>1, <2>2, <2>3, <2>4 DEF SilenceIsNoticed, NoticedAt
    <2>. QED BY <2>5, <2>6, <2>7 DEF AlarmsAreRight
  <1>2. PushSpec => AnySpec
    BY PushesDispatch, PTL DEF PushSpec, AnySpec
  <1>. QED BY <1>1, <1>2, DispatchInvariant, PTL

---------------------------------------------------------------------------
(* The windows of pushed alerts *)

Slots == [sentAt : Nat, suppressed : Nat]

PushRequests ==
    [pc : {"idle", "admit", "insert", "coalesced", "dispatched", "error", "gone"},
     key : Keys \cup {NoKey}, window : Nat, notify : SUBSET Channels, at : Nat, life : Nat]

FloodTypeOK ==
    /\ clock \in Nat /\ life \in Nat /\ config \in Configured
    /\ DOMAIN flood \subseteq Keys /\ flood = [k \in DOMAIN flood |-> flood[k]]
    /\ \A k \in DOMAIN flood : flood[k] \in Slots
    /\ request \in [Flights -> PushRequests]

\* What is on its way is of this life: a restart takes it away.
LifeHolds ==
    \A f \in Flights :
        /\ request[f].life <= life
        /\ request[f].pc \in {"admit", "insert"} => request[f].life = life

Passed(f) == request[f].pc \in {"insert", "dispatched"} /\ ~Exempt(request[f])

\* The slot a request opened, or that of a later one, is there until another
\* key's request prunes it.
SlotStands(g) ==
    Passed(g) /\ request[g].life = life =>
        \/ request[g].key \in DOMAIN flood /\ flood[request[g].key].sentAt >= request[g].at
        \/ \E h \in Flights : Pruned(h, g)

Repeats(f, g) ==
    /\ f # g /\ Passed(f) /\ Passed(g) /\ request[f].life = request[g].life
    /\ request[f].key = request[g].key

OneOpens(f, g) ==
    Repeats(f, g) /\ InWindow(f, g) => \E h \in Flights : Pruned(h, f) \/ Pruned(h, g)

FloodInv ==
    /\ FloodTypeOK /\ LifeHolds
    /\ \A g \in Flights : SlotStands(g)
    /\ \A f, g \in Flights : OneOpens(f, g)

\* No window is open and no alert counted at the start.
LEMMA FloodInvInit == PushInit => FloodInv
  <1>. SUFFICES ASSUME PushInit PROVE FloodInv
    OBVIOUS
  <1>1. FloodTypeOK
    BY PushAssumption DEF PushAssumption, PushInit, FloodTypeOK, Unsent, PushRequests, Slots
  <1>2. \A f \in Flights : request[f].pc = "idle" /\ request[f].life <= life
    BY DEF PushInit, Unsent
  <1>. QED BY <1>1, <1>2 DEF FloodInv, LifeHolds, SlotStands, OneOpens, Repeats, Passed

\* A step that opens no slot and closes none: requests only go on, or are gone.
LEMMA RequestsGoOn ==
    ASSUME FloodInv, FloodTypeOK', LifeHolds',
           UNCHANGED flood, life' = life,
           \A f \in Flights :
              /\ \/ request'[f] = request[f]
                 \/ /\ request'[f].pc \notin {"idle", "admit"} /\ request[f].pc # "idle"
                    /\ \A field \in {"key", "window", "at", "life"} : request'[f][field] = request[f][field]
                    /\ Passed(f)' => Passed(f)
                 \/ request[f].pc = "idle" /\ ~Passed(f)'
    PROVE  FloodInv'
  <1>1. \A f \in Flights : Passed(f)' =>
           /\ Passed(f) /\ request'[f].key = request[f].key /\ request'[f].window = request[f].window
           /\ request'[f].at = request[f].at /\ request'[f].life = request[f].life
    BY DEF Passed, Exempt
  <1>2. \A g, h \in Flights : Passed(g)' /\ Pruned(h, g) => Pruned(h, g)'
    BY <1>1 DEF Pruned, Exempt
  <1>3. \A g \in Flights : SlotStands(g)'
    BY <1>1, <1>2 DEF FloodInv, SlotStands
  <1>4. \A f, g \in Flights : OneOpens(f, g)'
    BY <1>1, <1>2 DEF FloodInv, OneOpens, Repeats, InWindow
  <1>. QED BY <1>3, <1>4 DEF FloodInv

\* A request goes through the mutex.
LEMMA AdmitKeeps ==
    ASSUME FloodInv, NEW f \in Flights, Admit(f)
    PROVE  FloodInv'
  <1>. DEFINE r == request[f]
              held == Kept(r.at, r.window)
  <1>0. /\ r.pc = "admit" /\ r.life = life /\ r.key \in Keys /\ r.at \in Nat /\ r.window \in Nat
        /\ r.window > 0 /\ ~Exempt(r) /\ life' = life /\ clock' = clock /\ config' = config
    BY PushAssumption DEF PushAssumption, Admit, FloodInv, FloodTypeOK, LifeHolds, PushRequests, Exempt
  <1>1. /\ DOMAIN held \subseteq DOMAIN flood
        /\ \A k \in DOMAIN held : held[k] = flood[k] /\ r.at - flood[k].sentAt < r.window
        /\ \A k \in DOMAIN flood \ DOMAIN held : r.at - flood[k].sentAt >= r.window
        /\ held = [k \in DOMAIN held |-> held[k]]
    BY <1>0 DEF Kept, StillOpen, FloodInv, FloodTypeOK, Slots
  <1>2. /\ request' = [request EXCEPT ![f].pc = "coalesced"] \/ request' = [request EXCEPT ![f].pc = "insert"]
        /\ r.key \in DOMAIN flood'
        /\ DOMAIN flood' = DOMAIN held \cup {r.key}
        /\ \A k \in DOMAIN held : k # r.key => flood'[k] = flood[k]
        /\ r.key \in DOMAIN held => flood'[r.key].sentAt = flood[r.key].sentAt
        /\ r.key \notin DOMAIN held => flood'[r.key].sentAt = r.at
        /\ request' = [request EXCEPT ![f].pc = "insert"] => r.key \notin DOMAIN held
    <2>. HIDE DEF held
    <2>1. CASE /\ r.key \in DOMAIN held
               /\ flood' = [held EXCEPT ![r.key].suppressed = @ + 1]
               /\ request' = [request EXCEPT ![f].pc = "coalesced"]
      <3>1. request' # [request EXCEPT ![f].pc = "insert"]
        BY <2>1 DEF FloodInv, FloodTypeOK, PushRequests
      <3>2. held[r.key] \in Slots
        BY <1>1, <2>1 DEF FloodInv, FloodTypeOK
      <3>. QED BY <1>1, <2>1, <3>1, <3>2 DEF Slots
    <2>2. CASE /\ r.key \notin DOMAIN held
               /\ flood' = [k \in DOMAIN held \cup {r.key} |->
                               IF k = r.key THEN [sentAt |-> r.at, suppressed |-> 0] ELSE held[k]]
               /\ request' = [request EXCEPT ![f].pc = "insert"]
      BY <1>1, <2>2
    <2>. QED BY <2>1, <2>2 DEF Admit, held
  <1>3. FloodTypeOK'
    <2>1. request' \in [Flights -> PushRequests]
      BY <1>2 DEF FloodInv, FloodTypeOK, PushRequests
    <2>2. DOMAIN flood' \subseteq Keys
      BY <1>0, <1>1, <1>2 DEF FloodInv, FloodTypeOK
    <2>3. flood' = [k \in DOMAIN flood' |-> flood'[k]] /\ \A k \in DOMAIN flood' : flood'[k] \in Slots
      <3>0. \A k \in DOMAIN held : held[k] \in Slots
        BY <1>1 DEF FloodInv, FloodTypeOK
      <3>. HIDE DEF held
      <3>1. CASE r.key \in DOMAIN held /\ flood' = [held EXCEPT ![r.key].suppressed = @ + 1]
        <4>1. flood' = [k \in DOMAIN held |->
                           IF k = r.key THEN [held[k] EXCEPT !.suppressed = @ + 1] ELSE held[k]]
          BY <1>1, <3>1
        <4>2. [held[r.key] EXCEPT !.suppressed = @ + 1] \in Slots
          BY <3>0, <3>1 DEF Slots
        <4>. HIDE DEF r
        <4>. QED BY <3>0, <4>1, <4>2
      <3>2. CASE flood' = [k \in DOMAIN held \cup {r.key} |->
                               IF k = r.key THEN [sentAt |-> r.at, suppressed |-> 0] ELSE held[k]]
        BY <1>0, <3>0, <3>2 DEF Slots
      <3>. QED BY <3>1, <3>2 DEF Admit, held
    <2>. QED BY <1>0, <2>1, <2>2, <2>3 DEF FloodInv, FloodTypeOK
  <1>. HIDE DEF held
  <1>4. \A g \in Flights : g # f => request'[g] = request[g]
    BY <1>2 DEF FloodInv, FloodTypeOK
  <1>5. /\ request'[f].key = r.key /\ request'[f].at = r.at /\ request'[f].window = r.window
        /\ request'[f].life = r.life /\ request'[f].pc \in {"coalesced", "insert"}
        /\ request'[f].pc = "insert" => r.key \notin DOMAIN held
    BY <1>2 DEF FloodInv, FloodTypeOK, PushRequests
  <1>6. LifeHolds'
    BY <1>0, <1>4, <1>5 DEF FloodInv, LifeHolds
  <1>7. \A g, h \in Flights : g # f /\ Pruned(h, g) => Pruned(h, g)'
    BY <1>0, <1>4, <1>5 DEF Pruned, Exempt
  <1>8. ASSUME NEW g \in Flights, g # f, Passed(g)', request'[g].life = life'
        PROVE  /\ \/ request[g].key \in DOMAIN flood' /\ flood'[request[g].key].sentAt >= request[g].at
                  \/ \E h \in Flights : Pruned(h, g)'
               /\ Repeats(f, g)' => \/ ~InWindow(f, g)' /\ ~InWindow(g, f)'
                                  \/ \E h \in Flights : Pruned(h, g)'
    <2>1. /\ Passed(g) /\ request[g].life = life /\ request[g].key \in Keys /\ request[g].at \in Nat
          /\ request[g].window \in Nat /\ request[g].window > 0
      BY <1>0, <1>4, <1>8, PushAssumption DEF PushAssumption, Passed, Exempt, FloodInv, FloodTypeOK, PushRequests
    <2>2. CASE \E h \in Flights : Pruned(h, g)
      BY <1>7, <1>8, <2>2
    <2>3. CASE request[g].key \in DOMAIN flood /\ flood[request[g].key].sentAt >= request[g].at
      <3>1. flood[request[g].key].sentAt \in Nat
        BY <2>3 DEF FloodInv, FloodTypeOK, Slots
      <3>2. CASE request[g].key \in DOMAIN held
        <4>1. request[g].key \in DOMAIN flood' /\ flood'[request[g].key].sentAt >= request[g].at
          BY <1>2, <2>3, <3>2
        <4>2. ~Repeats(f, g)'
          BY <1>4, <1>5, <1>8, <3>2 DEF Repeats, Passed
        <4>. QED BY <4>1, <4>2
      <3>3. CASE request[g].key \notin DOMAIN held
        <4>1. r.at - request[g].at >= r.window
          BY <1>0, <1>1, <2>1, <2>3, <3>1, <3>3
        <4>2. CASE request[g].key = r.key
          <5>1. flood'[r.key].sentAt = r.at /\ r.key \in DOMAIN flood'
            BY <1>2, <3>3, <4>2
          <5>2. ~InWindow(f, g)' /\ ~InWindow(g, f)'
            <6>1. /\ request'[f].at = r.at /\ request'[f].window = r.window
                  /\ request'[g].at = request[g].at /\ request'[g].window = request[g].window
              BY <1>4, <1>5, <1>8
            <6>. QED BY <1>0, <2>1, <4>1, <6>1 DEF InWindow
          <5>. QED BY <1>0, <2>1, <4>1, <4>2, <5>1, <5>2
        <4>3. CASE request[g].key # r.key
          <5>1. Pruned(f, g)'
            BY <1>0, <1>4, <1>5, <1>8, <2>1, <4>1, <4>3 DEF Pruned, Exempt
          <5>. QED BY <5>1
        <4>. QED BY <4>2, <4>3
      <3>. QED BY <3>2, <3>3
    <2>. QED BY <2>1, <2>2, <2>3 DEF FloodInv, SlotStands
  <1>9. \A g \in Flights : SlotStands(g)'
    <2>1. SlotStands(f)'
      <3>. SUFFICES ASSUME Passed(f)'
                    PROVE r.key \in DOMAIN flood' /\ flood'[r.key].sentAt >= r.at
        BY <1>5 DEF SlotStands
      <3>1. r.key \notin DOMAIN held
        BY <1>5 DEF Passed
      <3>. QED BY <1>0, <1>2, <3>1
    <2>2. \A g \in Flights : g # f => SlotStands(g)'
      BY <1>4, <1>8 DEF SlotStands
    <2>. QED BY <2>1, <2>2
  <1>10. ASSUME NEW g \in Flights, NEW h \in Flights, Repeats(g, h)', InWindow(g, h)'
         PROVE  \E x \in Flights : Pruned(x, g)' \/ Pruned(x, h)'
    <2>1. CASE g = f
      <3>1. Passed(h)' /\ request'[h].life = life' /\ h # f
        BY <1>0, <1>5, <1>10, <2>1 DEF Repeats
      <3>. QED BY <1>8, <1>10, <2>1, <3>1
    <2>2. CASE h = f
      <3>1. Passed(g)' /\ request'[g].life = life' /\ g # f /\ Repeats(f, g)'
        BY <1>0, <1>5, <1>10, <2>2 DEF Repeats
      <3>. QED BY <1>8, <1>10, <2>2, <3>1
    <2>3. CASE g # f /\ h # f
      <3>1. Repeats(g, h) /\ InWindow(g, h)
        BY <1>4, <1>10, <2>3 DEF Repeats, Passed, InWindow, Exempt
      <3>. QED BY <1>7, <2>3, <3>1 DEF FloodInv, OneOpens
    <2>. QED BY <2>1, <2>2, <2>3
  <1>. QED BY <1>3, <1>6, <1>9, <1>10 DEF FloodInv, OneOpens

\* Every step of a request, of its row and of its flight keeps the windows and what was
\* sent in agreement.
LEMMA FloodInvStep == FloodInv /\ [PushNext]_pushedVars => FloodInv'
  <1>. SUFFICES ASSUME FloodInv, [PushNext]_pushedVars PROVE FloodInv'
    OBVIOUS
  <1>1. CASE Tick
    <2>1. FloodTypeOK' /\ LifeHolds'
      BY <1>1 DEF Tick, FloodInv, FloodTypeOK, LifeHolds
    <2>. QED BY <1>1, <2>1, RequestsGoOn DEF Tick
  <1>2. CASE Restart
    <2>1. /\ life' = life + 1 /\ life \in Nat /\ flood' = <<>> /\ UNCHANGED <<clock, config>>
          /\ request' = [f \in Flights |->
                IF request[f].pc \in {"admit", "insert"} THEN [request[f] EXCEPT !.pc = "gone"]
                ELSE request[f]]
      BY <1>2 DEF Restart, FloodInv, FloodTypeOK
    <2>2. \A f \in Flights : [request[f] EXCEPT !.pc = "gone"] \in PushRequests
      BY DEF FloodInv, FloodTypeOK, PushRequests
    <2>3. FloodTypeOK'
      <3>1. request' \in [Flights -> PushRequests]
        BY <2>1, <2>2 DEF FloodInv, FloodTypeOK
      <3>2. DOMAIN flood' = {} /\ flood' = [k \in DOMAIN flood' |-> flood'[k]]
        BY <2>1
      <3>. QED BY <2>1, <3>1, <3>2 DEF FloodInv, FloodTypeOK
    <2>4. \A f \in Flights :
             /\ request'[f].pc = IF request[f].pc \in {"admit", "insert"} THEN "gone" ELSE request[f].pc
             /\ request'[f].key = request[f].key /\ request'[f].window = request[f].window
             /\ request'[f].at = request[f].at /\ request'[f].life = request[f].life
      BY <2>1 DEF FloodInv, FloodTypeOK, PushRequests
    <2>5. LifeHolds' /\ \A f \in Flights : request'[f].life # life'
      <3>1. \A f \in Flights : request[f].life \in Nat /\ request[f].life <= life
        BY DEF FloodInv, FloodTypeOK, LifeHolds, PushRequests
      <3>2. \A f \in Flights : request'[f].life <= life' /\ request'[f].life # life'
        BY <2>1, <2>4, <3>1
      <3>. QED BY <2>4, <3>2 DEF LifeHolds
    <2>6. \A f \in Flights : Passed(f)' => Passed(f)
      BY <2>4 DEF Passed, Exempt
    <2>7. \A g, h \in Flights : Pruned(h, g) => Pruned(h, g)'
      BY <2>4 DEF Pruned, Exempt
    <2>8. \A g \in Flights : SlotStands(g)'
      BY <2>5 DEF SlotStands
    <2>9. \A f, g \in Flights : OneOpens(f, g)'
      BY <2>4, <2>6, <2>7 DEF FloodInv, OneOpens, Repeats, InWindow
    <2>. QED BY <2>3, <2>5, <2>8, <2>9 DEF FloodInv
  <1>3. ASSUME NEW d \in Dispatchers, NEW c \in Configured, Reload(d, c) PROVE FloodInv'
    <2>1. FloodTypeOK' /\ LifeHolds'
      BY <1>3 DEF Reload, FloodInv, FloodTypeOK, LifeHolds
    <2>. QED BY <1>3, <2>1, RequestsGoOn DEF Reload
  <1>4. ASSUME NEW f \in Flights, NEW k \in Keys \cup {NoKey}, Receive(f, k) PROVE FloodInv'
    <2>1. /\ request'[f] = [pc |-> "admit", key |-> k, window |-> config.window,
                            notify |-> config.notify, at |-> clock, life |-> life]
          /\ \A g \in Flights : g # f => request'[g] = request[g]
          /\ request[f].pc = "idle"
      BY <1>4 DEF Receive, FloodInv, FloodTypeOK
    <2>2. config.window \in Nat /\ config.notify \in SUBSET Channels
      BY PushAssumption DEF PushAssumption, FloodInv, FloodTypeOK, Configured
    <2>3. request' \in [Flights -> PushRequests]
      <3>1. request'[f] \in PushRequests
        BY <2>1, <2>2 DEF PushRequests, FloodInv, FloodTypeOK
      <3>2. request' = [request EXCEPT ![f] = request'[f]]
        BY <1>4, <2>1 DEF Receive
      <3>. QED BY <3>1, <3>2 DEF FloodInv, FloodTypeOK
    <2>4. FloodTypeOK' /\ LifeHolds'
      BY <1>4, <2>1, <2>3 DEF Receive, FloodInv, FloodTypeOK, LifeHolds
    <2>5. ~Passed(f)'
      BY <2>1 DEF Passed
    <2>. QED BY <1>4, <2>1, <2>4, <2>5, RequestsGoOn DEF Receive
  <1>5. ASSUME NEW f \in Flights, AdmitAlways(f) \/ Insert(f) \/ InsertFails(f) \/ HangUp(f)
        PROVE  FloodInv'
    <2>1. PICK next \in {"insert", "dispatched", "error", "gone"} :
             /\ request' = [request EXCEPT ![f].pc = next]
             /\ request[f].pc = "insert" \/ (request[f].pc = "admit" /\ Exempt(request[f]))
      BY <1>5 DEF AdmitAlways, Insert, InsertFails, HangUp
    <2>2. UNCHANGED <<flood, life, clock, config>>
      BY <1>5 DEF AdmitAlways, Insert, InsertFails, HangUp
    <2>3. /\ \A g \in Flights : g # f => request'[g] = request[g]
          /\ request'[f] = [request[f] EXCEPT !.pc = next]
          /\ request' \in [Flights -> PushRequests]
      BY <2>1 DEF FloodInv, FloodTypeOK, PushRequests
    <2>4. FloodTypeOK'
      BY <2>2, <2>3 DEF FloodInv, FloodTypeOK
    <2>5. /\ request'[f].key = request[f].key /\ request'[f].window = request[f].window
          /\ request'[f].at = request[f].at /\ request'[f].life = request[f].life
          /\ request'[f].pc = next
      BY <2>3 DEF FloodInv, FloodTypeOK, PushRequests
    <2>6. LifeHolds'
      BY <2>1, <2>2, <2>3, <2>5 DEF FloodInv, LifeHolds
    <2>7. Passed(f)' => Passed(f)
      BY <2>1, <2>5 DEF Passed, Exempt
    <2>. QED BY <2>1, <2>2, <2>3, <2>4, <2>5, <2>6, <2>7, RequestsGoOn
  <1>6. ASSUME NEW f \in Flights, Admit(f) PROVE FloodInv'
    BY <1>6, AdmitKeeps
  <1>7. ASSUME NEW f \in Flights, StartDispatch(f) \/ Fly(f) PROVE FloodInv'
    <2>1. UNCHANGED <<flood, life, clock, config, request>>
      BY <1>7 DEF StartDispatch, Fly, pushVars
    <2>2. FloodTypeOK' /\ LifeHolds'
      BY <2>1 DEF FloodInv, FloodTypeOK, LifeHolds
    <2>. QED BY <2>1, <2>2, RequestsGoOn
  <1>8. CASE UNCHANGED pushedVars
    <2>1. FloodTypeOK' /\ LifeHolds'
      BY <1>8 DEF pushedVars, pushVars, FloodInv, FloodTypeOK, LifeHolds
    <2>. QED BY <1>8, <2>1, RequestsGoOn DEF pushedVars, pushVars
  <1>. QED BY <1>1, <1>2, <1>3, <1>4, <1>5, <1>6, <1>7, <1>8 DEF PushNext, Handle

\* The slot of a key stands until another key's request prunes it, whatever the
\* keys, windows, requests and their order at the mutex.
THEOREM FloodInvariant == PushSpec => []FloodInv
  BY FloodInvInit, FloodInvStep, PTL DEF PushSpec

\* Repeats of one key within its window page once: the exceptions are a restart,
\* a shorter window, and a later request of another key.
THEOREM RepeatsPageOnce == PushSpec => []OnePerWindow
  <1>1. FloodInv => OnePerWindow
    BY DEF FloodInv, OneOpens, Repeats, Passed, Sent, OnePerWindow
  <1>. QED BY <1>1, FloodInvariant, PTL

---------------------------------------------------------------------------
(* Compaction.  The invariant says what the two locks buy: whoever has the *)
(* database open has the file at the path open, nobody does while          *)
(* compaction is alone, so the copy, once made, holds what the database    *)
(* holds.                                                                  *)

Alone == {"alone", "retention", "swap", "copy", "close", "keep", "replace", "sidecars"}
Opened == {"retention", "swap", "copy", "close"}
Copied == {"close", "keep", "replace"}

\* Who holds which lock, and which file everyone has open.
LocksHold ==
    /\ Compacting => ~Running("daemon")
    /\ ck \in Alone => \A c \in Commands : ~Running(c)
    /\ \A p \in Writers : conn[p] = (IF pc[p] = "open" THEN db ELSE 0)
    /\ \A p \in Writers : pc[p] = "open" => db # 0
    /\ ckconn = (IF ck \in Opened THEN db ELSE 0)
    /\ ck \in Opened => db # 0

\* What is in the WAL belongs to the file at the path; there is none left when
\* the files are renamed.
WalHolds ==
    /\ wal \in {0, db}
    /\ wal = 0 => frames = {}
    /\ db = 0 => rows = {}
    /\ ck \in {"keep", "replace", "sidecars"} => wal = 0
    /\ ck = "close" => frames = {}

\* The copy holds what it will replace, and --keep has nothing in its way.
CopyHolds ==
    /\ ck \in {"copy", "close", "keep", "replace"} => tmp # 0
    /\ ck \in Copied => copy = (IF BetweenRenames THEN kept ELSE rows)
    /\ ck = "keep" => keep
    /\ ck \in {"copy", "close", "keep"} /\ keep => bak = 0
    /\ BetweenRenames => db = 0 /\ bak # 0 /\ ~split /\ acked \subseteq kept
    /\ ck \in {"keep", "sidecars"} \/ (ck = "replace" /\ ~keep) => db # 0
    /\ bak = 0 => kept = {}
    /\ split => bak # 0

CompactionInv ==
    CompactionTypeOK /\ LocksHold /\ WalHolds /\ CopyHolds /\ CommitsSurvive /\ OriginalStays

\* The invariant holds before anything has run.
LEMMA CompactionInvInit == CompactionInit => CompactionInv
  <1> USE CompactionAssumption
  <1> USE DEF CompactionInv, CompactionTypeOK, LocksHold, WalHolds, CopyHolds, CommitsSurvive,
              OriginalStays, Logical, BetweenRenames, Compacting, Running, Alone, Opened, Copied,
              Writers, HoldsWriters, bystander, fileVars, procVars, ckVars, counters
  <1> SUFFICES ASSUME CompactionInit PROVE CompactionInv
    OBVIOUS
  <1>1. CompactionTypeOK
    <2>1. split \in BOOLEAN /\ keep \in BOOLEAN
      BY DEF CompactionInit
    <2>2. {rows, frames, copy, kept, acked} \subseteq SUBSET (1 .. MaxCommits)
      BY DEF CompactionInit
    <2>3. {db, wal, tmp, bak, ckconn, files, runs, faults} \subseteq Nat
      BY DEF CompactionInit
    <2>4. QED BY <2>1, <2>2, <2>3 DEF CompactionInit
  <1>2. LocksHold /\ WalHolds /\ CopyHolds
    BY DEF CompactionInit
  <1>3. CommitsSurvive /\ OriginalStays
    BY DEF CompactionInit
  <1>4. QED BY <1>1, <1>2, <1>3

\* Every step keeps it, one proof step per action.
LEMMA CompactionInvStep == CompactionInv /\ [CompactionNext]_compactionVars => CompactionInv'
  <1> USE CompactionAssumption
  <1> USE DEF CompactionInv, CompactionTypeOK, LocksHold, WalHolds, CopyHolds, CommitsSurvive,
              OriginalStays, Logical, BetweenRenames, Compacting, Running, Alone, Opened, Copied,
              Writers, HoldsWriters, bystander, fileVars, procVars, ckVars, counters
  <1> SUFFICES ASSUME CompactionInv, [CompactionNext]_compactionVars PROVE CompactionInv'
    OBVIOUS
  <1>1. CASE Serve
    BY <1>1 DEF Serve
  <1>2. CASE AutoCheckpoint
    BY <1>2 DEF AutoCheckpoint, Checkpoint
  <1>3. CASE DeleteBackup
    BY <1>3 DEF DeleteBackup
  <1>4. ASSUME NEW c \in Commands, Find(c) PROVE CompactionInv'
    BY <1>4 DEF Find
  <1>5. ASSUME NEW c \in Commands, Share(c) PROVE CompactionInv'
    BY <1>5 DEF Share, SharedFree
  <1>6. ASSUME NEW p \in Writers, Open(p) PROVE CompactionInv'
    BY <1>6 DEF Open, Connect
  <1>7. ASSUME NEW p \in Writers, Write(p) PROVE CompactionInv'
    <2>a. conn[p] = db /\ db # 0
      BY <1>7 DEF Write
    <2>b. wal' = db /\ UNCHANGED <<db, rows, kept, split, ck, keep>>
      BY <1>7, <2>a DEF Write, Commit
    <2>c. PICK n \in 1 .. MaxCommits : acked' = acked \cup {n} /\ frames' = frames \cup {n}
      BY <1>7, <2>a DEF Write, Commit
    <2>1. CompactionTypeOK'
      BY <1>7 DEF Write, Commit
    <2>2. LocksHold'
      BY <1>7 DEF Write, Commit
    <2>3. WalHolds'
      BY <1>7 DEF Write, Commit
    <2>4. CopyHolds'
      BY <1>7 DEF Write, Commit
    <2>5. CommitsSurvive'
      BY <2>a, <2>b, <2>c
    <2>6. OriginalStays'
      BY <1>7, <2>a, <2>b, <2>c DEF Write
    <2>7. QED BY <2>1, <2>2, <2>3, <2>4, <2>5, <2>6
  <1>8. ASSUME NEW p \in Writers, Exit(p) PROVE CompactionInv'
    <2>a. conn[p] = db /\ db # 0
      BY <1>8 DEF Exit
    <2>b. \/ UNCHANGED <<rows, frames, wal>>
          \/ /\ frames' = {} /\ wal' = 0
             /\ rows' = IF wal = db THEN rows \cup frames ELSE rows
      BY <1>8, <2>a DEF Exit, Close, Checkpoint
    <2>c. ck \notin Alone
      BY <1>8 DEF Exit
    <2>1. CompactionTypeOK'
      BY <1>8, <2>b DEF Exit, Leave
    <2>2. LocksHold'
      BY <1>8, <2>b DEF Exit, Leave
    <2>3. WalHolds'
      BY <1>8, <2>a, <2>b, <2>c DEF Exit, Leave
    <2>4. CopyHolds'
      BY <1>8, <2>a, <2>b, <2>c DEF Exit, Leave
    <2>5. CommitsSurvive'
      BY <1>8, <2>a, <2>b, <2>c DEF Exit, Leave
    <2>6. OriginalStays'
      BY <1>8, <2>a, <2>b, <2>c DEF Exit, Leave
    <2>7. QED BY <2>1, <2>2, <2>3, <2>4, <2>5, <2>6
  <1>9. ASSUME NEW p \in Writers, Die(p) PROVE CompactionInv'
    BY <1>9 DEF Die, Leave, Fault
  <1>10. CASE Compact
    BY <1>10 DEF Compact
  <1>11. CASE Exclude
    <2>1. CompactionTypeOK'
      BY <1>11 DEF Exclude, Goto, Give, ExclusiveFree
    <2>2. LocksHold'
      BY <1>11 DEF Exclude, Goto, Give, ExclusiveFree
    <2>3. (WalHolds /\ CopyHolds)'
      BY <1>11 DEF Exclude, Goto, Give, ExclusiveFree
    <2>4. (CommitsSurvive /\ OriginalStays)'
      BY <1>11 DEF Exclude, Goto, Give, ExclusiveFree
    <2>5. QED BY <2>1, <2>2, <2>3, <2>4
  <1>12. CASE OpenAlone
    BY <1>12 DEF OpenAlone, Goto, Give
  <1>13. CASE Retain
    BY <1>13 DEF Retain, Goto, Commit
  <1>14. CASE Prepare
    <2>1. CompactionTypeOK'
      <3>1. ({db, wal, tmp, bak, ckconn, files, runs, faults} \subseteq Nat)'
        BY <1>14 DEF Prepare, Goto, Give, Close, Checkpoint, BackupInTheWay
      <3>2. ({rows, frames, copy, kept, acked} \subseteq SUBSET (1 .. MaxCommits))'
        BY <1>14 DEF Prepare, Goto, Give, Close, Checkpoint, BackupInTheWay
      <3>3. (pc \in [Writers -> {"idle", "found", "locked", "open"}] /\ conn \in [Writers -> Nat])'
        BY <1>14 DEF Prepare, Goto, Give, Close, Checkpoint, BackupInTheWay
      <3>4. (split \in BOOLEAN)'
        BY <1>14 DEF Prepare
      <3>5. (keep \in BOOLEAN /\ ck \in Alone \cup {"idle", "locked"})'
        BY <1>14 DEF Prepare, Goto, Give, Close, Checkpoint, BackupInTheWay
      <3>6. QED BY <3>1, <3>2, <3>3, <3>4, <3>5
    <2>2. LocksHold'
      BY <1>14 DEF Prepare, Goto, Give, Close, Checkpoint, BackupInTheWay
    <2>3. WalHolds'
      BY <1>14 DEF Prepare, Goto, Give, Close, Checkpoint, BackupInTheWay
    <2>4. CopyHolds'
      BY <1>14 DEF Prepare, Goto, Give, Close, Checkpoint, BackupInTheWay
    <2>5. CommitsSurvive'
      BY <1>14 DEF Prepare, Goto, Give, Close, Checkpoint, BackupInTheWay
    <2>6. OriginalStays'
      BY <1>14 DEF Prepare, Goto, Give, Close, Checkpoint, BackupInTheWay
    <2>7. QED BY <2>1, <2>2, <2>3, <2>4, <2>5, <2>6
  <1>15. CASE Copy
    <2>a. ckconn = db /\ db # 0 /\ copy' = rows' /\ frames' = {}
      BY <1>15 DEF Copy, Checkpoint
    <2>b. rows' = IF wal = db THEN rows \cup frames ELSE rows
      BY <1>15, <2>a DEF Copy, Checkpoint
    <2>1. CompactionTypeOK'
      BY <1>15, <2>a, <2>b DEF Copy, Goto
    <2>2. (LocksHold /\ WalHolds)'
      BY <1>15, <2>a, <2>b DEF Copy, Goto
    <2>3. CopyHolds'
      BY <1>15, <2>a, <2>b DEF Copy, Goto
    <2>4. (CommitsSurvive /\ OriginalStays)'
      BY <1>15, <2>a, <2>b DEF Copy, Goto
    <2>5. QED BY <2>1, <2>2, <2>3, <2>4
  <1>16. CASE CloseStore
    BY <1>16 DEF CloseStore, Goto, Close, Checkpoint
  <1>17. CASE Keep
    BY <1>17 DEF Keep, Goto
  <1>18. CASE Replace
    BY <1>18 DEF Replace, Goto
  <1>19. CASE RemoveSidecars
    <2>1. CompactionTypeOK'
      BY <1>19 DEF RemoveSidecars, Give
    <2>2. LocksHold'
      BY <1>19 DEF RemoveSidecars, Give
    <2>3. (WalHolds /\ CopyHolds)'
      BY <1>19 DEF RemoveSidecars, Give
    <2>4. (CommitsSurvive /\ OriginalStays)'
      BY <1>19 DEF RemoveSidecars, Give
    <2>5. QED BY <2>1, <2>2, <2>3, <2>4
  <1>20. CASE Fail
    <2>a. split' \in BOOLEAN /\ (split' = TRUE \/ split' = split)
      BY <1>20 DEF Fail
    <2>1. CompactionTypeOK'
      <3>1. ({db, wal, tmp, bak, ckconn, files, runs, faults} \subseteq Nat)'
        BY <1>20 DEF Fail, Fault, Give, Close, Checkpoint, BetweenRenames
      <3>2. ({rows, frames, copy, kept, acked} \subseteq SUBSET (1 .. MaxCommits))'
        BY <1>20 DEF Fail, Fault, Give, Close, Checkpoint, BetweenRenames
      <3>3. (pc \in [Writers -> {"idle", "found", "locked", "open"}] /\ conn \in [Writers -> Nat])'
        BY <1>20 DEF Fail, Fault, Give, Close, Checkpoint, BetweenRenames
      <3>4. (split \in BOOLEAN)'
        BY <1>20, <2>a DEF Fail
      <3>5. (keep \in BOOLEAN /\ ck \in Alone \cup {"idle", "locked"})'
        BY <1>20 DEF Fail, Fault, Give, Close, Checkpoint, BetweenRenames
      <3>6. QED BY <3>1, <3>2, <3>3, <3>4, <3>5
    <2>2. LocksHold'
      BY <1>20 DEF Fail, Fault, Give, Close, Checkpoint, BetweenRenames
    <2>3. WalHolds'
      BY <1>20 DEF Fail, Fault, Give, Close, Checkpoint, BetweenRenames
    <2>4. CopyHolds'
      BY <1>20 DEF Fail, Fault, Give, Close, Checkpoint, BetweenRenames
    <2>5. CommitsSurvive'
      BY <1>20 DEF Fail, Fault, Give, Close, Checkpoint, BetweenRenames
    <2>6. OriginalStays'
      BY <1>20 DEF Fail, Fault, Give, Close, Checkpoint, BetweenRenames
    <2>7. QED BY <2>1, <2>2, <2>3, <2>4, <2>5, <2>6
  <1>21. CASE Killed
    <2>a. split' \in BOOLEAN /\ (split' = TRUE \/ split' = split)
      BY <1>21 DEF Killed
    <2>1. CompactionTypeOK'
      <3>1. ({db, wal, tmp, bak, ckconn, files, runs, faults} \subseteq Nat)'
        BY <1>21 DEF Killed, Fault, Give
      <3>2. ({rows, frames, copy, kept, acked} \subseteq SUBSET (1 .. MaxCommits))'
        BY <1>21 DEF Killed, Fault, Give
      <3>3. (pc \in [Writers -> {"idle", "found", "locked", "open"}] /\ conn \in [Writers -> Nat])'
        BY <1>21 DEF Killed, Fault, Give
      <3>4. (split \in BOOLEAN)'
        BY <1>21, <2>a DEF Killed
      <3>5. (keep \in BOOLEAN /\ ck \in Alone \cup {"idle", "locked"})'
        BY <1>21 DEF Killed, Fault, Give
      <3>6. QED BY <3>1, <3>2, <3>3, <3>4, <3>5
    <2>2. LocksHold'
      BY <1>21 DEF Killed, Fault, Give
    <2>3. WalHolds'
      BY <1>21 DEF Killed, Fault, Give
    <2>4. CopyHolds'
      BY <1>21 DEF Killed, Fault, Give
    <2>5. CommitsSurvive'
      BY <1>21 DEF Killed, Fault, Give
    <2>6. OriginalStays'
      BY <1>21 DEF Killed, Fault, Give
    <2>7. QED BY <2>1, <2>2, <2>3, <2>4, <2>5, <2>6
  <1>22. CASE UNCHANGED compactionVars
    BY <1>22 DEF compactionVars
  <1>23. QED
    BY <1>1, <1>2, <1>3, <1>4, <1>5, <1>6, <1>7, <1>8, <1>9, <1>10, <1>11, <1>12,
         <1>13, <1>14, <1>15, <1>16, <1>17, <1>18, <1>19, <1>20, <1>21, <1>22 DEF
         CompactionNext, CompactNext, Process

\* The inductive invariant: the locks keep everyone else out of a rewrite, and the
\* copy that replaces the original holds what the original holds.
THEOREM CompactionInvariant == CompactionSpec => []CompactionInv
  BY CompactionInvInit, CompactionInvStep, PTL DEF CompactionSpec

\* Nothing acknowledged is ever lost, whoever dies and whatever step fails.
THEOREM EveryCommitSurvives == CompactionSpec => []CommitsSurvive
  <1>1. CompactionInv => CommitsSurvive
    BY DEF CompactionInv
  <1>2. QED BY <1>1, CompactionInvariant, PTL

\* Without --keep the database is complete at its path at every moment; with it,
\* but between the two renames and after a compaction that ended there.
THEOREM OriginalStaysInPlace == CompactionSpec => []OriginalStays
  <1>1. CompactionInv => OriginalStays
    BY DEF CompactionInv
  <1>2. QED BY <1>1, CompactionInvariant, PTL

\* No WAL sits beside a file it was not written for.
THEOREM WalFollowsItsFile == CompactionSpec => []WalIsOfItsFile
  <1>1. CompactionInv => WalIsOfItsFile
    BY DEF CompactionInv, LocksHold, WalHolds, WalIsOfItsFile, Opened
  <1>2. QED BY <1>1, CompactionInvariant, PTL

---------------------------------------------------------------------------
(* The exec probe *)

ExecTypeOK ==
    /\ plugin \in Plugins
    /\ child \in {"none", "running", "exited", "reaped"}
    /\ helper \in Helpers \cup {"dead"}
    /\ unwritten \in Nat /\ pipe \in Nat /\ left \in Nat
    /\ probe \in {"resolve", "run", "grace", "expired", "done"}
    /\ drained \in BOOLEAN /\ armed \in BOOLEAN
    /\ verdict \in {"none", "up", "degraded", "down", "timed_out", "dropped"}

\* The group is killed while its id is held, and only then: from the spawn to
\* the end of the probe, or of the plugin's time.
GroupIsHeld ==
    /\ probe = "resolve" => child = "none" /\ helper = "none"
    /\ probe = "resolve" => ~drained
    /\ probe \in {"run", "grace"} => armed
    /\ probe = "run" => child \in {"running", "exited"}
    /\ probe = "grace" => child = "reaped"
    /\ probe = "expired" => child = "exited" /\ helper \in {"none", "dead"}

\* The end of the output is seen once nobody holds the pipes.
EndIsSeen == drained => child # "running" /\ helper # "holding"

\* The plugin's time runs out only on one that would never end.
TimeIsEnough ==
    /\ probe = "run" /\ child = "running" => left > 0 \/ plugin.hangs
    /\ probe = "expired" => plugin.hangs

ExecInv ==
    ExecTypeOK /\ GroupIsHeld /\ EndIsSeen /\ TimeIsEnough /\ NothingIsLeftRunning /\ VerdictIsTheExit

\* The sizes and durations of a plugin are numbers.
LEMMA ExecConstants ==
    /\ MaxOutput \in Nat /\ OutputGrace \in Nat
    /\ PipeSize \in Nat \ {0} /\ PluginTimeout \in Nat \ {0}
  BY ExecAssumption DEF ExecAssumption

LEMMA ExecInvInit == ExecInit => ExecInv
  <1>. SUFFICES ASSUME ExecInit PROVE ExecInv
    OBVIOUS
  <1>1. ExecTypeOK
    BY DEF ExecInit, ExecTypeOK, Helpers
  <1>2. GroupIsHeld /\ EndIsSeen /\ TimeIsEnough /\ NothingIsLeftRunning /\ VerdictIsTheExit
    BY DEF ExecInit, GroupIsHeld, EndIsSeen, TimeIsEnough, NothingIsLeftRunning, VerdictIsTheExit
  <1>. QED BY <1>1, <1>2 DEF ExecInv

\* One proof step per action of the child, its helper and the probe.
LEMMA ExecInvStep == ExecInv /\ [ExecNext]_execVars => ExecInv'
  <1>. SUFFICES ASSUME ExecInv, [ExecNext]_execVars PROVE ExecInv'
    OBVIOUS
  <1>. USE ExecConstants DEF ExecInv, ExecTypeOK, GroupIsHeld, EndIsSeen, TimeIsEnough,
         NothingIsLeftRunning, VerdictIsTheExit, Helpers
  <1>1. CASE Writes
    BY <1>1 DEF Writes
  <1>2. CASE Exits
    BY <1>2 DEF Exits
  <1>3. CASE HelperEnds
    BY <1>3 DEF HelperEnds
  <1>4. CASE Spawn
    <2>1. plugin.output \in Nat /\ plugin.helper \in Helpers
      BY DEF Plugins
    <2>2. ExecTypeOK'
      BY <1>4, <2>1 DEF Spawn, Conclude
    <2>3. (GroupIsHeld /\ EndIsSeen /\ NothingIsLeftRunning)'
      BY <1>4 DEF Spawn, Conclude
    <2>4. (TimeIsEnough /\ VerdictIsTheExit)'
      BY <1>4 DEF Spawn, Conclude
    <2>. QED BY <2>2, <2>3, <2>4
  <1>5. CASE Reads
    BY <1>5 DEF Reads, ReadsNow
  <1>6. CASE EndOfOutput
    BY <1>6 DEF EndOfOutput, AtEof, HoldsPipe
  <1>7. CASE Waited
    BY <1>7 DEF Waited, Report, Conclude, OutcomeFor
  <1>8. CASE WaitFails
    BY <1>8 DEF WaitFails, Conclude, KilledGroup
  <1>9. CASE Drains
    BY <1>9 DEF Drains, Report, Conclude, OutcomeFor, AtEof, HoldsPipe
  <1>10. CASE GraceOver
    BY <1>10 DEF GraceOver, Report, Conclude, OutcomeFor, KilledGroup
  <1>11. CASE TimeUp
    <2>1. plugin.hangs
      BY <1>11 DEF TimeUp
    <2>. QED BY <1>11, <2>1 DEF TimeUp, KilledGroup
  <1>12. CASE KillWaits
    BY <1>12 DEF KillWaits, Conclude
  <1>13. CASE Drop
    BY <1>13 DEF Drop, Conclude, KilledGroup
  <1>14. CASE ProbeWaits
    BY <1>14 DEF ProbeWaits, Prompt, ReadsNow, AtEof, HoldsPipe
  <1>15. CASE UNCHANGED execVars
    BY <1>15 DEF execVars
  <1>. QED BY <1>1, <1>2, <1>3, <1>4, <1>5, <1>6, <1>7, <1>8, <1>9, <1>10, <1>11, <1>12,
              <1>13, <1>14, <1>15 DEF ExecNext

\* The group of a plugin is held from its spawn to the end of its probe, and its
\* time is enough unless it hangs.
THEOREM ExecInvariant == ExecSpec => []ExecInv
  BY ExecInvInit, ExecInvStep, PTL DEF ExecSpec

\* Nothing a plugin started is left running once its probe is over, for any pipe,
\* output and time.
THEOREM NothingOutlivesItsProbe == ExecSpec => []NothingIsLeftRunning
  <1>1. ExecInv => NothingIsLeftRunning
    BY DEF ExecInv
  <1>. QED BY <1>1, ExecInvariant, PTL

\* A plugin that ends by itself is judged by its exit code, however much it says.
THEOREM ChattyIsNotLate == ExecSpec => []VerdictIsTheExit
  <1>1. ExecInv => VerdictIsTheExit
    BY DEF ExecInv
  <1>. QED BY <1>1, ExecInvariant, PTL

---------------------------------------------------------------------------
(* The question to the peers *)

Seen == {"up", "down", "silent"}

Requests ==
    [at : {"idle", "probing", "answering", "gone"}, ran : Nat,
     answer : {"none", "up", "down", "not_watched"}, saw : SUBSET Seen]

ConfirmTypeOK ==
    /\ vantage \in [Asked -> Seen]
    /\ watched \subseteq Asked /\ enabled \in BOOLEAN
    /\ question \in {"due", "out", "answered"}
    /\ remains \in Nat
    /\ responder \in [Asked -> Requests]
    /\ answers \in [Asked -> {"pending", "up", "down", "not_watched", "unknown"}]

\* What p is to answer is what its probe saw, and p probes what it watches.
AnswerIsSeen(p) ==
    /\ responder[p].at \in {"idle", "probing"} => responder[p].answer = "none"
    /\ responder[p].at = "answering" => responder[p].answer # "none"
    /\ responder[p].at = "probing" => p \in watched /\ vantage[p] \in responder[p].saw
    /\ responder[p].answer = "up" => p \in watched /\ "up" \in responder[p].saw
    /\ responder[p].answer = "not_watched" => p \notin watched

\* What came back from p is what it answered.
AnswerIsTheirs(p) ==
    answers[p] \in {"up", "down", "not_watched"} =>
        responder[p].at = "gone" /\ responder[p].answer = answers[p]

\* The question is closed once everyone answered or was given up.
AllAnswered ==
    question = "answered" /\ enabled /\ Asked # {} => \A p \in Asked : answers[p] # "pending"

ConfirmInv ==
    /\ ConfirmTypeOK /\ AllAnswered
    /\ \A p \in Asked : AnswerIsSeen(p) /\ AnswerIsTheirs(p)

\* No request is under way before the question is asked.
LEMMA ConfirmInvInit == ConfirmInit => ConfirmInv
  BY ConfirmAssumption DEF ConfirmInit, ConfirmInv, ConfirmTypeOK, AllAnswered, AnswerIsSeen,
     AnswerIsTheirs, Idle, Seen, Requests

\* Every answer of a peer, and the wait for all of them, keeps what is known in
\* agreement with what was answered.
LEMMA ConfirmInvStep == ConfirmInv /\ [ConfirmNext]_confirmVars => ConfirmInv'
  <1>. SUFFICES ASSUME ConfirmInv, [ConfirmNext]_confirmVars PROVE ConfirmInv'
    OBVIOUS
  <1>. USE ConfirmAssumption DEF ConfirmAssumption, ConfirmInv, ConfirmTypeOK, AllAnswered,
         AnswerIsSeen, AnswerIsTheirs, Seen, Requests
  <1>1. CASE Ask
    BY <1>1 DEF Ask
  <1>2. CASE Joins
    BY <1>2 DEF Joins
  <1>3. CASE ConfirmWaits
    BY <1>3 DEF ConfirmWaits
  <1>4. ASSUME NEW p \in Asked, Arrives(p) PROVE ConfirmInv'
    <2>1. CASE p \in watched
      <3>1. responder' = [responder EXCEPT ![p] =
                            [@ EXCEPT !.at = "probing", !.saw = {vantage[p]}]]
        BY <1>4, <2>1 DEF Arrives
      <3>2. ConfirmTypeOK'
        <4>0. responder[p] \in Requests /\ {vantage[p]} \in SUBSET Seen
          BY DEF ConfirmTypeOK
        <4>1. [responder[p] EXCEPT !.at = "probing", !.saw = {vantage[p]}] \in Requests
          BY <4>0 DEF Requests
        <4>2. responder' \in [Asked -> Requests]
          BY <3>1, <4>1
        <4>. QED BY <1>4, <4>2 DEF Arrives
      <3>3. ASSUME NEW q \in Asked PROVE (AnswerIsSeen(q) /\ AnswerIsTheirs(q))'
        BY <1>4, <2>1, <3>1 DEF Arrives
      <3>4. AllAnswered'
        BY <1>4 DEF Arrives
      <3>. QED BY <3>2, <3>3, <3>4
    <2>2. CASE p \notin watched
      <3>1. responder' = [responder EXCEPT ![p] =
                            [@ EXCEPT !.at = "answering", !.answer = "not_watched"]]
        BY <1>4, <2>2 DEF Arrives
      <3>2. ConfirmTypeOK'
        <4>0. responder[p] \in Requests
          BY DEF ConfirmTypeOK
        <4>1. [responder[p] EXCEPT !.at = "answering", !.answer = "not_watched"] \in Requests
          BY <4>0 DEF Requests
        <4>2. responder' \in [Asked -> Requests]
          BY <3>1, <4>1
        <4>. QED BY <1>4, <4>2 DEF Arrives
      <3>3. ASSUME NEW q \in Asked PROVE (AnswerIsSeen(q) /\ AnswerIsTheirs(q))'
        BY <1>4, <2>2, <3>1 DEF Arrives
      <3>4. AllAnswered'
        BY <1>4 DEF Arrives
      <3>. QED BY <3>2, <3>3, <3>4
    <2>. QED BY <2>1, <2>2
  <1>5. ASSUME NEW p \in Asked, Lost(p) PROVE ConfirmInv'
    BY <1>5 DEF Lost
  <1>6. ASSUME NEW p \in Asked, Probed(p) PROVE ConfirmInv'
    BY <1>6 DEF Probed
  <1>7. ASSUME NEW p \in Asked, Replies(p) PROVE ConfirmInv'
    BY <1>7 DEF Replies
  <1>8. ASSUME NEW p \in Asked, GivesUp(p) PROVE ConfirmInv'
    BY <1>8 DEF GivesUp
  <1>9. ASSUME NEW p \in Asked, Turns(p) PROVE ConfirmInv'
    BY <1>9 DEF Turns
  <1>10. CASE UNCHANGED confirmVars
    BY <1>10 DEF confirmVars
  <1>. QED BY <1>1, <1>2, <1>3, <1>4, <1>5, <1>6, <1>7, <1>8, <1>9, <1>10 DEF ConfirmNext

\* What the daemon holds of a peer is what that peer's own probe saw.
THEOREM ConfirmInvariant == ConfirmSpec => []ConfirmInv
  BY ConfirmInvInit, ConfirmInvStep, PTL DEF ConfirmSpec

\* An outage is quieted only by peers that watch the monitor and saw it up, for any
\* number of peers, losses and late answers.
THEOREM WitnessQuiets == ConfirmSpec => []QuietedOnlyByAWitness
  <1>1. ConfirmInv => QuietedOnlyByAWitness
    BY DEF ConfirmInv, ConfirmTypeOK, AllAnswered, AnswerIsSeen, AnswerIsTheirs,
       QuietedOnlyByAWitness, LocalOnly, Contradicted
  <1>. QED BY <1>1, ConfirmInvariant, PTL

---------------------------------------------------------------------------
(* The dependencies between monitors.  A "knot" is a set of monitors each  *)
(* of which depends on one of the set; a cycle is one.                     *)

Knot(set) == set # {} /\ \A m \in set : depends[m] \cap set # {}

HasPassed == check \in {"accepted", "walking", "walked"}

\* Every depends_on names a monitor.
AllNamed == \A m \in monitors : depends[m] \subseteq monitors

TopologyShape ==
    /\ monitors \in Declared
    /\ depends \in [monitors -> SUBSET Ids]
    /\ visited \subseteq monitors /\ start \in monitors
    /\ check \in {"ids", "sorting", "accepted", "refused", "walking", "walked"}
    /\ check \notin {"ids", "refused"} => AllNamed

\* What is queued waits for nothing, and what waits for nothing is queued.
Sorting ==
    /\ check \in {"ids", "sorting"} => waits = [m \in monitors |-> depends[m] \ visited]
    /\ check = "ids" => ready = {} /\ visited = {}
    /\ check = "sorting" =>
          /\ ready \subseteq {m \in monitors : depends[m] \subseteq visited}
          /\ \A m \in monitors : depends[m] \subseteq visited => m \in visited \/ m \in ready

\* No member of a knot is ever visited: its dependencies were, before it.
Untied == \A set \in SUBSET monitors : Knot(set) => visited \cap set = {}

Complete == HasPassed => visited = monitors

\* The walk has found, or queued, what depends on nothing but the start.
Walking ==
    /\ check \in {"ids", "sorting", "accepted"} => reached = {}
    /\ check \in {"walking", "walked"} =>
          /\ depends[start] \subseteq reached \cup ready
          /\ \A n \in reached : depends[n] \subseteq reached \cup ready
          /\ reached \cup ready \subseteq Upstream(start)
    /\ check = "walked" => ready = {}

RefusedForCause == check = "refused" => ~Acyclic

TopologyInv == TopologyShape /\ Sorting /\ Untied /\ Complete /\ Walking /\ RefusedForCause

\* What is queued is in no knot, as its dependencies were visited.
LEMMA QueuedIsFree ==
    ASSUME Untied, NEW set \in SUBSET monitors, Knot(set),
           NEW m \in monitors, depends[m] \subseteq visited
    PROVE  m \notin set
  BY DEF Untied, Knot

\* The upstream of a monitor is closed under dependencies, and the least such.
LEMMA UpstreamIsClosed ==
    ASSUME AllNamed, NEW m \in monitors
    PROVE  /\ Upstream(m) \subseteq monitors
           /\ depends[m] \subseteq Upstream(m)
           /\ \A n \in Upstream(m) : depends[n] \subseteq Upstream(m)
  BY DEF Upstream, AllNamed

\* The transitive upstreams are inside every set that holds the upstreams and those of
\* its members.
LEMMA UpstreamIsLeast ==
    ASSUME NEW m \in monitors, NEW s \in SUBSET monitors,
           depends[m] \subseteq s, \A n \in s : depends[n] \subseteq s
    PROVE  Upstream(m) \subseteq s
  BY DEF Upstream

\* What is upstream of a monitor is a dependency of it, or upstream of one.
LEMMA UpstreamComesThrough ==
    ASSUME AllNamed, NEW m \in monitors, NEW x \in Upstream(m)
    PROVE  x \in depends[m] \/ \E d \in depends[m] : x \in Upstream(d)
  <1>. DEFINE s == depends[m] \cup UNION {Upstream(d) : d \in depends[m]}
  <1>1. s \in SUBSET monitors
    BY UpstreamIsClosed DEF AllNamed
  <1>2. \A n \in s : depends[n] \subseteq s
    <2>1. \A n \in depends[m] : depends[n] \subseteq Upstream(n)
      BY UpstreamIsClosed DEF AllNamed
    <2>2. \A d \in depends[m] : \A n \in Upstream(d) : depends[n] \subseteq Upstream(d)
      BY UpstreamIsClosed DEF AllNamed
    <2>. QED BY <2>1, <2>2
  <1>3. depends[m] \subseteq s
    OBVIOUS
  <1>4. Upstream(m) \subseteq s
    <2>. HIDE DEF s
    <2>. QED BY <1>1, <1>2, <1>3, UpstreamIsLeast
  <1>. QED BY <1>4

\* A monitor upstream of itself is in a knot: what is upstream of it and has it
\* upstream.
LEMMA LoopIsAKnot ==
    ASSUME AllNamed, NEW m \in monitors, m \in Upstream(m)
    PROVE  \E set \in SUBSET monitors : Knot(set) /\ m \in set
  <1>. DEFINE set == {n \in Upstream(m) : m \in Upstream(n)}
  <1>1. set \in SUBSET monitors /\ m \in set
    BY UpstreamIsClosed
  <1>2. ASSUME NEW n \in set PROVE depends[n] \cap set # {}
    <2>1. n \in monitors /\ depends[n] \subseteq Upstream(m)
      BY UpstreamIsClosed
    <2>2. CASE m \in depends[n]
      BY <1>1, <2>2
    <2>3. CASE \E d \in depends[n] : m \in Upstream(d)
      BY <2>1, <2>3
    <2>. QED BY <2>1, <2>2, <2>3, UpstreamComesThrough
  <1>. QED BY <1>1, <1>2 DEF Knot

\* Monitors each of which has a dependency among them: one is its own upstream.
LEMMA StuckIsCyclic ==
    ASSUME AllNamed, IsFiniteSet(monitors), NEW rest \in SUBSET monitors, Knot(rest)
    PROVE  ~Acyclic
  <1>. DEFINE T == {Upstream(m) : m \in rest}
  <1>1. T \in SUBSET (SUBSET monitors) /\ T # {}
    BY UpstreamIsClosed DEF Knot
  <1>2. \E s \in T : \A t \in T : t \subseteq s => t = s
    <2>. HIDE DEF T
    <2>. QED BY <1>1, MinimalSubset
  <1>3. PICK m \in rest : \A n \in rest : Upstream(n) \subseteq Upstream(m) => Upstream(n) = Upstream(m)
    BY <1>2
  <1>4. PICK n \in rest : n \in depends[m]
    BY DEF Knot
  <1>5. n \in Upstream(m)
    BY <1>4, UpstreamIsClosed
  <1>6. Upstream(n) \subseteq Upstream(m)
    BY <1>5, UpstreamIsClosed, UpstreamIsLeast
  <1>. QED BY <1>3, <1>5, <1>6 DEF Acyclic

\* The configuration as it was read.
LEMMA TopologyInvInit == TopologyInit => TopologyInv
  <1>. SUFFICES ASSUME TopologyInit PROVE TopologyInv
    OBVIOUS
  <1>1. TopologyShape
    BY DEF TopologyInit, TopologyShape
  <1>2. Sorting
    BY DEF TopologyInit, Sorting
  <1>3. Untied /\ Complete /\ Walking /\ RefusedForCause
    BY DEF TopologyInit, Untied, Complete, HasPassed, Walking, RefusedForCause
  <1>. QED BY <1>1, <1>2, <1>3 DEF TopologyInv

\* Each step keeps the invariant; Visit, Judge and Step can disturb it.
LEMMA TopologyInvStep == TopologyInv /\ [TopologyNext]_topologyVars => TopologyInv'
  <1>. SUFFICES ASSUME TopologyInv, [TopologyNext]_topologyVars PROVE TopologyInv'
    OBVIOUS
  <1>. USE DEF TopologyInv
  <1>1. CASE CheckIds
    <2>1. TopologyShape' /\ Untied'
      BY <1>1 DEF CheckIds, TopologyShape, Untied, Knot, AllNamed
    <2>2. Sorting'
      BY <1>1 DEF CheckIds, TopologyShape, Sorting
    <2>3. (Complete /\ Walking)'
      BY <1>1 DEF CheckIds, Complete, HasPassed, Walking
    <2>4. RefusedForCause'
      <3>1. check' = "refused" => ~(\A m \in monitors : depends[m] \subseteq monitors)
        BY <1>1 DEF CheckIds
      <3>. QED BY <1>1, <3>1 DEF CheckIds, RefusedForCause, Acyclic
    <2>. QED BY <2>1, <2>2, <2>3, <2>4
  <1>2. ASSUME NEW node \in Ids, Visit(node) PROVE TopologyInv'
    <2>0. /\ check = "sorting" /\ node \in ready /\ node \in monitors
          /\ depends[node] \subseteq visited
          /\ UNCHANGED <<monitors, depends, check, start, reached>>
      BY <1>2 DEF Visit, Sorting
    <2>1. TopologyShape'
      BY <1>2, <2>0 DEF Visit, TopologyShape, AllNamed
    <2>2. Sorting'
      <3>1. waits' = [m \in monitors |-> depends[m] \ (visited \cup {node})]
        BY <1>2, <2>0 DEF Visit, Sorting
      <3>2. \A m \in monitors : Freed(m, node) => depends[m] \subseteq visited \cup {node}
        BY <2>0 DEF Freed, Sorting
      <3>3. ready' \subseteq {m \in monitors : depends[m] \subseteq visited \cup {node}}
        BY <1>2, <2>0, <3>2 DEF Visit, Sorting
      <3>4. ASSUME NEW m \in monitors, depends[m] \subseteq visited \cup {node}
            PROVE  m \in visited \cup {node} \/ m \in ready'
        <4>1. CASE depends[m] \subseteq visited
          BY <1>2, <2>0, <4>1 DEF Visit, Sorting
        <4>2. CASE ~(depends[m] \subseteq visited)
          <5>1. Freed(m, node)
            BY <2>0, <3>4, <4>2 DEF Freed, Sorting
          <5>. QED BY <1>2, <5>1 DEF Visit
        <4>. QED BY <4>1, <4>2
      <3>. QED BY <1>2, <2>0, <3>1, <3>3, <3>4 DEF Visit, Sorting
    <2>3. Untied'
      <3>1. \A set \in SUBSET monitors : Knot(set) => node \notin set
        BY <2>0, QueuedIsFree
      <3>2. \A set \in SUBSET monitors : Knot(set) => (visited \cup {node}) \cap set = {}
        BY <3>1 DEF Untied
      <3>. QED BY <1>2, <3>2 DEF Visit, Untied, Knot
    <2>4. (Complete /\ Walking /\ RefusedForCause)'
      BY <2>0 DEF Complete, HasPassed, Walking, RefusedForCause
    <2>. QED BY <2>1, <2>2, <2>3, <2>4
  <1>3. CASE Judge
    <2>0. check = "sorting" /\ ready = {} /\ UNCHANGED <<monitors, depends, visited, start, reached>>
      BY <1>3 DEF Judge
    <2>1. (TopologyShape /\ Sorting /\ Untied /\ Walking)'
      BY <1>3 DEF Judge, TopologyShape, Sorting, Untied, Knot, Walking, AllNamed
    <2>2. IsFiniteSet(monitors)
      BY TopologyAssumption DEF TopologyAssumption, TopologyShape
    <2>3. Complete'
      <3>1. Cardinality(visited) = Cardinality(monitors) => visited = monitors
        BY <2>2, FS_Subset DEF TopologyShape
      <3>. QED BY <1>3, <3>1 DEF Judge, Complete, HasPassed
    <2>4. RefusedForCause'
      <3>. DEFINE rest == monitors \ visited
      <3>1. check' = "refused" => rest # {}
        BY <1>3 DEF Judge, TopologyShape
      <3>2. \A m \in rest : depends[m] \cap rest # {}
        BY <2>0 DEF Sorting, TopologyShape, AllNamed
      <3>3. rest # {} => ~Acyclic
        BY <2>0, <2>2, <3>2, StuckIsCyclic DEF Knot, TopologyShape
      <3>. QED BY <2>0, <3>1, <3>3 DEF RefusedForCause, Acyclic, Upstream
    <2>. QED BY <2>1, <2>3, <2>4
  <1>4. CASE Walk
    <2>1. reached = {} /\ AllNamed /\ start \in monitors
      BY <1>4 DEF Walk, Walking, TopologyShape
    <2>2. depends[start] \subseteq Upstream(start)
      BY <2>1, UpstreamIsClosed
    <2>3. Walking'
      BY <1>4, <2>1, <2>2 DEF Walk, Walking, Upstream
    <2>. QED BY <1>4, <2>3 DEF Walk, TopologyShape, Sorting, Untied, Knot, Complete, HasPassed,
                              RefusedForCause, AllNamed
  <1>5. ASSUME NEW node \in Ids, Step(node) PROVE TopologyInv'
    <2>1. check = "walking" /\ AllNamed /\ start \in monitors /\ node \in Upstream(start)
      BY <1>5 DEF Step, Walking, TopologyShape
    <2>2. depends[node] \subseteq Upstream(start)
      BY <2>1, UpstreamIsClosed
    <2>3. /\ depends[start] \subseteq reached' \cup ready'
          /\ \A n \in reached' : depends[n] \subseteq reached' \cup ready'
          /\ reached' \cup ready' \subseteq Upstream(start)
      BY <1>5, <2>1, <2>2 DEF Step, Walking
    <2>4. Walking'
      BY <1>5, <2>3 DEF Step, Walking, Upstream
    <2>. QED BY <1>5, <2>4 DEF Step, TopologyShape, Sorting, Untied, Knot, Complete, HasPassed,
                              RefusedForCause, AllNamed
  <1>6. CASE Walked
    BY <1>6 DEF Walked, TopologyShape, Sorting, Untied, Knot, Complete, HasPassed, Walking,
                RefusedForCause, AllNamed, Upstream
  <1>7. CASE UNCHANGED topologyVars
    BY <1>7 DEF topologyVars, TopologyShape, Sorting, Untied, Knot, Complete, HasPassed, Walking,
                RefusedForCause, AllNamed, Acyclic, Upstream
  <1>. QED BY <1>1, <1>2, <1>3, <1>4, <1>5, <1>6, <1>7 DEF TopologyNext

\* The inductive invariant of the check of a configuration, whatever its
\* monitors depend on and in whatever order the queue is served.
THEOREM TopologyInvariant == TopologySpec => []TopologyInv
  BY TopologyInvInit, TopologyInvStep, PTL DEF TopologySpec

\* A configuration is accepted exactly if no monitor is its own upstream, and the
\* walk finds what is upstream of its start and no more, for every graph.
THEOREM DependenciesInOrder == TopologySpec => []DependenciesAreOrdered
  <1>1. ASSUME TopologyInv PROVE DependenciesAreOrdered
    <2>. USE <1>1 DEF TopologyInv
    <2>1. HasPassed => Acyclic
      <3>. SUFFICES ASSUME HasPassed, NEW m \in monitors, m \in Upstream(m) PROVE FALSE
        BY DEF Acyclic, HasPassed, TopologyShape, AllNamed
      <3>1. AllNamed /\ visited = monitors
        BY DEF HasPassed, TopologyShape, Complete
      <3>. QED BY <3>1, LoopIsAKnot DEF Untied
    <2>2. check = "walked" => reached = Upstream(start)
      <3>. SUFFICES ASSUME check = "walked" PROVE reached = Upstream(start)
        OBVIOUS
      <3>1. AllNamed /\ start \in monitors /\ reached \subseteq Upstream(start)
        BY DEF TopologyShape, Walking
      <3>2. reached \in SUBSET monitors /\ depends[start] \subseteq reached
            /\ \A n \in reached : depends[n] \subseteq reached
        BY <3>1, UpstreamIsClosed DEF Walking
      <3>. QED BY <3>1, <3>2, UpstreamIsLeast
    <2>. QED BY <2>1, <2>2 DEF DependenciesAreOrdered, RefusedForCause, HasPassed
  <1>. QED BY <1>1, TopologyInvariant, PTL

\* No configuration with a cycle is accepted, however large: every set of its
\* monitors has one that depends on none of the set, so the coalescer never
\* meets alerts that wait for each other's verdict.
THEOREM AcceptedHasNoCycle == TopologySpec => []NoCycleIsAccepted
  <1>1. TopologyInv => NoCycleIsAccepted
    BY DEF TopologyInv, TopologyShape, Untied, Complete, HasPassed, Knot, NoCycleIsAccepted
  <1>. QED BY <1>1, TopologyInvariant, PTL

---------------------------------------------------------------------------
(* Requests and probes *)

AttemptFields ==
    {"at", "url", "redirects", "downgraded", "status", "latency", "body", "fits", "outcome"}

\* Where a request may be on its way: a downgrade ends the chain, the shared
\* client does not leave its origin.
KeepsHome(url) ==
    /\ setting.kind = "client" =>
          url.host = "target" /\ url.scheme \in {setting.scheme, "https"}
    /\ setting.scheme = "https" => url.scheme = "https"

\* An attempt under way has met nothing yet, but the redirects it followed.
Unspoilt(a) ==
    /\ a.redirects \in Nat /\ a.redirects <= MAX_REDIRECTS
    /\ ~a.downgraded /\ a.body = "none" /\ ~a.fits

\* The outcome of an attempt that is over is told by what it met.
IsServed(a) ==
    /\ a.redirects <= MAX_REDIRECTS /\ ~a.downgraded
    /\ StatusOk(a.status)
    /\ ~(setting.proxy /\ a.status = "407")
    /\ setting.asserts \/ setting.kind = "json" => a.body # "broken" /\ a.fits
    /\ setting.kind = "json" => a.body = "whole"

IsJudged(a) ==
    /\ a.outcome.up <=> IsServed(a)
    /\ a.outcome.up => a.outcome.reason # "timeout"
    /\ a.outcome.reason = "content" => a.body = "whole"
    /\ a.outcome.reason \notin {"v4", "v6"}

AttemptOK(a) ==
    /\ AttemptFields \subseteq DOMAIN a
    /\ a.at \in {"send", "sent", "body", "done"}
    /\ a.at \in {"send", "sent"} => Unspoilt(a) /\ a.status = "none" /\ KeepsHome(a.url)
    /\ a.at = "sent" => setting.kind \notin {"dns", "icmp"}
    /\ a.at = "body" =>
          /\ Unspoilt(a)
          /\ setting.kind = "json" \/ (setting.kind = "http" /\ ReadsBody(a.status))
    /\ a.at = "done" => IsJudged(a)

\* Every attempt is as it should be, and what was concluded is what they met.
ProbesInv ==
    /\ setting \in ProbeSettings
    /\ DOMAIN run = Families
    /\ \A f \in Families : AttemptOK(run[f])
    /\ result # Pending => \A f \in Families : run[f].at = "done"
    /\ OutcomeIsEarned
    /\ SecretsStayHome

\* A setting, in the state.
LEMMA SettingOK ==
    ASSUME ProbesInv
    PROVE  /\ setting.kind \in {"http", "dns", "icmp", "json", "client"}
           /\ setting.scheme \in {"http", "https"}
           /\ setting.expected \subseteq {"2xx", "3xx", "407", "5xx"}
           /\ setting.kind # "http" => setting.expected = {}
           /\ setting.kind \notin {"http", "dns"} => ~setting.asserts
           /\ setting.asserts \in BOOLEAN /\ setting.proxy \in BOOLEAN
           /\ setting.families \in {{"v4"}, {"v6"}, {"v4", "v6"}}
           /\ MAX_REDIRECTS \in Nat
  BY ProbesAssumption DEF ProbesInv

\* A fresh attempt starts at its send, with no redirect behind it.
LEMMA FreshIsOK ==
    ASSUME setting \in ProbeSettings
    PROVE  AttemptOK(Attempt) /\ Attempt.at = "send"
  <1>1. /\ AttemptFields \subseteq DOMAIN Attempt /\ Attempt.at = "send"
        /\ Attempt.redirects = 0 /\ ~Attempt.downgraded /\ Attempt.body = "none"
        /\ ~Attempt.fits /\ Attempt.status = "none" /\ Attempt.url = Target
    BY DEF Attempt, AttemptFields
  <1>2. KeepsHome(Target)
    BY DEF KeepsHome, Target
  <1>3. Unspoilt(Attempt)
    BY <1>1, ProbesAssumption DEF Unspoilt
  <1>. QED BY <1>1, <1>2, <1>3 DEF AttemptOK

\* An attempt that failed before anything was judged was not served.
LEMMA FailedIsOK ==
    ASSUME NEW a, AttemptFields \subseteq DOMAIN a, ~IsServed(a),
           NEW reason, reason \notin {"content", "v4", "v6"}
    PROVE  AttemptOK(Failed(a, reason)) /\ Failed(a, reason).at = "done"
  <1>. DEFINE b == Failed(a, reason)
  <1>1. /\ AttemptFields \subseteq DOMAIN b /\ b.at = "done" /\ b.outcome = Down(reason)
        /\ b.redirects = a.redirects /\ b.downgraded = a.downgraded /\ b.status = a.status
        /\ b.body = a.body /\ b.fits = a.fits
    BY DEF Failed, AttemptFields
  <1>2. Down(reason).up = FALSE /\ Down(reason).reason = reason
    BY DEF Down
  <1>. HIDE DEF b
  <1>3. ~IsServed(b)
    BY <1>1 DEF IsServed
  <1>4. IsJudged(b)
    BY <1>1, <1>2, <1>3 DEF IsJudged
  <1>5. AttemptOK(b)
    BY <1>1, <1>4 DEF AttemptOK
  <1>. QED BY <1>1, <1>5 DEF b

\* An attempt under way has not been served.
LEMMA UnderWayIsNotServed ==
    ASSUME ProbesInv, NEW a, AttemptOK(a), a.at # "done"
    PROVE  ~IsServed(a)
  <1>0. a.at \in {"send", "sent", "body"}
    BY DEF AttemptOK
  <1>1. CASE a.at \in {"send", "sent"}
    <2>1. a.status = "none"
      BY <1>1 DEF AttemptOK
    <2>2. ~StatusOk("none")
      BY SettingOK DEF StatusOk
    <2>. QED BY <2>1, <2>2 DEF IsServed
  <1>2. CASE a.at = "body"
    <2>1. /\ a.body = "none" /\ ~a.fits
          /\ setting.kind = "json" \/ (setting.kind = "http" /\ ReadsBody(a.status))
      BY <1>2 DEF AttemptOK, Unspoilt
    <2>. QED BY <2>1 DEF IsServed, ReadsBody
  <1>. QED BY <1>0, <1>1, <1>2

\* What ends on an answer whose body is read, or need not be, is judged by it.
LEMMA SettledIsOK ==
    ASSUME ProbesInv, NEW a, AttemptFields \subseteq DOMAIN a,
           a.redirects <= MAX_REDIRECTS, ~a.downgraded,
           \/ /\ a.body \in {"whole", "capped", "broken"}
              /\ setting.kind = "json" \/ (setting.kind = "http" /\ ReadsBody(a.status))
           \/ a.body = "none" /\ setting.kind \in {"http", "client"} /\ ~setting.asserts
    PROVE  AttemptOK(Settled(a)) /\ Settled(a).at = "done"
  <1>. DEFINE o == IF setting.kind = "json" THEN JudgedJson(a) ELSE Judged(a)
              b == Settled(a)
  <1>1. /\ AttemptFields \subseteq DOMAIN b /\ b.at = "done" /\ b.outcome = o
        /\ b.redirects = a.redirects /\ b.downgraded = a.downgraded /\ b.status = a.status
        /\ b.body = a.body /\ b.fits = a.fits
    BY DEF Settled, AttemptFields
  <1>2. /\ \A reason : Down(reason).up = FALSE /\ Down(reason).reason = reason
        /\ \A latency : Up(latency).up = TRUE /\ Up(latency).reason = "none"
    BY DEF Down, Up
  <1>3. /\ o.up <=> IsServed(a)
        /\ o.up => o.reason # "timeout"
        /\ o.reason = "content" => a.body = "whole"
        /\ o.reason \notin {"v4", "v6"}
    <2>1. CASE setting.kind = "json"
      <3>1. o = JudgedJson(a)
        BY <2>1
      <3>2. a.body \in {"whole", "capped", "broken"} /\ (StatusOk(a.status) => a.status = "2xx")
        BY <2>1, SettingOK DEF StatusOk
      <3>. QED BY <1>2, <2>1, <3>1, <3>2 DEF JudgedJson, IsServed
    <2>2. CASE setting.kind # "json"
      <3>1. o = Judged(a)
        BY <2>2
      <3>2. CASE a.body = "broken"
        <4>1. o = Down("transport")
          BY <3>1, <3>2 DEF Judged
        <4>2. ~StatusOk(a.status) \/ setting.asserts
          BY <2>2, <3>2 DEF ReadsBody
        <4>3. ~IsServed(a)
          BY <3>2, <4>2 DEF IsServed
        <4>. QED BY <1>2, <4>1, <4>3
      <3>3. CASE a.body # "broken" /\ a.status = "407" /\ setting.proxy
        <4>1. o = Down("proxy")
          BY <3>1, <3>3 DEF Judged
        <4>. QED BY <1>2, <3>3, <4>1 DEF IsServed
      <3>4. CASE a.body # "broken" /\ ~(a.status = "407" /\ setting.proxy) /\ ~StatusOk(a.status)
        <4>1. o = Down("status")
          BY <3>1, <3>4 DEF Judged
        <4>. QED BY <1>2, <3>4, <4>1 DEF IsServed
      <3>5. CASE /\ a.body # "broken" /\ ~(a.status = "407" /\ setting.proxy)
                 /\ StatusOk(a.status) /\ setting.asserts /\ ~a.fits
        <4>1. o = Down(IF a.body = "capped" THEN "content, cut" ELSE "content")
          BY <3>1, <3>5 DEF Judged
        <4>2. ~IsServed(a)
          BY <3>5 DEF IsServed
        <4>3. a.body \in {"whole", "capped"}
          BY <3>5
        <4>. QED BY <1>2, <4>1, <4>2, <4>3
      <3>6. CASE /\ a.body # "broken" /\ ~(a.status = "407" /\ setting.proxy)
                 /\ StatusOk(a.status) /\ (setting.asserts => a.fits)
        <4>1. o = Up(a.latency)
          BY <3>1, <3>6 DEF Judged
        <4>2. IsServed(a)
          BY <2>2, <3>6 DEF IsServed
        <4>. QED BY <1>2, <4>1, <4>2
      <3>. QED BY <3>2, <3>3, <3>4, <3>5, <3>6
    <2>. QED BY <2>1, <2>2
  <1>. HIDE DEF b, o
  <1>4. IsServed(b) <=> IsServed(a)
    BY <1>1 DEF IsServed
  <1>5. IsJudged(b)
    BY <1>1, <1>3, <1>4 DEF IsJudged
  <1>6. AttemptOK(b)
    BY <1>1, <1>5 DEF AttemptOK
  <1>. QED BY <1>1, <1>6 DEF b

\* The verdicts on an attempt depend on the setting alone.
LEMMA SettingKeeps ==
    ASSUME setting' = setting, NEW a, AttemptOK(a)
    PROVE  AttemptOK(a)'
  <1>1. /\ \A status : StatusOk(status)' = StatusOk(status)
        /\ \A status : ReadsBody(status)' = ReadsBody(status)
        /\ \A url : KeepsHome(url)' = KeepsHome(url)
    BY DEF StatusOk, ReadsBody, KeepsHome
  <1>. QED BY <1>1 DEF AttemptOK, Unspoilt, KeepsHome, IsJudged, IsServed, StatusOk, ReadsBody

\* One attempt goes on or ends: the others and the result stay.
LEMMA AttemptGoesOn ==
    ASSUME ProbesInv, NEW f \in Families, Unfinished(f), NEW a, Advance(f, a), AttemptOK(a),
           UNCHANGED <<setting, retried, result>>, SecretsStayHome'
    PROVE  ProbesInv'
  <1>1. run' = [run EXCEPT ![f] = a] /\ Families' = Families
    BY DEF Advance, Families
  <1>2. DOMAIN run' = Families'
    BY <1>1 DEF ProbesInv
  <1>3. \A g \in Families : run'[g] = IF g = f THEN a ELSE run[g]
    BY <1>1 DEF ProbesInv
  <1>4. \A g \in Families : AttemptOK(run'[g])
    BY <1>3 DEF ProbesInv
  <1>5. ASSUME NEW g \in Families PROVE AttemptOK(run[g])'
    <2>1. PICK b : b = run'[g]
      OBVIOUS
    <2>2. AttemptOK(b)'
      BY <1>4, <2>1, SettingKeeps
    <2>. QED BY <2>1, <2>2 DEF AttemptOK
  <1>6. result' = Pending
    BY DEF Unfinished
  <1>7. Pending' = Pending
    BY DEF Pending
  <1>8. OutcomeIsEarned'
    BY <1>6, <1>7 DEF OutcomeIsEarned
  <1>. QED BY <1>1, <1>2, <1>5, <1>6, <1>7, <1>8 DEF ProbesInv

\* What sends nothing keeps the secrets where they were.
LEMMA SecretsKept ==
    ASSUME ProbesInv, UNCHANGED <<setting, sent>> PROVE SecretsStayHome'
  BY DEF ProbesInv, SecretsStayHome

\* Nothing was sent and every attempt is fresh at the start.
LEMMA ProbesStart == ProbesInit => ProbesInv
  <1> SUFFICES ASSUME ProbesInit PROVE ProbesInv
    OBVIOUS
  <1>1. setting \in ProbeSettings /\ run = [f \in Families |-> Attempt]
        /\ sent = {} /\ result = Pending
    BY DEF ProbesInit
  <1>2. AttemptOK(Attempt)
    BY <1>1, FreshIsOK
  <1>. QED BY <1>1, <1>2 DEF ProbesInv, OutcomeIsEarned, SecretsStayHome

\* The final answer of a request: judged at once, or its body is read first.
LEMMA AnswerIsOK ==
    ASSUME ProbesInv, NEW a, AttemptOK(a), a.at = "sent", NEW status
    PROVE  AttemptOK(FinalAnswer(a, status))
  <1>. DEFINE final == [a EXCEPT !.status = status, !.latency = spent]
              now == setting.kind = "client" \/ (setting.kind = "http" /\ ~ReadsBody(status))
  <1>1. /\ AttemptFields \subseteq DOMAIN a /\ Unspoilt(a)
        /\ setting.kind \in {"http", "json", "client"}
    BY SettingOK DEF AttemptOK
  <1>2. /\ AttemptFields \subseteq DOMAIN final /\ final.status = status
        /\ final.redirects = a.redirects /\ final.downgraded = a.downgraded
        /\ final.body = a.body /\ final.fits = a.fits
    BY <1>1 DEF AttemptFields
  <1>3. FinalAnswer(a, status) = IF now THEN Settled(final) ELSE [final EXCEPT !.at = "body"]
    BY DEF FinalAnswer
  <1>. HIDE DEF final
  <1>4. CASE now
    <2>1. setting.kind \in {"http", "client"} /\ ~setting.asserts
      BY <1>4, SettingOK DEF ReadsBody
    <2>2. AttemptOK(Settled(final))
      BY <1>1, <1>2, <2>1, SettledIsOK DEF Unspoilt
    <2>. QED BY <1>3, <1>4, <2>2
  <1>5. CASE ~now
    <2>1. setting.kind = "json" \/ (setting.kind = "http" /\ ReadsBody(status))
      BY <1>1, <1>5
    <2>2. PICK b : b = [final EXCEPT !.at = "body"]
      OBVIOUS
    <2>3. /\ AttemptFields \subseteq DOMAIN b /\ b.at = "body" /\ b.status = status
          /\ b.redirects = a.redirects /\ b.downgraded = a.downgraded
          /\ b.body = a.body /\ b.fits = a.fits
      BY <1>2, <2>2 DEF AttemptFields
    <2>4. AttemptOK(b)
      BY <1>1, <2>1, <2>3 DEF AttemptOK, Unspoilt
    <2>. QED BY <1>3, <1>5, <2>2, <2>4
  <1>. QED BY <1>4, <1>5

\* A redirect is followed without a downgrade, and never off the client's origin.
LEMMA HopKeepsHome ==
    ASSUME ProbesInv, NEW from, NEW next \in Urls, KeepsHome(from),
           OnRedirect(from, next) = "follow"
    PROVE  KeepsHome(next)
  <1>1. next.scheme \in {"http", "https"}
    BY DEF Urls, Schemes
  <1>2. CASE setting.kind = "client"
    <2>1. RedirectAllowed(next)
      BY <1>2 DEF OnRedirect
    <2>. QED BY <1>1, <1>2, <2>1 DEF RedirectAllowed, KeepsHome
  <1>3. CASE setting.kind # "client"
    <2>1. ~IsDowngrade(from, next)
      BY <1>3 DEF OnRedirect
    <2>. QED BY <1>1, <1>3, <2>1 DEF IsDowngrade, KeepsHome
  <1>. QED BY <1>2, <1>3

\* Following a redirect keeps the attempt honest and the configured headers at home.
LEMMA RedirectedKeeps ==
    ASSUME ProbesInv, NEW f \in Families, NEW next \in Urls, Redirected(f, next)
    PROVE  ProbesInv'
  <1>. DEFINE a == run[f]
              what == OnRedirect(a.url, next)
              hop == [a EXCEPT !.redirects = @ + 1, !.url = next, !.at = "send"]
  <1>1. /\ Unfinished(f) /\ AttemptOK(a) /\ a.at = "sent"
        /\ UNCHANGED <<setting, retried, sent, result>>
    BY DEF Redirected, ProbesInv
  <1>2. /\ AttemptFields \subseteq DOMAIN a /\ Unspoilt(a) /\ a.status = "none"
        /\ KeepsHome(a.url)
    BY <1>1 DEF AttemptOK
  <1>3. SecretsStayHome'
    BY <1>1, SecretsKept
  <1>4. ~IsServed(a)
    BY <1>1, UnderWayIsNotServed
  <1>5. CASE what = "stop"
    <2>1. Advance(f, FinalAnswer(a, "3xx"))
      BY <1>5 DEF Redirected
    <2>2. AttemptOK(FinalAnswer(a, "3xx"))
      BY <1>1, AnswerIsOK
    <2>. QED BY <1>1, <1>3, <2>1, <2>2, AttemptGoesOn
  <1>6. CASE what = "insecure"
    <2>. DEFINE b == [a EXCEPT !.downgraded = TRUE]
    <2>1. Advance(f, Failed(b, "insecure redirect"))
      BY <1>6 DEF Redirected
    <2>2. AttemptFields \subseteq DOMAIN b /\ b.downgraded
      BY <1>2 DEF AttemptFields
    <2>. HIDE DEF b
    <2>3. ~IsServed(b)
      BY <2>2 DEF IsServed
    <2>4. AttemptOK(Failed(b, "insecure redirect"))
      BY <2>2, <2>3, FailedIsOK
    <2>. QED BY <1>1, <1>3, <2>1, <2>4, AttemptGoesOn
  <1>7. CASE what \notin {"stop", "insecure"}
    <2>1. Advance(f, IF hop.redirects > MAX_REDIRECTS THEN Failed(hop, "too many redirects")
                     ELSE hop)
      BY <1>7 DEF Redirected
    <2>2. /\ AttemptFields \subseteq DOMAIN hop /\ hop.redirects = a.redirects + 1
          /\ hop.url = next /\ hop.at = "send" /\ hop.downgraded = a.downgraded
          /\ hop.status = a.status /\ hop.body = a.body /\ hop.fits = a.fits
      BY <1>2 DEF AttemptFields
    <2>3. what = "follow"
      BY <1>7 DEF OnRedirect
    <2>4. KeepsHome(next)
      BY <1>2, <2>3, HopKeepsHome
    <2>. HIDE DEF hop
    <2>5. hop.redirects \in Nat /\ MAX_REDIRECTS \in Nat
      BY <1>2, <2>2, SettingOK DEF Unspoilt
    <2>6. CASE hop.redirects > MAX_REDIRECTS
      <3>1. ~IsServed(hop)
        BY <2>5, <2>6 DEF IsServed
      <3>2. AttemptOK(Failed(hop, "too many redirects"))
        BY <2>2, <3>1, FailedIsOK
      <3>. QED BY <1>1, <1>3, <2>1, <2>6, <3>2, AttemptGoesOn
    <2>7. CASE ~(hop.redirects > MAX_REDIRECTS)
      <3>1. AttemptOK(hop)
        BY <1>2, <2>2, <2>4, <2>5, <2>7 DEF AttemptOK, Unspoilt
      <3>. QED BY <1>1, <1>3, <2>1, <2>7, <3>1, AttemptGoesOn
    <2>. QED BY <2>6, <2>7
  <1>. QED BY <1>5, <1>6, <1>7

\* A request carries the configured headers only to its own target.
LEMMA SendKeeps ==
    ASSUME ProbesInv, NEW f \in Families, Send(f)
    PROVE  ProbesInv'
  <1>. DEFINE a == run[f]
              going == [url |-> a.url, headers |-> WithHeaders(a.url)]
  <1>1. /\ Unfinished(f) /\ AttemptOK(a) /\ a.at = "send"
        /\ setting.kind \notin {"dns", "icmp"}
        /\ sent' = sent \cup {going}
        /\ Advance(f, [a EXCEPT !.at = "sent"])
        /\ UNCHANGED <<setting, spent, retried, result>>
    BY DEF Send, ProbesInv
  <1>2. /\ AttemptFields \subseteq DOMAIN a /\ Unspoilt(a) /\ a.status = "none"
        /\ KeepsHome(a.url)
    BY <1>1 DEF AttemptOK
  <1>3. PICK b : b = [a EXCEPT !.at = "sent"]
    OBVIOUS
  <1>4. /\ AttemptFields \subseteq DOMAIN b /\ b.at = "sent" /\ b.status = a.status
        /\ b.redirects = a.redirects /\ b.downgraded = a.downgraded
        /\ b.body = a.body /\ b.fits = a.fits /\ b.url = a.url
    BY <1>2, <1>3 DEF AttemptFields
  <1>5. AttemptOK(b)
    BY <1>1, <1>2, <1>4 DEF AttemptOK, Unspoilt
  <1>6. going.headers => a.url.host = "target" /\ a.url.scheme \in {setting.scheme, "https"}
    <2>1. CASE setting.kind = "client"
      BY <1>2, <2>1 DEF KeepsHome
    <2>2. CASE a.url = Target
      BY <2>2 DEF Target
    <2>3. going.headers => setting.kind = "client" \/ a.url = Target
      BY DEF WithHeaders, SameOrigin
    <2>. QED BY <2>1, <2>2, <2>3
  <1>7. going.url = a.url /\ (setting.scheme = "https" => a.url.scheme = "https")
    BY <1>2 DEF KeepsHome
  <1>8. SecretsStayHome'
    <2>. HIDE DEF going
    <2>. QED BY <1>1, <1>6, <1>7 DEF ProbesInv, SecretsStayHome
  <1>. QED BY <1>1, <1>3, <1>5, <1>8, AttemptGoesOn

\* An attempt that fails or ends where it is.
LEMMA EndsKeep ==
    ASSUME ProbesInv, NEW f \in Families,
           \/ Breaks(f) \/ TimedOut(f)
           \/ \E status : ServerAnswers(f, status)
           \/ \E body \in {"whole", "capped", "broken"}, fits \in BOOLEAN : BodyRead(f, body, fits)
    PROVE  ProbesInv'
  <1>. DEFINE a == run[f]
  <1>1. /\ Unfinished(f) /\ AttemptOK(a) /\ a.at # "done"
        /\ UNCHANGED <<setting, retried, sent, result>>
    BY DEF Breaks, TimedOut, ServerAnswers, BodyRead, Unfinished, ProbesInv
  <1>2. SecretsStayHome' /\ ~IsServed(a) /\ AttemptFields \subseteq DOMAIN a
    BY <1>1, SecretsKept, UnderWayIsNotServed DEF AttemptOK
  <1>3. \A reason \in {"transport", "timeout"} : AttemptOK(Failed(a, reason))
    BY <1>2, FailedIsOK
  <1>4. CASE Breaks(f) \/ TimedOut(f)
    <2>1. \E reason \in {"transport", "timeout"} : Advance(f, Failed(a, reason))
      BY <1>4 DEF Breaks, TimedOut
    <2>. QED BY <1>1, <1>2, <1>3, <2>1, AttemptGoesOn
  <1>5. ASSUME NEW status, ServerAnswers(f, status) PROVE ProbesInv'
    <2>1. a.at = "sent" /\ Advance(f, FinalAnswer(a, status))
      BY <1>5 DEF ServerAnswers
    <2>2. AttemptOK(FinalAnswer(a, status))
      BY <1>1, <2>1, AnswerIsOK
    <2>. QED BY <1>1, <1>2, <2>1, <2>2, AttemptGoesOn
  <1>6. ASSUME NEW body \in {"whole", "capped", "broken"}, NEW fits \in BOOLEAN,
               BodyRead(f, body, fits)
        PROVE  ProbesInv'
    <2>1. PICK b : b = [a EXCEPT !.body = body, !.fits = fits]
      OBVIOUS
    <2>2. a.at = "body" /\ Advance(f, Settled(b))
      BY <1>6, <2>1 DEF BodyRead
    <2>3. /\ AttemptFields \subseteq DOMAIN b /\ b.status = a.status /\ b.body = body
          /\ b.redirects = a.redirects /\ b.downgraded = a.downgraded
      BY <1>2, <2>1 DEF AttemptFields
    <2>4. Unspoilt(a) /\ (setting.kind = "json" \/ (setting.kind = "http" /\ ReadsBody(a.status)))
      BY <1>1, <2>2 DEF AttemptOK
    <2>5. AttemptOK(Settled(b))
      BY <2>3, <2>4, SettledIsOK DEF Unspoilt
    <2>. QED BY <1>1, <1>2, <2>2, <2>5, AttemptGoesOn
  <1>. QED BY <1>4, <1>5, <1>6

\* A dns or icmp check has one answer, which is its outcome.
LEMMA LookupKeeps ==
    ASSUME ProbesInv, NEW f \in Families,
           NEW answer \in {"error", "timeout", "no records", "other set", "the set"},
           LookedUp(f, answer)
    PROVE  ProbesInv'
  <1>. DEFINE a == run[f]
  <1>1. /\ Unfinished(f) /\ AttemptOK(a) /\ setting.kind = "dns" /\ a.at # "done"
        /\ Advance(f, OnLookup(a, answer))
        /\ UNCHANGED <<setting, retried, sent, result>>
    BY DEF LookedUp, Unfinished, ProbesInv
  <1>2. SecretsStayHome' /\ ~IsServed(a) /\ AttemptFields \subseteq DOMAIN a
    BY <1>1, SecretsKept, UnderWayIsNotServed DEF AttemptOK
  <1>3. a.at = "send" /\ Unspoilt(a) /\ a.status = "none"
    BY <1>1 DEF AttemptOK
  <1>4. AttemptOK(OnLookup(a, answer))
    <2>1. CASE answer \in {"error", "timeout", "no records"}
      <3>1. OnLookup(a, answer) = Failed(a, answer)
        BY <2>1 DEF OnLookup
      <3>2. AttemptOK(Failed(a, answer))
        BY <1>2, <2>1, FailedIsOK
      <3>. QED BY <3>1, <3>2
    <2>2. CASE answer = "other set" /\ setting.asserts
      <3>1. PICK b : b = [a EXCEPT !.body = "whole"]
        OBVIOUS
      <3>2. OnLookup(a, answer) = Failed(b, "mismatch")
        BY <2>2, <3>1 DEF OnLookup
      <3>3. AttemptFields \subseteq DOMAIN b /\ b.status = "none"
        BY <1>2, <1>3, <3>1 DEF AttemptFields
      <3>4. ~IsServed(b)
        BY <3>3, SettingOK DEF IsServed, StatusOk
      <3>5. AttemptOK(Failed(b, "mismatch"))
        BY <3>3, <3>4, FailedIsOK
      <3>. QED BY <3>2, <3>5
    <2>3. CASE answer = "the set" \/ (answer = "other set" /\ ~setting.asserts)
      <3>1. PICK b : b = [a EXCEPT !.at = "done", !.status = "2xx", !.fits = (answer = "the set"),
                                   !.body = "whole", !.outcome = Up(spent)]
        OBVIOUS
      <3>2. OnLookup(a, answer) = b
        BY <2>3, <3>1 DEF OnLookup
      <3>3. /\ AttemptFields \subseteq DOMAIN b /\ b.at = "done" /\ b.status = "2xx"
            /\ b.body = "whole" /\ b.outcome = Up(spent) /\ b.redirects = a.redirects
            /\ b.downgraded = a.downgraded
        BY <1>2, <3>1 DEF AttemptFields
      <3>4. b.fits = (answer = "the set")
        BY <1>2, <3>1 DEF AttemptFields
      <3>5. IsServed(b)
        BY <1>1, <1>3, <2>3, <3>3, <3>4, SettingOK DEF IsServed, StatusOk, Unspoilt
      <3>6. Up(spent).up = TRUE /\ Up(spent).reason = "none"
        BY DEF Up
      <3>7. IsJudged(b)
        BY <3>3, <3>5, <3>6 DEF IsJudged
      <3>. QED BY <3>2, <3>3, <3>7 DEF AttemptOK
    <2>. QED BY <2>1, <2>2, <2>3
  <1>. QED BY <1>1, <1>2, <1>4, AttemptGoesOn

\* An echo, or its failure, is the outcome it is taken for.
LEMMA PingKeeps ==
    ASSUME ProbesInv, NEW f \in Families,
           NEW answer \in {"unresolvable", "no socket", "icmp error", "echo reply"},
           Pinged(f, answer)
    PROVE  ProbesInv'
  <1>. DEFINE a == run[f]
  <1>1. /\ Unfinished(f) /\ AttemptOK(a) /\ setting.kind = "icmp" /\ a.at # "done"
        /\ Advance(f, OnPing(a, answer))
        /\ UNCHANGED <<setting, retried, sent, result>>
    BY DEF Pinged, Unfinished, ProbesInv
  <1>2. SecretsStayHome' /\ ~IsServed(a) /\ AttemptFields \subseteq DOMAIN a
    BY <1>1, SecretsKept, UnderWayIsNotServed DEF AttemptOK
  <1>3. a.at = "send" /\ Unspoilt(a)
    BY <1>1 DEF AttemptOK
  <1>4. AttemptOK(OnPing(a, answer))
    <2>1. CASE answer # "echo reply"
      <3>1. OnPing(a, answer) = Failed(a, answer)
        BY <2>1 DEF OnPing
      <3>2. AttemptOK(Failed(a, answer))
        BY <1>2, <2>1, FailedIsOK
      <3>. QED BY <3>1, <3>2
    <2>2. CASE answer = "echo reply"
      <3>1. PICK b : b = [a EXCEPT !.at = "done", !.status = "2xx", !.outcome = Up(spent)]
        OBVIOUS
      <3>2. OnPing(a, answer) = b
        BY <2>2, <3>1 DEF OnPing
      <3>3. /\ AttemptFields \subseteq DOMAIN b /\ b.at = "done" /\ b.status = "2xx"
            /\ b.outcome = Up(spent) /\ b.redirects = a.redirects
            /\ b.downgraded = a.downgraded
        BY <1>2, <3>1 DEF AttemptFields
      <3>4. IsServed(b)
        BY <1>1, <1>3, <3>3, SettingOK DEF IsServed, StatusOk, Unspoilt
      <3>5. Up(spent).up = TRUE /\ Up(spent).reason = "none"
        BY DEF Up
      <3>6. IsJudged(b)
        BY <3>3, <3>4, <3>5 DEF IsJudged
      <3>. QED BY <3>2, <3>3, <3>6 DEF AttemptOK
    <2>. QED BY <2>1, <2>2
  <1>. QED BY <1>1, <1>2, <1>4, AttemptGoesOn

\* What an outcome owes to the families' own.
IsEarned(outcome) ==
    /\ outcome.up <=> \A f \in Families : run[f].outcome.up
    /\ outcome.reason = "content" => \A f \in Families : run[f].body = "whole"
    /\ outcome.reason \in {"v4", "v6"} =>
          \A f \in Families : run[f].outcome.up <=> f # outcome.reason

\* What the families come to together was earned by one of them.
LEMMA CombineIsEarned ==
    ASSUME ProbesInv, NEW outcome, outcome = Combine([f \in Families |-> run[f].outcome]),
           \A f \in Families : run[f].at = "done"
    PROVE  IsEarned(outcome)
  <1>. DEFINE outs == [f \in Families |-> run[f].outcome]
              failed == {f \in Families : ~outs[f].up}
  <1>1. \A f \in Families : IsJudged(run[f]) /\ outs[f] = run[f].outcome
    BY DEF ProbesInv, AttemptOK
  <1>2. \A reason : Down(reason).up = FALSE /\ Down(reason).reason = reason
    BY DEF Down
  <1>3. ASSUME NEW x, Families = {x} PROVE IsEarned(outcome)
    <2>1. Cardinality(Families) = 1
      BY <1>3, FS_Singleton
    <2>2. (CHOOSE f \in Families : TRUE) = x
      BY <1>3
    <2>3. outcome = outs[x]
      BY <2>1, <2>2 DEF Combine
    <2>. QED BY <1>1, <1>3, <2>3 DEF IsJudged, IsEarned
  <1>4. CASE Families = {"v4", "v6"}
    <2>1. Cardinality(Families) # 1
      <3>1. \A x : Families # {x}
        BY <1>4
      <3>2. IsFiniteSet(Families)
        <4>1. IsFiniteSet({"v4"}) /\ Families = {"v4"} \cup {"v6"}
          BY <1>4, FS_Singleton
        <4>. QED BY <4>1, FS_AddElement
      <3>. QED BY <3>1, <3>2, FS_Singleton
    <2>. HIDE DEF failed, outs
    <2>2. CASE failed = Families
      <3>1. outcome = Down("both families")
        BY <2>1, <2>2 DEF Combine, outs, failed
      <3>2. outcome.up = FALSE /\ outcome.reason = "both families"
        BY <1>2, <3>1
      <3>3. \A f \in Families : ~run[f].outcome.up
        BY <1>1, <2>2 DEF failed
      <3>. QED BY <1>4, <3>2, <3>3 DEF IsEarned
    <2>3. CASE failed # Families /\ failed # {}
      <3>1. PICK x \in failed : x = CHOOSE f \in failed : TRUE
        BY <2>3
      <3>2. outcome = Down(x)
        BY <2>1, <2>3, <3>1 DEF Combine, outs, failed
      <3>3. \A f \in Families : f \in failed <=> f = x
        BY <1>4, <2>3, <3>1 DEF failed
      <3>4. \A f \in Families : run[f].outcome.up <=> f # x
        BY <1>1, <3>3 DEF failed
      <3>5. outcome.up = FALSE /\ outcome.reason = x
        BY <1>2, <3>2
      <3>6. x \in Families /\ x # "content" /\ ~run[x].outcome.up
        <4>1. x \in Families
          BY <3>1 DEF failed
        <4>. QED BY <1>4, <3>4, <4>1
      <3>. QED BY <3>4, <3>5, <3>6 DEF IsEarned
    <2>4. CASE failed = {}
      <3>1. outcome = [up |-> TRUE, degraded |-> \E f \in Families : outs[f].degraded,
                       reason |-> "none"]
        BY <1>4, <2>1, <2>4 DEF Combine, outs, failed
      <3>2. outcome.up = TRUE /\ outcome.reason = "none"
        BY <3>1
      <3>. QED BY <1>1, <2>4, <3>2 DEF failed, IsEarned
    <2>. QED BY <2>2, <2>3, <2>4
  <1>. QED BY <1>3, <1>4, SettingOK DEF Families

\* The conclusion of a probe is what its families came to.
LEMMA ConcludesKeeps ==
    ASSUME ProbesInv, Concludes
    PROVE  ProbesInv'
  <1>1. PICK outcome : outcome = Combine([f \in Families |-> run[f].outcome])
    OBVIOUS
  <1>2. /\ result = Pending /\ \A f \in Families : run[f].at = "done"
        /\ UNCHANGED <<setting, sent>>
    BY DEF Concludes
  <1>3. SecretsStayHome' /\ Families' = Families /\ Pending' = Pending
    BY <1>2, SecretsKept DEF Families, Pending
  <1>4. CASE outcome.up \/ retried = setting.retries
    <2>1. result' = outcome /\ UNCHANGED <<run, retried>>
      BY <1>1, <1>4 DEF Concludes
    <2>2. \A f \in Families : run[f].outcome.up <=> IsServed(run[f])
      BY <1>2 DEF ProbesInv, AttemptOK, IsJudged
    <2>3. \A f \in Families : run[f].outcome.up => run[f].outcome.reason # "timeout"
      BY <1>2 DEF ProbesInv, AttemptOK, IsJudged
    <2>4. \A f \in Families : Served(f)' <=> IsServed(run[f])
      BY <1>2, <2>1 DEF Served, IsServed, StatusOk
    <2>5. IsEarned(outcome)
      BY <1>1, <1>2, CombineIsEarned
    <2>6. OutcomeIsEarned'
      BY <1>2, <1>3, <1>4, <2>1, <2>2, <2>3, <2>4, <2>5 DEF OutcomeIsEarned, IsEarned
    <2>7. \A f \in Families : AttemptOK(run[f])'
      <3>. SUFFICES ASSUME NEW f \in Families PROVE AttemptOK(run[f])'
        OBVIOUS
      <3>1. PICK b : b = run[f]
        OBVIOUS
      <3>2. AttemptOK(b)'
        BY <1>2, <3>1, SettingKeeps DEF ProbesInv
      <3>. QED BY <2>1, <3>1, <3>2 DEF AttemptOK
    <2>. QED BY <1>2, <1>3, <2>1, <2>6, <2>7 DEF ProbesInv
  <1>5. CASE ~(outcome.up \/ retried = setting.retries)
    <2>1. run' = [f \in Families |-> Attempt] /\ result' = Pending
      BY <1>1, <1>2, <1>5 DEF Concludes
    <2>2. OutcomeIsEarned'
      BY <1>3, <2>1 DEF OutcomeIsEarned
    <2>3. ASSUME NEW f \in Families PROVE AttemptOK(run[f])'
      <3>1. PICK b : b = Attempt
        OBVIOUS
      <3>2. AttemptOK(b)'
        BY <1>2, <3>1, FreshIsOK, SettingKeeps DEF ProbesInv
      <3>. QED BY <2>1, <3>1, <3>2 DEF AttemptOK
    <2>. QED BY <1>2, <1>3, <2>1, <2>2, <2>3 DEF ProbesInv
  <1>. QED BY <1>4, <1>5

\* The clock, and steps of others.
LEMMA RestKeeps ==
    ASSUME ProbesInv, UNCHANGED <<setting, run, retried, sent, result>>
    PROVE  ProbesInv'
  BY DEF ProbesInv, OutcomeIsEarned, SecretsStayHome, Served, StatusOk, Families, Pending,
         AttemptOK, Unspoilt, KeepsHome, IsJudged, IsServed, ReadsBody

\* Every step of a probe keeps the invariant.
LEMMA ProbesStep == ProbesInv /\ [ProbesNext]_probeVars => ProbesInv'
  <1> SUFFICES ASSUME ProbesInv, [ProbesNext]_probeVars PROVE ProbesInv'
    OBVIOUS
  <1>1. ASSUME NEW f \in Families, Send(f) PROVE ProbesInv'
    BY <1>1, SendKeeps
  <1>2. ASSUME NEW f \in Families, NEW next \in Urls, Redirected(f, next) PROVE ProbesInv'
    BY <1>2, RedirectedKeeps
  <1>3. ASSUME NEW f \in Families,
               \/ Breaks(f) \/ TimedOut(f)
               \/ \E status \in {"2xx", "3xx", "407", "5xx"} : ServerAnswers(f, status)
               \/ \E body \in {"whole", "capped", "broken"}, fits \in BOOLEAN :
                     BodyRead(f, body, fits)
        PROVE  ProbesInv'
    BY <1>3, EndsKeep
  <1>4. ASSUME NEW f \in Families,
               NEW answer \in {"error", "timeout", "no records", "other set", "the set"},
               LookedUp(f, answer)
        PROVE  ProbesInv'
    BY <1>4, LookupKeeps
  <1>5. ASSUME NEW f \in Families,
               NEW answer \in {"unresolvable", "no socket", "icmp error", "echo reply"},
               Pinged(f, answer)
        PROVE  ProbesInv'
    BY <1>5, PingKeeps
  <1>6. CASE Concludes
    BY <1>6, ConcludesKeeps
  <1>7. CASE RequestWaits \/ UNCHANGED probeVars
    BY <1>7, RestKeeps DEF RequestWaits, probeVars
  <1>. QED BY <1>1, <1>2, <1>3, <1>4, <1>5, <1>6, <1>7 DEF ProbesNext

\* Every attempt is what it met, under any redirects, answers and faults.
THEOREM ProbesInvariant == ProbesSpec => []ProbesInv
  BY ProbesStart, ProbesStep, PTL DEF ProbesSpec

\* An up is earned over every family by the attempt it is the outcome of, and a
\* down blames what was at fault, whatever the servers answered and when.
THEOREM OutcomesAreEarned == ProbesSpec => []OutcomeIsEarned
  <1>1. ProbesInv => OutcomeIsEarned
    BY DEF ProbesInv
  <1>. QED BY <1>1, ProbesInvariant, PTL

\* No chain of redirects takes the configured headers away from the target, nor
\* a request that began on https to clear text, however many are followed.
THEOREM HeadersStayHome == ProbesSpec => []SecretsStayHome
  <1>1. ProbesInv => SecretsStayHome
    BY DEF ProbesInv
  <1>. QED BY <1>1, ProbesInvariant, PTL

---------------------------------------------------------------------------
(* A notification on its way (Deliveries) *)

\* How far a notification may be.
Stages == {"ready", "sent", "delivered", "failed", "too_large"}

HasBegun(f) == sending[f].attempt > 0

\* Each notification is as far as what the service stored of it says.
FlightInv(f) ==
    LET s == sending[f]
        stored == Cardinality(StoredOf(f))
    IN /\ s.attempt <= Backend.attempts
       /\ s.outcome = "ready" => s.attempt = 0
       /\ s.outcome = "delivered" => StoredOf(f) # {}
       /\ stored <= s.attempt
       /\ s.outcome = "sent" \/ s.outcome = "too_large" => stored < s.attempt

\* No two notifications share a transaction, and the homeserver has one row of each.
TransactionInv ==
    /\ \A f \in Notifications : HasBegun(f) => sending[f].txn < counter
    /\ \A f, g \in Notifications :
          HasBegun(f) /\ HasBegun(g) /\ sending[f].txn = sending[g].txn => f = g
    /\ \A i \in DOMAIN arrived :
          LET f == arrived[i].flight
          IN HasBegun(f) /\ arrived[i].txn = sending[f].txn
    /\ \A i, j \in DOMAIN arrived : arrived[i].txn = arrived[j].txn => i = j

DeliveryTypeOK ==
    /\ notice \in Notices
    /\ channel \in {NoChannel} \cup DOMAIN Backends
    /\ counter \in Nat
    /\ sending \in [1..notice.flights -> [attempt : Nat, outcome : Stages, txn : Nat]]
    /\ arrived \in Seq([flight : 1..notice.flights, txn : Nat])

DeliveryInv ==
    /\ DeliveryTypeOK
    /\ channel # NoChannel =>
          /\ \A f \in Notifications : FlightInv(f)
          /\ Backend.transactions => TransactionInv

\* Every backend sends at least once, and either takes transactions or does not.
LEMMA BackendFacts ==
    ASSUME NEW name \in DOMAIN Backends
    PROVE  /\ Backends[name].attempts \in Nat \ {0}
           /\ Backends[name].transactions \in BOOLEAN
           /\ name # NoChannel
<1>1. DOMAIN Backends = {"slack", "discord", "telegram", "matrix", "gotify", "pushover", "ntfy",
                         "freemobile", "email", "webhook"}
  BY DEF Backends
<1>2. SendAttempts \in Nat \ {0}
  BY DeliveriesAssumption
<1>3. Slack.attempts = SendAttempts /\ Slack.transactions = FALSE
  BY DEF Slack, Plainly
<1>4. Discord.attempts = SendAttempts /\ Discord.transactions = FALSE
  BY DEF Discord, Plainly
<1>5. Telegram.attempts = SendAttempts /\ Telegram.transactions = FALSE
  BY DEF Telegram, Plainly
<1>6. Matrix.attempts = SendAttempts /\ Matrix.transactions = TRUE
  BY DEF Matrix, Plainly
<1>7. Gotify.attempts = SendAttempts /\ Gotify.transactions = FALSE
  BY DEF Gotify, Plainly
<1>8. Pushover.attempts = SendAttempts /\ Pushover.transactions = FALSE
  BY DEF Pushover, Plainly
<1>9. Ntfy.attempts = SendAttempts /\ Ntfy.transactions = FALSE
  BY DEF Ntfy, Plainly
<1>10. FreeMobile.attempts = SendAttempts /\ FreeMobile.transactions = FALSE
  BY DEF FreeMobile, Plainly
<1>11. Email.attempts = 1 /\ Email.transactions = FALSE
  BY DEF Email, Plainly
<1>12. Webhook.attempts = SendAttempts /\ Webhook.transactions = FALSE
  BY DEF Webhook, Plainly
<1>20. PICK c \in {Slack, Discord, Telegram, Matrix, Gotify, Pushover, Ntfy, FreeMobile, Email, Webhook} :
         Backends[name] = c
  BY <1>1 DEF Backends
<1>21. name # NoChannel
  BY <1>1 DEF NoChannel
<1>22. c.attempts \in {1, SendAttempts}
  BY <1>3, <1>4, <1>5, <1>6, <1>7, <1>8, <1>9, <1>10, <1>11, <1>12
<1>23. c.transactions \in BOOLEAN
  BY <1>3, <1>4, <1>5, <1>6, <1>7, <1>8, <1>9, <1>10, <1>11, <1>12
<1> QED BY <1>2, <1>20, <1>21, <1>22, <1>23

\* What the service stored of a notification is finite.
LEMMA StoredIsFinite ==
    ASSUME DeliveryTypeOK, NEW f
    PROVE  /\ IsFiniteSet(StoredOf(f))
           /\ Cardinality(StoredOf(f)) \in Nat
<1>1. StoredOf(f) \subseteq 1..Len(arrived) /\ Len(arrived) \in Nat
  BY DEF StoredOf, DeliveryTypeOK
<1>2. IsFiniteSet(1..Len(arrived))
  BY <1>1, FS_Interval
<1> QED BY <1>1, <1>2, FS_Subset, FS_CardinalityType

\* What a step stores is one row of the notification it is about, or nothing; a
\* homeserver that stores nothing has a row of the transaction.
LEMMA StoringStep ==
    ASSUME DeliveryTypeOK, NEW f \in Notifications, Stores(f)
    PROVE  /\ arrived' \in Seq([flight : 1..notice.flights, txn : Nat])
           /\ \A g \in Notifications : g # f => {i \in DOMAIN arrived' : arrived'[i].flight = g} = StoredOf(g)
           /\ \/ /\ arrived' = arrived /\ Backend.transactions
                 /\ \E i \in DOMAIN arrived : arrived[i].txn = sending[f].txn
              \/ /\ arrived' # arrived
                 /\ arrived' = Append(arrived, [flight |-> f, txn |-> sending[f].txn])
                 /\ Backend.transactions =>
                       \A i \in DOMAIN arrived : arrived[i].txn # sending[f].txn
                 /\ {i \in DOMAIN arrived' : arrived'[i].flight = f}
                       = StoredOf(f) \cup {Len(arrived) + 1}
                 /\ Len(arrived) + 1 \notin StoredOf(f)
<1> DEFINE row == [flight |-> f, txn |-> sending[f].txn]
<1>1. f \in 1..notice.flights /\ sending[f] \in [attempt : Nat, outcome : Stages, txn : Nat]
  BY DEF Notifications, DeliveryTypeOK
<1>2. row \in [flight : 1..notice.flights, txn : Nat]
  BY <1>1
<1>3. CASE arrived' = arrived
  <2>1. \/ Backend.transactions /\ \E i \in DOMAIN arrived : arrived[i].txn = sending[f].txn
        \/ arrived' = Append(arrived, row)
    BY DEF Stores
  <2>2. arrived' # Append(arrived, row)
    <3>1. arrived \in Seq([flight : 1..notice.flights, txn : Nat])
      BY DEF DeliveryTypeOK
    <3> HIDE DEF row
    <3>2. Len(Append(arrived, row)) = Len(arrived) + 1 /\ Len(arrived) \in Nat
      BY <3>1, <1>2
    <3> QED BY <3>2, <1>3
  <2> QED BY <1>3, <2>1, <2>2 DEF StoredOf, DeliveryTypeOK
<1>4. CASE arrived' # arrived
  <2>1. /\ arrived' = Append(arrived, row)
        /\ Backend.transactions => \A i \in DOMAIN arrived : arrived[i].txn # sending[f].txn
    BY <1>4 DEF Stores
  <2>2. arrived \in Seq([flight : 1..notice.flights, txn : Nat])
    BY DEF DeliveryTypeOK
  <2>3. row.flight = f
    OBVIOUS
  <2> HIDE DEF row
  <2>4. /\ arrived' \in Seq([flight : 1..notice.flights, txn : Nat])
        /\ DOMAIN arrived' = 1..(Len(arrived) + 1)
        /\ DOMAIN arrived = 1..Len(arrived) /\ Len(arrived) \in Nat
        /\ arrived'[Len(arrived) + 1] = row
        /\ \A i \in 1..Len(arrived) : arrived'[i] = arrived[i]
    BY <2>1, <2>2, <1>2
  <2>5. \A g \in Notifications : g # f =>
           {i \in DOMAIN arrived' : arrived'[i].flight = g} = StoredOf(g)
    BY <2>3, <2>4 DEF StoredOf
  <2>6. {i \in DOMAIN arrived' : arrived'[i].flight = f} = StoredOf(f) \cup {Len(arrived) + 1}
    BY <2>3, <2>4 DEF StoredOf
  <2>7. Len(arrived) + 1 \notin StoredOf(f)
    BY <2>4 DEF StoredOf
  <2> QED BY <1>4, <2>1, <2>4, <2>5, <2>6, <2>7 DEF row
<1> QED BY <1>3, <1>4

\* What the steps of one notification do to it, and to what the service stored.
LEMMA FlightStep ==
    ASSUME DeliveryTypeOK, channel # NoChannel, DeliveriesNext
    PROVE  \E f \in Notifications :
              /\ \A g \in Notifications : g # f => sending'[g] = sending[g]
              /\ DOMAIN sending' = DOMAIN sending
              /\ UNCHANGED <<notice, channel>>
              /\ \/ /\ sending[f].outcome = "ready" /\ arrived' = arrived /\ counter' = CounterMoved
                    /\ \/ sending'[f] = [attempt |-> 1, outcome |-> "sent", txn |-> counter]
                       \/ sending'[f] = [sending[f] EXCEPT !.outcome = "failed"]
                 \/ /\ sending[f].outcome = "sent" /\ counter' = counter
                    /\ arrived' = arrived \/ Stores(f)
                    /\ \/ sending'[f] = [sending[f] EXCEPT !.outcome = "delivered"] /\ Stores(f)
                       \/ sending'[f] = [sending[f] EXCEPT !.outcome = "failed"]
                       \/ sending'[f] = [sending[f] EXCEPT !.outcome = "too_large"]
                             /\ arrived' = arrived
                       \/ /\ sending[f].attempt < Backend.attempts
                          /\ sending'[f] = [sending[f] EXCEPT !.attempt = @ + 1]
<1>1. PICK f \in Notifications :
         \/ Begin(f) \/ Unbuilt(f) \/ Taken(f) \/ GetsNoAnswer(f)
         \/ \E status \in {"overloaded", "too_large", "refused"} : Rejected(f, status)
  BY DEF DeliveriesNext
<1>2. sending = [g \in Notifications |-> sending[g]] /\ f \in DOMAIN sending
  BY DEF Notifications, DeliveryTypeOK
<1> DEFINE Goal ==
        /\ \A g \in Notifications : g # f => sending'[g] = sending[g]
        /\ DOMAIN sending' = DOMAIN sending
        /\ UNCHANGED <<notice, channel>>
        /\ \/ /\ sending[f].outcome = "ready" /\ arrived' = arrived /\ counter' = CounterMoved
              /\ \/ sending'[f] = [attempt |-> 1, outcome |-> "sent", txn |-> counter]
                 \/ sending'[f] = [sending[f] EXCEPT !.outcome = "failed"]
           \/ /\ sending[f].outcome = "sent" /\ counter' = counter
              /\ arrived' = arrived \/ Stores(f)
              /\ \/ sending'[f] = [sending[f] EXCEPT !.outcome = "delivered"] /\ Stores(f)
                 \/ sending'[f] = [sending[f] EXCEPT !.outcome = "failed"]
                 \/ sending'[f] = [sending[f] EXCEPT !.outcome = "too_large"]
                       /\ arrived' = arrived
                 \/ /\ sending[f].attempt < Backend.attempts
                    /\ sending'[f] = [sending[f] EXCEPT !.attempt = @ + 1]
<1>3. CASE Begin(f)
  <2>1. Goal
    BY <1>2, <1>3 DEF Begin, Notifications
  <2> QED BY <2>1
<1>4. CASE Unbuilt(f)
  <2>1. Goal
    BY <1>2, <1>4 DEF Unbuilt, Ends, Notifications
  <2> QED BY <2>1
<1>5. CASE Taken(f)
  <2>1. Goal
    BY <1>2, <1>5 DEF Taken, Ends, Notifications
  <2> QED BY <2>1
<1>6. CASE GetsNoAnswer(f)
  <2>1. Goal
    BY <1>2, <1>6 DEF GetsNoAnswer, RetryOr, Retried, Ends, Notifications
  <2> QED BY <2>1
<1>7. ASSUME NEW status \in {"overloaded", "too_large", "refused"}, Rejected(f, status)
      PROVE  Goal
  <2>1. \/ status = "overloaded" /\ RetryOr(f, "failed")
        \/ status = "too_large" /\ Ends(f, "too_large")
        \/ status = "refused" /\ Ends(f, "failed")
    BY <1>7 DEF Rejected
  <2> QED BY <1>2, <1>7, <2>1 DEF Rejected, RetryOr, Retried, Ends, Notifications
<1> QED BY <1>1, <1>3, <1>4, <1>5, <1>6, <1>7

\* A notification on its way.
FlightRow == [attempt : Nat, outcome : Stages, txn : Nat]

\* A notification whose outcome or attempt is set keeps the rest.
LEMMA EditedRow ==
    ASSUME NEW s \in FlightRow, NEW outcome \in Stages, NEW attempt \in Nat, NEW txn \in Nat
    PROVE  /\ [s EXCEPT !.outcome = outcome] \in FlightRow
           /\ [s EXCEPT !.outcome = outcome].outcome = outcome
           /\ [s EXCEPT !.outcome = outcome].attempt = s.attempt
           /\ [s EXCEPT !.outcome = outcome].txn = s.txn
           /\ [s EXCEPT !.attempt = @ + 1] \in FlightRow
           /\ [s EXCEPT !.attempt = @ + 1].outcome = s.outcome
           /\ [s EXCEPT !.attempt = @ + 1].attempt = s.attempt + 1
           /\ [s EXCEPT !.attempt = @ + 1].txn = s.txn
           /\ [attempt |-> attempt, outcome |-> outcome, txn |-> txn] \in FlightRow
  BY DEF FlightRow

\* The same of the fields.
FlightMove(f, s, t) ==
    \/ /\ s.outcome = "ready" /\ arrived' = arrived /\ counter' = CounterMoved
       /\ \/ t.attempt = 1 /\ t.outcome = "sent" /\ t.txn = counter
          \/ t.attempt = s.attempt /\ t.outcome = "failed" /\ t.txn = s.txn
    \/ /\ s.outcome = "sent" /\ counter' = counter /\ t.txn = s.txn
       /\ arrived' = arrived \/ Stores(f)
       /\ \/ t.attempt = s.attempt /\ t.outcome = "delivered" /\ Stores(f)
          \/ t.attempt = s.attempt /\ t.outcome = "failed"
          \/ t.attempt = s.attempt /\ t.outcome = "too_large" /\ arrived' = arrived
          \/ t.attempt = s.attempt + 1 /\ t.outcome = s.outcome /\ s.attempt < Backend.attempts

\* Every step of a delivery preserves the invariant.
LEMMA DeliveryInvStep ==
    ASSUME DeliveryInv, DeliveriesNext
    PROVE  DeliveryInv'
<1>0. channel # NoChannel /\ DeliveryTypeOK
  BY DEF DeliveriesNext, DeliveryInv
<1>1. PICK f \in Notifications :
              /\ \A g \in Notifications : g # f => sending'[g] = sending[g]
              /\ DOMAIN sending' = DOMAIN sending
              /\ UNCHANGED <<notice, channel>>
              /\ \/ /\ sending[f].outcome = "ready" /\ arrived' = arrived /\ counter' = CounterMoved
                    /\ \/ sending'[f] = [attempt |-> 1, outcome |-> "sent", txn |-> counter]
                       \/ sending'[f] = [sending[f] EXCEPT !.outcome = "failed"]
                 \/ /\ sending[f].outcome = "sent" /\ counter' = counter
                    /\ arrived' = arrived \/ Stores(f)
                    /\ \/ sending'[f] = [sending[f] EXCEPT !.outcome = "delivered"] /\ Stores(f)
                       \/ sending'[f] = [sending[f] EXCEPT !.outcome = "failed"]
                       \/ sending'[f] = [sending[f] EXCEPT !.outcome = "too_large"]
                             /\ arrived' = arrived
                       \/ /\ sending[f].attempt < Backend.attempts
                          /\ sending'[f] = [sending[f] EXCEPT !.attempt = @ + 1]
  BY <1>0, FlightStep
<1> DEFINE Row == [attempt : Nat, outcome : Stages, txn : Nat]
           Flown == [flight : 1..notice.flights, txn : Nat]
<1>2. /\ Notifications = 1..notice.flights
      /\ \A g \in Notifications : sending[g] \in Row
      /\ counter \in Nat /\ arrived \in Seq(Flown) /\ channel \in DOMAIN Backends
  BY <1>0 DEF DeliveryTypeOK, Notifications
<1>3. /\ Backend.attempts \in Nat \ {0} /\ Backend.transactions \in BOOLEAN
      /\ Backend' = Backend
  BY <1>1, <1>2, BackendFacts DEF Backend
<1>4. Notifications' = Notifications
  BY <1>1 DEF Notifications
<1>5. FlightInv(f)
  BY <1>0 DEF DeliveryInv
<1>6. StoredOf(f) \subseteq 1..Len(arrived) /\ IsFiniteSet(StoredOf(f)) /\ Cardinality(StoredOf(f)) \in Nat
  <2>1. DOMAIN arrived = 1..Len(arrived)
    BY <1>2
  <2> QED BY <1>0, <2>1, StoredIsFinite DEF StoredOf
<1>7. /\ arrived' \in Seq(Flown)
      /\ \A g \in Notifications : g # f => StoredOf(g)' = StoredOf(g)
      /\ \/ StoredOf(f)' = StoredOf(f)
         \/ ~(arrived' = arrived) /\ StoredOf(f)' = StoredOf(f) \cup {Len(arrived) + 1}
  <2>1. CASE arrived' = arrived
    BY <1>2, <2>1 DEF StoredOf
  <2>2. CASE Stores(f) /\ arrived' # arrived
    BY <1>0, <2>2, StoringStep DEF StoredOf
  <2> QED BY <1>1, <2>1, <2>2
<1>20. \A i \in DOMAIN arrived : arrived[i] \in Flown /\ arrived[i].flight \in 1..notice.flights
  <2>1. Flown = [flight : 1..notice.flights, txn : Nat]
    OBVIOUS
  <2>2. ASSUME NEW i \in DOMAIN arrived
        PROVE  arrived[i] \in Flown
    <3> HIDE DEF Flown
    <3> QED BY <1>2, <2>2
  <2> QED BY <2>1, <2>2
<1>8. /\ Cardinality(StoredOf(f)') \in Nat
      /\ Cardinality(StoredOf(f)') <= Cardinality(StoredOf(f)) + 1
      /\ arrived' = arrived => Cardinality(StoredOf(f)') = Cardinality(StoredOf(f))
  <2>1. CASE StoredOf(f)' = StoredOf(f)
    BY <1>6, <2>1
  <2>2. CASE arrived' # arrived /\ StoredOf(f)' = StoredOf(f) \cup {Len(arrived) + 1}
    <3>1. \/ Cardinality(StoredOf(f)') = Cardinality(StoredOf(f)) + 1
          \/ Cardinality(StoredOf(f)') = Cardinality(StoredOf(f))
      BY <1>6, <2>2, FS_AddElement
    <3> QED BY <1>6, <2>2, <3>1
  <2> QED BY <1>7, <2>1, <2>2
<1>9. sending'[f] \in Row /\ FlightMove(f, sending[f], sending'[f])
  <2> DEFINE s == sending[f]
             t == sending'[f]
  <2>1. s \in FlightRow /\ counter \in Nat /\ Row = FlightRow
    BY <1>2 DEF FlightRow
  <2>2. /\ "failed" \in Stages /\ "delivered" \in Stages /\ "too_large" \in Stages
        /\ "sent" \in Stages
    BY DEF Stages
  <2>9. \A o \in Stages :
           LET edited == [s EXCEPT !.outcome = o]
           IN edited \in Row /\ edited.outcome = o /\ edited.attempt = s.attempt /\ edited.txn = s.txn
    <3> HIDE DEF s, t
    <3> QED BY <2>1, EditedRow
  <2>3. CASE t = [attempt |-> 1, outcome |-> "sent", txn |-> counter] /\ s.outcome = "ready"
    BY <1>1, <2>1, <2>2, <2>3, EditedRow DEF FlightMove
  <2>4. CASE t = [s EXCEPT !.outcome = "failed"]
    <3>1. t \in Row /\ t.outcome = "failed" /\ t.attempt = s.attempt /\ t.txn = s.txn
      BY <2>1, <2>2, <2>9, <2>4
    <3>2. \/ s.outcome = "ready" /\ arrived' = arrived /\ counter' = CounterMoved
          \/ s.outcome = "sent" /\ counter' = counter /\ (arrived' = arrived \/ Stores(f))
      BY <1>1
    <3> HIDE DEF s, t
    <3>3. FlightMove(f, s, t)
      BY <3>1, <3>2 DEF FlightMove
    <3> QED BY <3>1, <3>3 DEF s, t
  <2>5. CASE t = [s EXCEPT !.outcome = "delivered"] /\ Stores(f) /\ s.outcome = "sent"
    <3>1. t \in Row /\ t.outcome = "delivered" /\ t.attempt = s.attempt /\ t.txn = s.txn
      BY <2>1, <2>2, <2>9, <2>5
    <3> QED BY <1>1, <2>5, <3>1 DEF FlightMove
  <2>6. CASE t = [s EXCEPT !.outcome = "too_large"] /\ arrived' = arrived /\ s.outcome = "sent"
    <3>1. t \in Row /\ t.outcome = "too_large" /\ t.attempt = s.attempt /\ t.txn = s.txn
      BY <2>1, <2>2, <2>9, <2>6
    <3> QED BY <1>1, <2>6, <3>1 DEF FlightMove
  <2>7. CASE t = [s EXCEPT !.attempt = @ + 1] /\ s.attempt < Backend.attempts /\ s.outcome = "sent"
    <3>1. t \in Row /\ t.outcome = s.outcome /\ t.attempt = s.attempt + 1 /\ t.txn = s.txn
      BY <2>1, <2>2, <2>7, EditedRow
    <3> QED BY <1>1, <2>7, <3>1 DEF FlightMove
  <2> QED BY <1>1, <2>3, <2>4, <2>5, <2>6, <2>7
<1>10. DeliveryTypeOK'
  <2>1. counter' \in Nat
    BY <1>1, <1>2 DEF CounterMoved
  <2>2. \A g \in Notifications : sending'[g] \in Row
    BY <1>1, <1>2, <1>9
  <2>3. sending' = [g \in 1..notice.flights |-> sending'[g]]
    BY <1>0, <1>1, <1>2, FlightStep DEF DeliveryTypeOK, Notifications, DeliveriesNext, Begin, Unbuilt,
       Taken, Rejected, GetsNoAnswer, RetryOr, Retried, Ends
  <2> QED BY <1>0, <1>1, <1>2, <1>7, <2>1, <2>2, <2>3 DEF DeliveryTypeOK
<1>11. ASSUME NEW g \in Notifications
       PROVE  FlightInv(g)'
  <2>1. CASE g # f
    <3>1. FlightInv(g) /\ sending'[g] = sending[g] /\ StoredOf(g)' = StoredOf(g)
      BY <1>0, <1>1, <1>7, <2>1 DEF DeliveryInv
    <3> QED BY <1>3, <3>1 DEF FlightInv
  <2>2. CASE g = f
    <3>1. sending[f] \in Row
      BY <1>2
    <3>2. ASSUME Stores(f), sending[f].outcome = "sent"
          PROVE  StoredOf(f)' # {}
      <4>2. CASE arrived' # arrived
        BY <1>7, <4>2, StoringStep, <1>0, <3>2 DEF StoredOf
      <4>3. CASE arrived' = arrived
        <5>1. /\ Backend.transactions
              /\ \E i \in DOMAIN arrived : arrived[i].txn = sending[f].txn
          BY <1>0, <3>2, <4>3, StoringStep
        <5>2. PICK i \in DOMAIN arrived : arrived[i].txn = sending[f].txn
          BY <5>1
        <5>3. TransactionInv
          BY <1>0, <5>1 DEF DeliveryInv
        <5>4. arrived[i].flight \in Notifications
          BY <1>2, <1>20
        <5>5. sending[f].attempt > 0
          BY <1>5, <1>6, <3>1, <3>2 DEF FlightInv
        <5>6. arrived[i].flight = f
          BY <5>2, <5>3, <5>4, <5>5 DEF TransactionInv, HasBegun
        <5> QED BY <4>3, <5>6 DEF StoredOf
      <4> QED BY <4>2, <4>3
    <3> DEFINE s == sending[f]
               t == sending'[f]
               was == Cardinality(StoredOf(f))
               is == Cardinality(StoredOf(f)')
    <3>5. /\ s \in Row /\ t \in Row /\ FlightMove(f, s, t)
          /\ was \in Nat /\ is \in Nat /\ is <= was + 1
          /\ arrived' = arrived => is = was
          /\ s.attempt \in Nat /\ t.attempt \in Nat
      BY <1>2, <1>6, <1>8, <1>9
    <3>6. /\ s.attempt <= Backend.attempts
          /\ s.outcome = "ready" => s.attempt = 0
          /\ was <= s.attempt
          /\ s.outcome = "sent" => was < s.attempt
      BY <1>5 DEF FlightInv
    <3>7. /\ t.attempt <= Backend.attempts
          /\ t.outcome # "ready"
          /\ t.outcome = "delivered" => StoredOf(f)' # {}
          /\ is <= t.attempt
          /\ t.outcome = "sent" \/ t.outcome = "too_large" => is < t.attempt
      <4>1. t.outcome = "delivered" => StoredOf(f)' # {}
        BY <3>2, <3>5 DEF FlightMove
      <4> HIDE DEF s, t, was, is
      <4>2. CASE s.outcome = "ready"
        BY <4>1, <1>3, <3>5, <3>6, <4>2 DEF FlightMove
      <4>3. CASE s.outcome = "sent"
        BY <4>1, <1>3, <3>5, <3>6, <4>3 DEF FlightMove
      <4> QED BY <3>5, <4>2, <4>3 DEF FlightMove
    <3> QED BY <1>3, <2>2, <3>7 DEF FlightInv
  <2> QED BY <2>1, <2>2
<1>12. ASSUME Backend.transactions
       PROVE  TransactionInv'
  <2>1. TransactionInv
    BY <1>0, <1>12 DEF DeliveryInv
  <2>2. sending[f] \in Row /\ sending'[f] \in Row
    BY <1>2, <1>9
  <2>3. CASE sending[f].outcome = "ready"
    <3>1. arrived' = arrived /\ counter' = counter + 1
      BY <1>1, <1>12, <2>3 DEF CounterMoved
    <3>2. ~HasBegun(f)
      BY <1>5, <2>3 DEF FlightInv, HasBegun
    <3>3. sending'[f].attempt > 0 => sending'[f].txn = counter
      BY <1>9, <2>2, <2>3, <3>2 DEF HasBegun, FlightMove
    <3>4. \A g \in Notifications : sending'[g].attempt > 0 => sending'[g].txn < counter + 1
      <4>1. TAKE g \in Notifications
      <4>2. sending[g] \in Row /\ sending[g].txn \in Nat
        BY <1>2
      <4>3. CASE g = f
        BY <1>2, <3>3, <4>3
      <4>4. CASE g # f
        BY <1>1, <1>2, <2>1, <4>2, <4>4 DEF TransactionInv, HasBegun
      <4> QED BY <4>3, <4>4
    <3>5. \A g, h \in Notifications :
            sending'[g].attempt > 0 /\ sending'[h].attempt > 0 /\ sending'[g].txn = sending'[h].txn
               => g = h
      <4>1. \A g \in Notifications : g # f /\ sending'[g].attempt > 0 => sending'[g].txn < counter
        BY <1>1, <2>1 DEF TransactionInv, HasBegun
      <4>2. \A g, h \in Notifications :
              g # f /\ h # f /\ sending'[g].attempt > 0 /\ sending'[h].attempt > 0
                /\ sending'[g].txn = sending'[h].txn => g = h
        BY <1>1, <2>1 DEF TransactionInv, HasBegun
      <4>3. \A g \in Notifications : g # f /\ sending'[g].attempt > 0 => sending'[g].txn # counter
        <5>1. TAKE g \in Notifications
        <5>2. g # f => sending'[g] = sending[g] /\ sending[g] \in Row /\ sending[g].txn \in Nat
          BY <1>1, <1>2
        <5> QED BY <1>2, <4>1, <5>2
      <4> QED BY <3>3, <4>2, <4>3, Zenon
    <3>6. \A i \in DOMAIN arrived : /\ sending'[arrived[i].flight].attempt > 0
                                    /\ arrived[i].txn = sending'[arrived[i].flight].txn
      <4>1. TAKE i \in DOMAIN arrived
      <4>3. arrived[i].flight \in Notifications /\ arrived[i].flight # f
        BY <1>2, <1>20, <2>1, <3>2 DEF TransactionInv
      <4> QED BY <1>1, <2>1, <4>3 DEF TransactionInv, HasBegun
    <3> QED BY <1>4, <2>1, <3>1, <3>4, <3>5, <3>6 DEF TransactionInv, HasBegun
  <2>4. CASE sending[f].outcome = "sent"
    <3>1. HasBegun(f) /\ sending'[f].attempt > 0 /\ sending'[f].txn = sending[f].txn
      <4>1. sending[f].attempt > 0
        BY <1>5, <1>6, <2>2, <2>4 DEF FlightInv
      <4> QED BY <1>9, <2>2, <2>4, <4>1 DEF HasBegun, FlightMove
    <3>2. \A g \in Notifications : (sending'[g].attempt > 0) = HasBegun(g) /\ sending'[g].txn = sending[g].txn
      BY <1>1, <3>1 DEF HasBegun
    <3>3. counter' = counter
      BY <1>1, <2>4
    <3>4. CASE arrived' = arrived
      <4>1. \A i \in DOMAIN arrived : arrived[i].flight \in Notifications
        BY <1>2, <1>20
      <4> QED BY <1>4, <2>1, <3>2, <3>3, <3>4, <4>1 DEF TransactionInv, HasBegun
    <3>5. CASE Stores(f) /\ arrived' # arrived
      <4> DEFINE row == [flight |-> f, txn |-> sending[f].txn]
      <4>1. arrived' = Append(arrived, row) /\ \A i \in DOMAIN arrived : arrived[i].txn # sending[f].txn
        BY <1>0, <1>12, <3>5, StoringStep
      <4>2. row \in Flown /\ row.flight = f /\ row.txn = sending[f].txn
        BY <1>2, <2>2
      <4> HIDE DEF row
      <4>3. /\ DOMAIN arrived' = 1..(Len(arrived) + 1)
            /\ DOMAIN arrived = 1..Len(arrived) /\ Len(arrived) \in Nat
            /\ arrived'[Len(arrived) + 1] = row
            /\ \A i \in 1..Len(arrived) : arrived'[i] = arrived[i]
        <5> HIDE DEF Flown
        <5> QED BY <4>1, <4>2, <1>2
      <4>4. \A i \in DOMAIN arrived' : /\ sending'[arrived'[i].flight].attempt > 0
                                       /\ arrived'[i].txn = sending'[arrived'[i].flight].txn
        <5>1. TAKE i \in DOMAIN arrived'
        <5>2. CASE i \in 1..Len(arrived)
          <6>1. arrived[i].flight \in Notifications
            BY <1>2, <1>20, <4>3, <5>2
          <6> QED BY <2>1, <3>2, <4>3, <5>2, <6>1 DEF TransactionInv, HasBegun
        <5>3. CASE i = Len(arrived) + 1
          BY <3>1, <4>2, <4>3, <5>3
        <5> QED BY <4>3, <5>2, <5>3
      <4>5. \A i, j \in DOMAIN arrived' : arrived'[i].txn = arrived'[j].txn => i = j
        BY <2>1, <4>1, <4>2, <4>3 DEF TransactionInv
      <4>6. \A g \in Notifications : sending'[g].attempt > 0 => sending'[g].txn < counter
        BY <2>1, <3>2 DEF TransactionInv, HasBegun
      <4>7. \A g, h \in Notifications :
              sending'[g].attempt > 0 /\ sending'[h].attempt > 0 /\ sending'[g].txn = sending'[h].txn
                 => g = h
        BY <2>1, <3>2 DEF TransactionInv, HasBegun
      <4> QED BY <1>4, <3>3, <4>4, <4>5, <4>6, <4>7 DEF TransactionInv, HasBegun
    <3> QED BY <1>1, <2>4, <3>4, <3>5
  <2> QED BY <1>1, <2>3, <2>4
<1> QED BY <1>1, <1>3, <1>4, <1>10, <1>11, <1>12 DEF DeliveryInv

\* notify is called with nothing sent and nothing stored.
LEMMA DeliveryInvInit == DeliveriesInit => DeliveryInv
<1> SUFFICES ASSUME DeliveriesInit PROVE DeliveryInv
  OBVIOUS
<1> DEFINE atFirst == [attempt |-> 0, outcome |-> "ready", txn |-> 0]
<1>1. notice \in Notices /\ channel \in {NoChannel} \cup DOMAIN Backends
  BY DeliveriesAssumption DEF DeliveriesInit
<1>2. atFirst \in [attempt : Nat, outcome : Stages, txn : Nat]
  BY DEF Stages
<1>3. arrived = <<>> /\ counter = 0 /\ sending = [f \in 1..notice.flights |-> atFirst]
  BY DEF DeliveriesInit
<1>4. arrived \in Seq([flight : 1..notice.flights, txn : Nat]) /\ DOMAIN arrived = {}
  BY <1>3
<1>5. DeliveryTypeOK
  <2> HIDE DEF atFirst
  <2> QED BY <1>1, <1>2, <1>3, <1>4 DEF DeliveryTypeOK
<1>6. ASSUME NEW f \in Notifications PROVE sending[f] = atFirst
  BY <1>3 DEF Notifications
<1>7. ASSUME NEW f \in Notifications, channel # NoChannel PROVE FlightInv(f)
  <2>1. StoredOf(f) = {} /\ Cardinality(StoredOf(f)) = 0
    BY <1>4, FS_EmptySet DEF StoredOf
  <2>2. Backend.attempts \in Nat
    BY <1>1, <1>7, BackendFacts DEF Backend
  <2> QED BY <1>6, <2>1, <2>2 DEF FlightInv
<1>8. TransactionInv
  <2>1. \A f \in Notifications : ~HasBegun(f)
    BY <1>6 DEF HasBegun
  <2> QED BY <1>4, <2>1 DEF TransactionInv
<1> QED BY <1>5, <1>7, <1>8 DEF DeliveryInv

\* The invariant of a delivery holds in every state.
LEMMA DeliveryInvHolds == DeliveriesSpec => []DeliveryInv
<1>1. DeliveryInv /\ UNCHANGED deliveryVars => DeliveryInv'
  <2> SUFFICES ASSUME DeliveryInv, UNCHANGED deliveryVars PROVE DeliveryInv'
    OBVIOUS
  <2>1. UNCHANGED <<notice, channel, sending, arrived, counter>>
    BY DEF deliveryVars
  <2>2. DeliveryTypeOK' = DeliveryTypeOK
    BY <2>1 DEF DeliveryTypeOK
  <2>3. Notifications' = Notifications /\ Backend' = Backend
    BY <2>1 DEF Notifications, Backend
  <2>4. ASSUME NEW f \in Notifications PROVE FlightInv(f)' = FlightInv(f)
    BY <2>1, <2>3 DEF FlightInv, StoredOf
  <2>5. TransactionInv' = TransactionInv
    BY <2>1 DEF TransactionInv, HasBegun, Notifications
  <2> QED BY <2>1, <2>2, <2>3, <2>4, <2>5 DEF DeliveryInv
<1> QED BY <1>1, DeliveryInvInit, DeliveryInvStep, PTL DEF DeliveriesSpec

\* The invariant implies that what is reported delivered was stored.
LEMMA DeliveryInvSuffices ==
    ASSUME DeliveryInv, channel # NoChannel
    PROVE  ReportedIsStored
<1>1. DeliveryTypeOK
  BY DEF DeliveryInv
<1> SUFFICES ASSUME NEW f \in Notifications
             PROVE  LET s == sending[f]
                    IN /\ s.outcome = "delivered" => StoredOf(f) # {}
                       /\ Cardinality(StoredOf(f)) <= IF Backend.transactions THEN 1 ELSE s.attempt
                       /\ s.attempt <= Backend.attempts
                       /\ s.outcome = "too_large" => Cardinality(StoredOf(f)) < s.attempt
  BY DEF ReportedIsStored
<1>2. FlightInv(f)
  BY DEF DeliveryInv
<1>3. ASSUME Backend.transactions PROVE Cardinality(StoredOf(f)) <= 1
  <2>1. TransactionInv
    BY <1>3 DEF DeliveryInv
  <2>2. \A i, j \in StoredOf(f) : i = j
    BY <2>1 DEF TransactionInv, StoredOf
  <2>3. CASE StoredOf(f) = {}
    BY <2>3, FS_EmptySet
  <2>4. CASE StoredOf(f) # {}
    <3>1. PICK i \in StoredOf(f) : StoredOf(f) = {i}
      BY <2>2, <2>4
    <3> QED BY <3>1, FS_Singleton
  <2> QED BY <2>3, <2>4
<1> QED BY <1>2, <1>3 DEF FlightInv

---------------------------------------------------------------------------
(* What a notification says, and how much of it is shown (Deliveries) *)

\* What a channel counts, and the texts before and after they are cut.
SizeUnits == {"chars", "bytes"}
Pieces(S) ==
    [of : S, sort : Sorts, length : Nat, name : Nat, end : {"whole", "marked", "bare"}]
Wholes(S) == [of : S, sort : Sorts, length : Nat, name : Nat, end : {"whole"}]

\* A character costs one or four, a mark one or three.
LEMMA CostFacts ==
    ASSUME NEW sort \in Sorts, NEW unit \in SizeUnits
    PROVE  Cost(sort, unit) \in {1, 4} /\ Ellipsis(unit) \in {1, 3}
  BY DEF Cost, Ellipsis

\* A text measures its characters and its mark.
LEMMA MeasureFacts ==
    ASSUME NEW S, NEW text \in Pieces(S), NEW unit \in SizeUnits
    PROVE  /\ Measure(text, unit) \in Nat
           /\ text.end # "marked" => Measure(text, unit) = text.length * Cost(text.sort, unit)
           /\ text.end = "marked" =>
                 Measure(text, unit) = text.length * Cost(text.sort, unit) + Ellipsis(unit)
           /\ text.length <= Measure(text, unit)
           /\ Cost(text.sort, unit) \in {1, 4} /\ Ellipsis(unit) \in {1, 3}
<1>1. text.sort \in Sorts /\ text.length \in Nat
  BY DEF Pieces
<1>2. Cost(text.sort, unit) \in {1, 4} /\ Ellipsis(unit) \in {1, 3}
  BY <1>1, CostFacts
<1>3. CASE Cost(text.sort, unit) = 1
  BY <1>1, <1>2, <1>3 DEF Measure
<1>4. CASE Cost(text.sort, unit) = 4
  BY <1>1, <1>2, <1>4 DEF Measure
<1> QED BY <1>2, <1>3, <1>4

\* Truncate returns a beginning that fits, and leaves alone what fits.
LEMMA TruncateFacts ==
    ASSUME NEW S, NEW text \in Wholes(S), NEW max \in Nat, NEW unit \in SizeUnits
    PROVE  LET cut == Truncate(text, max, unit)
           IN /\ cut \in Pieces(S)
              /\ cut.name = text.name /\ cut.sort = text.sort
              /\ Measure(cut, unit) <= max
              /\ IsCutOf(cut, text, unit)
              /\ Measure(text, unit) <= max => cut = text
              /\ cut = text => Measure(text, unit) <= max
<1> DEFINE cut == Truncate(text, max, unit)
           cost == Cost(text.sort, unit)
           mark == Ellipsis(unit)
           room == IF max >= mark THEN max - mark ELSE max
           end == IF max >= mark THEN "marked" ELSE "bare"
<1>1. text \in Pieces(S) /\ text.sort \in Sorts /\ text.length \in Nat /\ text.end = "whole"
  BY DEF Wholes, Pieces
<1>2. cost \in {1, 4} /\ mark \in {1, 3}
  BY <1>1, CostFacts
<1>3. Measure(text, unit) = text.length * cost /\ Measure(text, unit) \in Nat
  BY <1>1, MeasureFacts
<1>4. CASE Measure(text, unit) <= max
  <2>1. cut = text
    BY <1>4 DEF Truncate
  <2> QED BY <1>1, <1>4, <2>1 DEF IsCutOf
<1>5. CASE ~(Measure(text, unit) <= max)
  <2>1. cut = [text EXCEPT !.length = room \div cost, !.end = end]
    BY <1>5, Zenon DEF Truncate
  <2>2. room \in Nat /\ room <= max /\ room \div cost \in Nat
    <3>1. room \in Nat /\ room <= max
      BY <1>2
    <3> HIDE DEF room, cost
    <3> QED BY <1>2, <3>1
  <2>3. /\ cut \in Pieces(S) /\ cut.length = room \div cost /\ cut.end = end
        /\ cut.name = text.name /\ cut.sort = text.sort /\ cut.of = text.of
    <3> DEFINE n == room \div cost
    <3>1. n \in Nat /\ end \in {"marked", "bare"} /\ cut = [text EXCEPT !.length = n, !.end = end]
      BY <2>1, <2>2
    <3> HIDE DEF n, cut, end
    <3>2. cut \in Pieces(S) /\ cut.length = n /\ cut.end = end
          /\ cut.name = text.name /\ cut.sort = text.sort /\ cut.of = text.of
      BY <1>1, <3>1 DEF Pieces
    <3> QED BY <3>2 DEF n
  <2>4. cut.length * cost <= room /\ cut.length < text.length
    <3> HIDE DEF cut, room
    <3>1. CASE cost = 1
      BY <1>1, <1>3, <1>5, <2>2, <2>3, <3>1
    <3>2. CASE cost = 4
      BY <1>1, <1>3, <1>5, <2>2, <2>3, <3>2
    <3> QED BY <1>2, <3>1, <3>2
  <2>5. Measure(cut, unit) = cut.length * cost + (IF end = "marked" THEN mark ELSE 0)
    BY <2>3, Zenon DEF Measure
  <2>6. cut.length * cost \in Nat
    BY <1>2, <2>2, <2>3
  <2>7. Measure(cut, unit) <= max /\ (end = "bare" => Measure(cut, unit) < mark)
    <3> DEFINE m == cut.length * cost
    <3>1. m \in Nat /\ m <= room /\ Measure(cut, unit) = m + (IF end = "marked" THEN mark ELSE 0)
      BY <2>4, <2>5, <2>6
    <3> HIDE DEF m
    <3> QED BY <1>2, <3>1
  <2>8. IsCutOf(cut, text, unit)
    <3>1. cut = [text EXCEPT !.length = cut.length, !.end = cut.end]
      BY <2>1, <2>3
    <3>2. cut.end = "marked" \/ cut.end = "bare"
      BY <2>3
    <3> QED BY <2>3, <2>4, <2>7, <3>1, <3>2 DEF IsCutOf
  <2>9. cut # text
    BY <1>1, <2>2, <2>3, <2>4
  <2> QED BY <1>5, <2>3, <2>7, <2>8, <2>9
<1> QED BY <1>4, <1>5

\* What an event's texts say.
Said(e) == {"phrase", e.who.of} \cup {e[field][1].of : field \in OptionalTexts}

\* At most k texts, each with something on its line.
Short(S, k, texts) ==
    /\ texts \in Seq(Wholes(S)) /\ Len(texts) <= k
    /\ \A i \in DOMAIN texts : texts[i].name + texts[i].length > 0

\* Lines followed by lines are as many as both.
LEMMA ShortConcat ==
    ASSUME NEW S, NEW j \in Nat, NEW k \in Nat, NEW a, NEW b, Short(S, j, a), Short(S, k, b)
    PROVE  Short(S, j + k, a \o b)
<1> DEFINE W == Wholes(S)
<1>1. a \in Seq(W) /\ b \in Seq(W) /\ Len(a) <= j /\ Len(b) <= k
  BY DEF Short
<1>2. /\ a \o b \in Seq(W) /\ Len(a \o b) = Len(a) + Len(b)
      /\ \A i \in 1..(Len(a) + Len(b)) : (a \o b)[i] = IF i <= Len(a) THEN a[i] ELSE b[i - Len(a)]
  <2> HIDE DEF W
  <2> QED BY <1>1, ConcatProperties
<1>3. Len(a) \in Nat /\ Len(b) \in Nat /\ DOMAIN a = 1..Len(a) /\ DOMAIN b = 1..Len(b)
      /\ DOMAIN (a \o b) = 1..(Len(a) + Len(b))
  <2> HIDE DEF W
  <2> QED BY <1>1, <1>2
<1>4. ASSUME NEW i \in DOMAIN (a \o b) PROVE (a \o b)[i].name + (a \o b)[i].length > 0
  <2>1. CASE i <= Len(a)
    BY <1>2, <1>3, <2>1 DEF Short
  <2>2. CASE ~(i <= Len(a))
    <3>1. i - Len(a) \in DOMAIN b /\ (a \o b)[i] = b[i - Len(a)]
      BY <1>2, <1>3, <2>2
    <3> QED BY <3>1 DEF Short
  <2> QED BY <2>1, <2>2
<1> QED BY <1>1, <1>2, <1>3, <1>4 DEF Short

\* A fixed phrase is a whole text with something in it.
LEMMA PhraseFacts ==
    ASSUME NEW S, "phrase" \in S
    PROVE  Phrase \in Wholes(S) /\ Phrase.length = PHRASE /\ Phrase.name = 0 /\ PHRASE \in Nat \ {0}
           /\ Phrase.of = "phrase"
  BY DeliveriesAssumption DEF Phrase, Text, Wholes, Sorts

\* A sequence of one.
LEMMA SingletonFacts ==
    ASSUME NEW W, NEW x \in W
    PROVE  <<x>> \in Seq(W) /\ Len(<<x>>) = 1 /\ <<x>>[1] = x /\ DOMAIN <<x>> = {1}
  OBVIOUS

\* A text with a phrase in front still says it, and is longer.
LEMMA SayingFacts ==
    ASSUME NEW S, NEW text \in Wholes(S)
    PROVE  /\ Saying(<<text>>) = <<[text EXCEPT !.length = @ + PHRASE]>>
           /\ [text EXCEPT !.length = @ + PHRASE] \in Wholes(S)
           /\ [text EXCEPT !.length = @ + PHRASE].length = text.length + PHRASE
           /\ [text EXCEPT !.length = @ + PHRASE].of = text.of
           /\ Short(S, 1, Saying(<<text>>))
           /\ Saying(<<>>) = <<>>
<1> DEFINE said == [text EXCEPT !.length = @ + PHRASE]
<1>1. PHRASE \in Nat \ {0} /\ text.length \in Nat
  BY DeliveriesAssumption DEF Wholes
<1>2. /\ said \in Wholes(S) /\ said.length = text.length + PHRASE /\ said.of = text.of
      /\ said.name \in Nat
  BY <1>1 DEF Wholes
<1>3. Saying(<<text>>) = <<said>> /\ Saying(<<>>) = <<>>
  BY DEF Saying
<1>4. Short(S, 1, <<said>>)
  <2> HIDE DEF said
  <2>1. <<said>> \in Seq(Wholes(S)) /\ Len(<<said>>) = 1 /\ <<said>>[1] = said /\ DOMAIN <<said>> = {1}
    BY <1>2, SingletonFacts
  <2>2. said.name + said.length > 0
    BY <1>1, <1>2
  <2> QED BY <2>1, <2>2 DEF Short
<1> QED BY <1>2, <1>3, <1>4

\* A text with a name in front still says it.
LEMMA FieldsFacts ==
    ASSUME NEW S, NEW text \in Wholes(S)
    PROVE  /\ Fields(<<text>>) = <<[text EXCEPT !.name = 5]>>
           /\ [text EXCEPT !.name = 5].of = text.of
           /\ [text EXCEPT !.name = 5].length = text.length
           /\ Short(S, 1, Fields(<<text>>))
<1> DEFINE field == [text EXCEPT !.name = 5]
<1>1. text.length \in Nat
  BY DEF Wholes
<1>2. field \in Wholes(S) /\ field.length = text.length /\ field.of = text.of /\ field.name = 5
  BY <1>1 DEF Wholes
<1>3. Fields(<<text>>) = <<field>>
  BY DEF Fields, FieldOf
<1>4. Short(S, 1, <<field>>)
  <2> HIDE DEF field
  <2>1. <<field>> \in Seq(Wholes(S)) /\ Len(<<field>>) = 1 /\ <<field>>[1] = field
        /\ DOMAIN <<field>> = {1}
    BY <1>2, SingletonFacts
  <2>2. field.name + field.length > 0
    BY <1>1, <1>2
  <2> QED BY <2>1, <2>2 DEF Short
<1> QED BY <1>2, <1>3, <1>4

\* No lines are few enough.
LEMMA ShortNone == ASSUME NEW S PROVE Short(S, 0, <<>>) /\ Short(S, 1, <<>>)
<1>1. <<>> \in Seq(Wholes(S)) /\ Len(<<>>) = 0 /\ DOMAIN <<>> = {}
  OBVIOUS
<1> QED BY <1>1 DEF Short

\* A text that is not empty makes a line.
LEMMA ShortOne ==
    ASSUME NEW S, NEW text \in Wholes(S), text.length > 0
    PROVE  Short(S, 1, <<text>>)
<1>1. <<text>> \in Seq(Wholes(S)) /\ Len(<<text>>) = 1 /\ <<text>>[1] = text /\ DOMAIN <<text>> = {1}
  BY SingletonFacts
<1>2. text.name + text.length > 0
  BY DEF Wholes
<1> QED BY <1>1, <1>2 DEF Short

\* A text of an event is whole.
LEMMA TextFacts ==
    ASSUME NEW S, NEW text, IsText(text), text.of \in S
    PROVE  text \in Wholes(S) /\ text.name = 0 /\ text.end = "whole" /\ text.length \in Nat
  BY DEF IsText, Text, Wholes

\* A field of an event is absent, or one whole text.
LEMMA OptionalFacts ==
    ASSUME NEW e, IsEvent(e), NEW field \in OptionalTexts
    PROVE  \/ e[field] = <<>>
           \/ /\ e[field] = <<e[field][1]>> /\ e[field][1] \in Wholes(Said(e))
              /\ e[field] # <<>>
<1>1. IsOptional(e[field])
  BY DEF IsEvent
<1>2. CASE e[field] # <<>>
  <2>1. e[field] = <<e[field][1]>> /\ IsText(e[field][1])
    BY <1>1, <1>2, Zenon DEF IsOptional
  <2>2. e[field][1].of \in Said(e)
    BY DEF Said
  <2>3. e[field][1] \in Wholes(Said(e))
    BY <2>1, <2>2, TextFacts
  <2> QED BY <1>2, <2>1, <2>3
<1> QED BY <1>2

\* At most one whole text.
IsOne(S, texts) ==
    texts = <<>> \/ (texts = <<texts[1]>> /\ texts[1] \in Wholes(S) /\ texts # <<>>)

\* A phrase and an optional text make at most one line, never an empty one.
LEMMA SayingShort ==
    ASSUME NEW S, NEW texts, IsOne(S, texts)
    PROVE  Short(S, 1, Saying(texts))
<1>1. CASE texts = <<>>
  BY <1>1, ShortNone DEF Saying
<1>2. CASE texts # <<>>
  <2>1. PICK text \in Wholes(S) : texts = <<text>>
    BY <1>2 DEF IsOne
  <2> QED BY <2>1, SayingFacts
<1> QED BY <1>1, <1>2

\* An optional text that is not empty makes at most one line.
LEMMA OneShort ==
    ASSUME NEW S, NEW texts, IsOne(S, texts), \A i \in DOMAIN texts : texts[i].length > 0
    PROVE  Short(S, 1, texts)
<1>1. CASE texts = <<>>
  BY <1>1, ShortNone
<1>2. CASE texts # <<>>
  <2>1. PICK text \in Wholes(S) : texts = <<text>>
    BY <1>2 DEF IsOne
  <2>2. text.length > 0
    BY <2>1
  <2> QED BY <2>1, <2>2, ShortOne
<1> QED BY <1>1, <1>2

\* NonEmpty leaves at most one line, never an empty one.
LEMMA NonEmptyShort ==
    ASSUME NEW S, NEW texts, IsOne(S, texts)
    PROVE  Short(S, 1, NonEmpty(texts)) /\ IsOne(S, NonEmpty(texts))
<1>1. CASE texts = <<>>
  BY <1>1, ShortNone DEF NonEmpty, IsOne
<1>2. CASE texts # <<>>
  <2>1. PICK text \in Wholes(S) : texts = <<text>> /\ texts[1] = text
    BY <1>2 DEF IsOne
  <2>2. text.length \in Nat /\ text.end = "whole"
    BY DEF Wholes
  <2>3. CASE text.length = 0
    BY <1>2, <2>1, <2>2, <2>3, ShortNone DEF NonEmpty, IsEmpty, IsOne
  <2>4. CASE text.length > 0
    <3>1. NonEmpty(texts) = texts
      BY <1>2, <2>1, <2>2, <2>4 DEF NonEmpty, IsEmpty
    <3> QED BY <2>1, <2>4, <3>1, ShortOne
  <2> QED BY <2>2, <2>3, <2>4
<1> QED BY <1>1, <1>2

\* At most one text is a sequence of texts.
LEMMA OneFacts ==
    ASSUME NEW S, NEW texts, IsOne(S, texts)
    PROVE  texts \in Seq(Wholes(S)) /\ Len(texts) <= 1
<1>1. CASE texts = <<>>
  BY <1>1
<1>2. CASE texts # <<>>
  <2>1. PICK text \in Wholes(S) : texts = <<text>>
    BY <1>2 DEF IsOne
  <2> QED BY <2>1, SingletonFacts
<1> QED BY <1>1, <1>2

\* Few lines are no more than many.
LEMMA ShortMore ==
    ASSUME NEW S, NEW j \in Nat, NEW k \in Nat, NEW texts, Short(S, j, texts), j <= k
    PROVE  Short(S, k, texts)
<1>1. texts \in Seq(Wholes(S)) /\ Len(texts) \in Nat /\ Len(texts) <= j
  BY DEF Short
<1> QED BY <1>1 DEF Short

\* A named field makes one line.
LEMMA FieldsShort ==
    ASSUME NEW S, NEW texts, IsOne(S, texts), texts # <<>>
    PROVE  Short(S, 1, Fields(texts))
<1>1. PICK text \in Wholes(S) : texts = <<text>>
  BY DEF IsOne
<1> QED BY <1>1, FieldsFacts

\* A rendered message: one headline, at most one code block, at most three lines.
IsMessage(S, message) ==
    /\ message = [subject |-> message.subject, rest |-> message.rest,
                  code |-> message.code, lines |-> message.lines]
    /\ message.subject \in Wholes(S) /\ message.rest \in Wholes(S)
    /\ IsOne(S, message.code)
    /\ Short(S, 3, message.lines)

\* Each optional field of an event is at most one whole text.
LEMMA FieldsOfEvent ==
    ASSUME NEW e, IsEvent(e)
    PROVE  /\ IsOne(Said(e), e.about) /\ IsOne(Said(e), e.error) /\ IsOne(Said(e), e.cause)
           /\ IsOne(Said(e), e.impacted) /\ IsOne(Said(e), e.vantage) /\ IsOne(Said(e), e.change)
           /\ IsOne(Said(e), e.detail) /\ IsOne(Said(e), e.notes) /\ IsOne(Said(e), e.url)
           /\ IsOne(Said(e), e.old) /\ IsOne(Said(e), e.new)
<1>1. \A field \in OptionalTexts : IsOne(Said(e), e[field])
  BY OptionalFacts DEF IsOne
<1> QED BY <1>1 DEF OptionalTexts

\* The details of an event are at most one code block and three lines, none empty.
LEMMA DetailsFacts ==
    ASSUME NEW e, IsEvent(e)
    PROVE  /\ Details(e) = [code |-> Details(e).code, lines |-> Details(e).lines]
           /\ IsOne(Said(e), Details(e).code) /\ Short(Said(e), 3, Details(e).lines)
<1> DEFINE S == Said(e)
<1>1. "phrase" \in S
  BY DEF Said
<1>2. Phrase \in Wholes(S) /\ Phrase.length > 0
  BY <1>1, PhraseFacts
<1>3. IsOne(S, <<Phrase>>) /\ Short(S, 1, <<Phrase>>)
  <2>1. IsOne(S, <<Phrase>>)
    BY <1>2 DEF IsOne
  <2> QED BY <1>2, <2>1, ShortOne
<1>4. /\ IsOne(S, e.error) /\ IsOne(S, e.cause) /\ IsOne(S, e.impacted) /\ IsOne(S, e.vantage)
      /\ IsOne(S, e.change) /\ IsOne(S, e.detail) /\ IsOne(S, e.notes) /\ IsOne(S, e.url)
      /\ IsOne(S, e.old) /\ IsOne(S, e.new)
  BY FieldsOfEvent
<1>5. Short(S, 1, e.vantage) /\ Short(S, 1, e.notes) /\ Short(S, 1, e.url)
  <2>1. \A field \in {"vantage", "notes", "url"} : \A i \in DOMAIN e[field] : e[field][i].length > 0
    BY DEF IsEvent
  <2>2. /\ \A i \in DOMAIN e.vantage : e.vantage[i].length > 0
        /\ \A i \in DOMAIN e.notes : e.notes[i].length > 0
        /\ \A i \in DOMAIN e.url : e.url[i].length > 0
    BY <2>1
  <2> QED BY <1>4, <2>2, OneShort
<1>6. IsOne(S, <<>>) /\ Short(S, 0, <<>>) /\ Short(S, 3, <<>>)
  BY ShortNone, ShortMore DEF IsOne
<1> DEFINE Good(d) == /\ d = [code |-> d.code, lines |-> d.lines]
                      /\ IsOne(S, d.code) /\ Short(S, 3, d.lines)
<1>7. ASSUME NEW code, NEW lines, IsOne(S, code), Short(S, 3, lines)
      PROVE  Good([code |-> code, lines |-> lines])
  BY <1>7
<1>8. CASE e.kind = "down"
  <2> DEFINE a == Saying(IF e.cause # <<>> THEN e.cause ELSE e.impacted)
             c == Saying(e.change)
             code == IF e.error = <<>> THEN <<Phrase>> ELSE e.error
  <2>1. Short(S, 1, a) /\ Short(S, 1, c) /\ IsOne(S, code)
    BY <1>3, <1>4, SayingShort
  <2>2. Details(e) = [code |-> code, lines |-> a \o e.vantage \o c]
    BY <1>8 DEF Details
  <2> HIDE DEF a, c, code, S
  <2>3. Short(S, 1 + 1, a \o e.vantage)
    BY <1>5, <2>1, ShortConcat
  <2>4. Short(S, 2 + 1, a \o e.vantage \o c)
    BY <2>1, <2>3, ShortConcat
  <2>5. Short(S, 3, a \o e.vantage \o c)
    BY <2>4
  <2> QED BY <1>7, <2>1, <2>2, <2>5 DEF S
<1>9. CASE e.kind = "release"
  <2>1. Details(e) = [code |-> <<>>, lines |-> e.notes \o e.url]
    BY <1>9 DEF Details
  <2>2. Short(S, 1 + 1, e.notes \o e.url)
    BY <1>5, ShortConcat
  <2>3. Short(S, 3, e.notes \o e.url)
    BY <2>2, ShortMore
  <2> QED BY <1>6, <1>7, <2>1, <2>3
<1>10. CASE e.kind = "digest"
  <2>1. Details(e) = [code |-> <<>>, lines |-> e.detail]
    BY <1>10 DEF Details
  <2>2. e.detail[1].length > 0 /\ e.detail # <<>>
    BY <1>10 DEF IsEvent
  <2>3. \A i \in DOMAIN e.detail : e.detail[i].length > 0
    BY <1>4, <2>2 DEF IsOne
  <2>4. Short(S, 3, e.detail)
    BY <1>4, <2>3, OneShort, ShortMore
  <2> QED BY <1>6, <1>7, <2>1, <2>4
<1>11. CASE e.kind = "peer_link_degraded"
  <2>1. Details(e) = [code |-> <<>>, lines |-> Saying(e.detail)]
    BY <1>11 DEF Details
  <2>2. Short(S, 3, Saying(e.detail))
    BY <1>4, SayingShort, ShortMore
  <2> QED BY <1>6, <1>7, <2>1, <2>2
<1>12. CASE e.kind = "cert_changed"
  <2>1. Details(e) = [code |-> <<>>, lines |-> Fields(e.old) \o Fields(e.new) \o <<Phrase>>]
    BY <1>12 DEF Details
  <2>2. e.old # <<>> /\ e.new # <<>>
    BY <1>12 DEF IsEvent, Carries
  <2>3. Short(S, 1, Fields(e.old)) /\ Short(S, 1, Fields(e.new))
    BY <1>4, <2>2, FieldsShort
  <2> HIDE DEF S
  <2>4. Short(S, 1 + 1, Fields(e.old) \o Fields(e.new))
    <3>1. 1 \in Nat
      OBVIOUS
    <3> QED BY <2>3, <3>1, ShortConcat, Zenon
  <2>5. Short(S, 2 + 1, Fields(e.old) \o Fields(e.new) \o <<Phrase>>)
    <3>1. 1 \in Nat /\ 2 \in Nat /\ 1 + 1 = 2
      OBVIOUS
    <3>2. Short(S, 2, Fields(e.old) \o Fields(e.new)) /\ Short(S, 1, <<Phrase>>)
      BY <1>3, <2>4, <3>1
    <3> QED BY <3>1, <3>2, ShortConcat, Zenon
  <2>6. Short(S, 3, Fields(e.old) \o Fields(e.new) \o <<Phrase>>)
    BY <2>5
  <2> QED BY <1>6, <1>7, <2>1, <2>6 DEF S
<1>13. CASE e.kind = "cert_unreadable"
  <2>1. Details(e) = [code |-> e.error, lines |-> <<Phrase>>]
    BY <1>13 DEF Details
  <2>2. Short(S, 3, <<Phrase>>)
    BY <1>3, ShortMore
  <2> QED BY <1>4, <1>7, <2>1, <2>2
<1>14. CASE e.kind \in {"alert", "degraded"}
  <2>1. Details(e) = [code |-> <<>>, lines |-> NonEmpty(e.detail)]
    BY <1>14 DEF Details
  <2>2. Short(S, 3, NonEmpty(e.detail))
    BY <1>4, NonEmptyShort, ShortMore
  <2> QED BY <1>6, <1>7, <2>1, <2>2
<1>15. CASE e.kind \notin {"down", "release", "digest", "peer_link_degraded", "cert_changed",
                           "cert_unreadable", "alert", "degraded"}
  <2>1. Details(e) = [code |-> <<>>, lines |-> <<>>]
    BY <1>15 DEF Details
  <2> QED BY <1>6, <1>7, <2>1
<1> QED BY <1>8, <1>9, <1>10, <1>11, <1>12, <1>13, <1>14, <1>15, Zenon

\* An event renders to a message: a headline, a code block at most, three lines at most.
LEMMA RenderFacts ==
    ASSUME NEW e, IsEvent(e)
    PROVE  IsMessage(Said(e), Render(e))
<1> DEFINE S == Said(e)
           subject == CASE e.kind = "digest" -> Phrase
                        [] e.kind = "alert" -> Saying(<<e.who>>)[1]
                        [] OTHER -> e.who
           rest == IF e.about = <<>> THEN Phrase ELSE Saying(e.about)[1]
<1>1. "phrase" \in S /\ e.who.of \in S /\ IsText(e.who)
  BY DEF Said, IsEvent
<1>2. Phrase \in Wholes(S) /\ e.who \in Wholes(S)
  BY <1>1, PhraseFacts, TextFacts
<1>3. \A text \in Wholes(S) : Saying(<<text>>)[1] \in Wholes(S)
  <2> SUFFICES ASSUME NEW text \in Wholes(S) PROVE Saying(<<text>>)[1] \in Wholes(S)
    OBVIOUS
  <2> HIDE DEF S
  <2>1. PICK said \in Wholes(S) : Saying(<<text>>) = <<said>>
    BY SayingFacts
  <2> QED BY <2>1
<1>4. subject \in Wholes(S)
  BY <1>2, <1>3
<1>5. rest \in Wholes(S)
  BY <1>2, <1>3, FieldsOfEvent DEF IsOne
<1>6. Render(e) = [subject |-> subject, rest |-> rest, code |-> Details(e).code,
                   lines |-> Details(e).lines]
  BY DEF Render
<1> HIDE DEF subject, rest
<1> QED BY <1>4, <1>5, <1>6, DetailsFacts DEF IsMessage

\* What no size, one, two and three add up to.
LEMMA TotalFacts ==
    /\ Total([j \in 1..0 |-> 0]) = 0
    /\ \A sizes : /\ DOMAIN sizes = {} => Total(sizes) = 0
                  /\ DOMAIN sizes = 1..1 /\ sizes[1] \in Int => Total(sizes) = sizes[1]
                  /\ DOMAIN sizes = 1..2 /\ sizes[1] \in Int /\ sizes[2] \in Int
                        => Total(sizes) = sizes[1] + sizes[2]
                  /\ DOMAIN sizes = 1..3 /\ sizes[1] \in Int /\ sizes[2] \in Int /\ sizes[3] \in Int
                        => Total(sizes) = sizes[1] + sizes[2] + sizes[3]
  BY DEF Total

\* A line is its name and its text.
LEMMA LineFacts ==
    ASSUME NEW S, NEW line \in Pieces(S), NEW unit \in SizeUnits
    PROVE  LineLength(line, unit) \in Nat /\ line.name <= LineLength(line, unit)
           /\ LineLength(line, unit) = line.name + Measure(line, unit)
           /\ (line.name + line.length > 0 => LineLength(line, unit) > 0)
  BY MeasureFacts DEF LineLength, Pieces

\* What is whole is a piece.
LEMMA WholeIsPiece == ASSUME NEW S PROVE Wholes(S) \subseteq Pieces(S)
  BY DEF Wholes, Pieces

\* What the lines before the first, second and third leave of the budget.
LEMMA LeftFacts ==
    ASSUME NEW S, NEW lines, Short(S, 3, lines), NEW budget \in Nat, NEW unit \in SizeUnits
    PROVE  LET L(i) == LineLength(lines[i], unit)
           IN /\ Len(lines) \in 0..3 /\ DOMAIN lines = 1..Len(lines)
              /\ \A i \in 1..Len(lines) :
                    lines[i] \in Wholes(S) /\ lines[i] \in Pieces(S) /\ L(i) \in Nat /\ L(i) > 0
              /\ Left(lines, budget, unit, 1) = budget
              /\ Len(lines) >= 1 => Left(lines, budget, unit, 2) = Minus(budget, L(1) + 1)
              /\ Len(lines) >= 2 =>
                    Left(lines, budget, unit, 3) = Minus(budget, (L(1) + 1) + (L(2) + 1))
              /\ \A i \in 1..Len(lines) : Left(lines, budget, unit, i) \in Nat
<1> DEFINE L(i) == LineLength(lines[i], unit)
           Spent(i) == [j \in 1..(i - 1) |-> L(j) + 1]
<1>1. Len(lines) \in 0..3 /\ DOMAIN lines = 1..Len(lines)
  <2>1. lines \in Seq(Wholes(S)) /\ Len(lines) <= 3
    BY DEF Short
  <2>2. Len(lines) \in Nat /\ DOMAIN lines = 1..Len(lines)
    BY <2>1
  <2> QED BY <2>1, <2>2
<1>2. ASSUME NEW i \in 1..Len(lines)
      PROVE  lines[i] \in Wholes(S) /\ lines[i] \in Pieces(S) /\ L(i) \in Nat /\ L(i) > 0
  <2>1. lines[i] \in Wholes(S)
    <3> DEFINE W == Wholes(S)
    <3>1. lines \in Seq(W)
      BY DEF Short
    <3> HIDE DEF W
    <3>2. lines[i] \in W
      BY <1>1, <3>1
    <3> QED BY <3>2 DEF W
  <2>2. lines[i].name + lines[i].length > 0
    BY <1>1 DEF Short
  <2> QED BY <2>1, <2>2, WholeIsPiece, LineFacts
<1> HIDE DEF L
<1>3. Left(lines, budget, unit, 1) = Minus(budget, Total(Spent(1)))
  BY DEF Left, L
<1>4. Left(lines, budget, unit, 2) = Minus(budget, Total(Spent(2)))
  BY DEF Left, L
<1>5. Left(lines, budget, unit, 3) = Minus(budget, Total(Spent(3)))
  BY DEF Left, L
<1>6. Total(Spent(1)) = 0
  <2>1. DOMAIN Spent(1) = {}
    OBVIOUS
  <2> QED BY <2>1, TotalFacts
<1>7. Len(lines) >= 1 => Total(Spent(2)) = L(1) + 1
  <2>1. DOMAIN Spent(2) = 1..1 /\ Spent(2)[1] = L(1) + 1
    OBVIOUS
  <2>2. Len(lines) >= 1 => L(1) + 1 \in Int
    BY <1>1, <1>2
  <2> HIDE DEF Spent
  <2> QED BY <2>1, <2>2, TotalFacts
<1>8. Len(lines) >= 2 => Total(Spent(3)) = (L(1) + 1) + (L(2) + 1)
  <2>1. DOMAIN Spent(3) = 1..2 /\ Spent(3)[1] = L(1) + 1 /\ Spent(3)[2] = L(2) + 1
    OBVIOUS
  <2>2. Len(lines) >= 2 => L(1) + 1 \in Int /\ L(2) + 1 \in Int
    BY <1>1, <1>2
  <2> HIDE DEF Spent
  <2> QED BY <2>1, <2>2, TotalFacts
<1>9. /\ Left(lines, budget, unit, 1) = budget
      /\ Len(lines) >= 1 => Left(lines, budget, unit, 2) = Minus(budget, L(1) + 1)
      /\ Len(lines) >= 2 => Left(lines, budget, unit, 3) = Minus(budget, (L(1) + 1) + (L(2) + 1))
  <2> HIDE DEF Spent
  <2> QED BY <1>3, <1>4, <1>5, <1>6, <1>7, <1>8 DEF Minus
<1>10. ASSUME NEW i \in 1..Len(lines)
       PROVE  Left(lines, budget, unit, i) \in Nat
  <2>1. i = 1 \/ (i = 2 /\ Len(lines) >= 2) \/ (i = 3 /\ Len(lines) >= 3)
    BY <1>1
  <2>2. Len(lines) >= 1 => L(1) \in Nat
    BY <1>1, <1>2
  <2>3. Len(lines) >= 2 => L(2) \in Nat
    BY <1>1, <1>2
  <2> QED BY <1>1, <1>9, <2>1, <2>2, <2>3 DEF Minus
<1> QED BY <1>1, <1>2, <1>9, <1>10 DEF L

\* Fitting counts the lines before the first that does not fit.
LEMMA FittingFacts ==
    ASSUME NEW S, NEW lines, Short(S, 3, lines), NEW budget \in Nat, NEW unit \in SizeUnits
    PROVE  LET n == Fitting(lines, budget, unit)
               Fits(i) == LineLength(lines[i], unit) <= Left(lines, budget, unit, i)
           IN /\ n \in 0..Len(lines)
              /\ \A i \in 1..n : Fits(i)
              /\ n < Len(lines) => ~Fits(n + 1)
<1> DEFINE Fits(i) == LineLength(lines[i], unit) <= Left(lines, budget, unit, i)
           Good(n) == (\A i \in 1..n : Fits(i)) /\ (n < Len(lines) => ~Fits(n + 1))
<1>1. Len(lines) \in 0..3
  BY LeftFacts
<1> HIDE DEF Fits
<1>2. \E n \in 0..Len(lines) : Good(n)
  <2>1. CASE Len(lines) = 0 \/ ~Fits(1)
    <3>1. 0 \in 0..Len(lines) /\ Good(0)
      BY <1>1, <2>1
    <3> QED BY <3>1
  <2>2. CASE Len(lines) >= 1 /\ Fits(1) /\ (Len(lines) = 1 \/ ~Fits(2))
    <3>2. (\A i \in 1..1 : i = 1) /\ 1 + 1 = 2
      OBVIOUS
    <3>3. \A i \in 1..1 : Fits(i)
      BY <2>2, <3>2
    <3>5. Len(lines) = 1 => ~(1 < Len(lines))
      BY <1>1
    <3>4. 1 < Len(lines) => ~Fits(2)
      BY <2>2, <3>5, Zenon
    <3>1. 1 \in 0..Len(lines) /\ Good(1)
      BY <1>1, <2>2, <3>2, <3>3, <3>4
    <3> QED BY <3>1
  <2>3. CASE Len(lines) >= 2 /\ Fits(1) /\ Fits(2) /\ (Len(lines) = 2 \/ ~Fits(3))
    <3>2. (\A i \in 1..2 : i = 1 \/ i = 2) /\ 2 + 1 = 3
      OBVIOUS
    <3>3. \A i \in 1..2 : Fits(i)
      BY <2>3, <3>2
    <3>5. Len(lines) = 2 => ~(2 < Len(lines))
      BY <1>1
    <3>4. 2 < Len(lines) => ~Fits(3)
      BY <2>3, <3>5, Zenon
    <3>1. 2 \in 0..Len(lines) /\ Good(2)
      BY <1>1, <2>3, <3>2, <3>3, <3>4
    <3> QED BY <3>1
  <2>4. CASE Len(lines) = 3 /\ Fits(1) /\ Fits(2) /\ Fits(3)
    <3>1. 3 \in 0..Len(lines) /\ Good(3)
      BY <1>1, <2>4
    <3> QED BY <3>1
  <2> QED BY <1>1, <2>1, <2>2, <2>3, <2>4
<1>3. Fitting(lines, budget, unit) = CHOOSE n \in 0..Len(lines) : Good(n)
  BY DEF Fitting, Fits
<1>4. LET n == Fitting(lines, budget, unit) IN n \in 0..Len(lines) /\ Good(n)
  <2> HIDE DEF Good
  <2> QED BY <1>2, <1>3
<1> QED BY <1>4 DEF Fits

\* The whole is a beginning of itself.
LEMMA WholeIsCut == ASSUME NEW text, NEW unit PROVE IsCutOf(text, text, unit)
  BY DEF IsCutOf

\* What is left of a budget.
LEMMA MinusFacts ==
    ASSUME NEW a \in Nat, NEW b \in Nat
    PROVE  Minus(a, b) \in Nat /\ Minus(a, b) <= a /\ (Minus(a, b) > 0 => Minus(a, b) = a - b)
           /\ (b <= a => Minus(a, b) = a - b)
  BY DEF Minus

\* The beginning of a line that does not fit fits, or nothing is left of it.
LEMMA BeginningFacts ==
    ASSUME NEW S, NEW line \in Wholes(S), NEW budget \in Nat, NEW unit \in SizeUnits
    PROVE  \/ Beginning(line, budget, unit) = <<>>
           \/ \E cut \in Pieces(S) :
                 /\ Beginning(line, budget, unit) = <<cut>>
                 /\ IsCutOf(cut, line, unit) /\ cut.name = line.name
                 /\ LineLength(cut, unit) <= budget /\ LineLength(cut, unit) > 0
<1> DEFINE room == Minus(budget, line.name)
           cut == Truncate(line, room, unit)
<1>1. line.name \in Nat /\ room \in Nat /\ (room > 0 => room = budget - line.name)
      /\ (line.name = 0 => room = budget)
  BY MinusFacts DEF Wholes, Minus
<1>2. cut \in Pieces(S) /\ cut.name = line.name /\ Measure(cut, unit) <= room
      /\ IsCutOf(cut, line, unit)
  BY <1>1, TruncateFacts
<1>3. LineLength(cut, unit) = line.name + Measure(cut, unit) /\ LineLength(cut, unit) \in Nat
      /\ Measure(cut, unit) \in Nat
  BY <1>2, LineFacts, MeasureFacts
<1>4. Beginning(line, budget, unit) =
        IF (line.name > 0 /\ room = 0) \/ LineLength(cut, unit) = 0 THEN <<>> ELSE <<cut>>
  BY DEF Beginning
<1> HIDE DEF room, cut
<1>5. CASE (line.name > 0 /\ room = 0) \/ LineLength(cut, unit) = 0
  BY <1>4, <1>5
<1>6. CASE ~((line.name > 0 /\ room = 0) \/ LineLength(cut, unit) = 0)
  <2>1. Beginning(line, budget, unit) = <<cut>>
    BY <1>4, <1>6
  <2>2. LineLength(cut, unit) <= budget /\ LineLength(cut, unit) > 0
    BY <1>1, <1>2, <1>3, <1>6
  <2> QED BY <1>2, <2>1, <2>2
<1> QED BY <1>5, <1>6

\* What is kept of the lines, and how long each may be where it stands.
LEMMA FitLinesFacts ==
    ASSUME NEW S, NEW lines, Short(S, 3, lines), NEW budget \in Nat, NEW unit \in SizeUnits
    PROVE  LET fitted == FitLines(lines, budget, unit)
           IN /\ fitted \in Seq(Pieces(S)) /\ Len(fitted) <= Len(lines)
              /\ \A i \in 1..Len(fitted) :
                    /\ IsCutOf(fitted[i], lines[i], unit) /\ fitted[i].name = lines[i].name
                    /\ LineLength(fitted[i], unit) <= Left(lines, budget, unit, i)
                    /\ LineLength(fitted[i], unit) > 0
                    /\ i < Len(fitted) => fitted[i] = lines[i]
              /\ Fitting(lines, budget, unit) = Len(lines) => fitted = lines
<1> DEFINE n == Fitting(lines, budget, unit)
           first == SubSeq(lines, 1, n)
           P == Pieces(S)
           Fine(piece, i) ==
              /\ IsCutOf(piece, lines[i], unit) /\ piece.name = lines[i].name
              /\ LineLength(piece, unit) <= Left(lines, budget, unit, i)
              /\ LineLength(piece, unit) > 0
<1>1. /\ Len(lines) \in 0..3 /\ n \in 0..Len(lines) /\ DOMAIN lines = 1..Len(lines)
      /\ \A i \in 1..n : LineLength(lines[i], unit) <= Left(lines, budget, unit, i)
  BY LeftFacts, FittingFacts
<1>2. \A i \in 1..Len(lines) : lines[i] \in Wholes(S) /\ lines[i] \in P /\ LineLength(lines[i], unit) > 0
                               /\ Left(lines, budget, unit, i) \in Nat
  BY LeftFacts
<1>3. lines \in Seq(P)
  <2>1. lines \in Seq(Wholes(S))
    BY DEF Short
  <2> HIDE DEF P
  <2> QED BY <1>1, <1>2, <2>1
<1>4. ASSUME NEW i \in 1..n PROVE Fine(lines[i], i)
  BY <1>1, <1>2, WholeIsCut
<1> HIDE DEF n, P, Fine
<1>5. first \in Seq(P) /\ Len(first) = n /\ \A i \in 1..n : first[i] = lines[i]
  <2>1. \A i \in 1..n : lines[i] \in P
    BY <1>1, <1>2
  <2>2. n \in Int /\ (IF 1 <= n THEN n - 1 + 1 ELSE 0) = n /\ n - 1 + 1 = n
    BY <1>1
  <2>3. \A i \in 1..n : 1 + i - 1 = i
    OBVIOUS
  <2> QED BY <2>1, <2>2, <2>3, SubSeqProperties
<1> HIDE DEF first
<1>6. FitLines(lines, budget, unit) =
        first \o (IF n = Len(lines) THEN <<>>
                  ELSE Beginning(lines[n + 1], Left(lines, budget, unit, n + 1), unit))
  BY DEF FitLines, n, first
<1>7. first \o <<>> = first
  BY <1>5
<1> DEFINE fitted == FitLines(lines, budget, unit)
           Goal == /\ fitted \in Seq(P) /\ Len(fitted) <= Len(lines)
                   /\ \A i \in 1..Len(fitted) : Fine(fitted[i], i) /\ (i < Len(fitted) => fitted[i] = lines[i])
                   /\ n = Len(lines) => fitted = lines
<1>8. CASE n = Len(lines)
  <2>1. first = lines
    BY <1>3, <1>5, <1>8, <1>1, SeqEqual
  <2>2. fitted = lines
    BY <1>6, <1>7, <1>8, <2>1
  <2>3. Goal
    <3> HIDE DEF fitted
    <3> QED BY <1>1, <1>3, <1>4, <1>8, <2>2
  <2> QED BY <2>3 DEF n, P, Fine
<1>9. CASE n # Len(lines)
  <2>1. n + 1 \in 1..Len(lines) /\ n + 1 <= Len(lines)
    <3>1. n \in 0..Len(lines) /\ Len(lines) \in Nat
      BY <1>1
    <3> QED BY <3>1, <1>9
  <2> DEFINE tail == Beginning(lines[n + 1], Left(lines, budget, unit, n + 1), unit)
  <2>2. fitted = first \o tail
    BY <1>6, <1>9
  <2>3. \/ tail = <<>>
        \/ \E cut \in P : tail = <<cut>> /\ Fine(cut, n + 1)
    BY <1>2, <2>1, BeginningFacts DEF P, Fine
  <2> HIDE DEF fitted, tail
  <2>4. CASE tail = <<>>
    <3>1. fitted = first
      BY <1>7, <2>2, <2>4
    <3> QED BY <1>1, <1>4, <1>5, <1>9, <3>1 DEF n, P, Fine, fitted
  <2>5. CASE tail # <<>>
    <3>1. PICK cut \in P : tail = <<cut>> /\ Fine(cut, n + 1)
      BY <2>3, <2>5
    <3>2. /\ fitted \in Seq(P) /\ Len(fitted) = n + 1 /\ fitted[n + 1] = cut
          /\ \A i \in 1..n : fitted[i] = lines[i]
      <4>1. fitted = Append(first, cut)
        BY <1>5, <2>2, <3>1, AppendIsConcat
      <4>2. /\ Append(first, cut) \in Seq(P) /\ Len(Append(first, cut)) = Len(first) + 1
            /\ \A i \in 1..Len(first) : Append(first, cut)[i] = first[i]
            /\ Append(first, cut)[Len(first) + 1] = cut
        BY <1>5, AppendProperties
      <4> QED BY <1>5, <4>1, <4>2
    <3>3. \A i \in 1..(n + 1) : i \in 1..n \/ i = n + 1
      BY <1>1
    <3>4. \A i \in 1..Len(fitted) : Fine(fitted[i], i) /\ (i < Len(fitted) => fitted[i] = lines[i])
      <4> TAKE i \in 1..Len(fitted)
      <4>1. CASE i \in 1..n
        BY <1>4, <3>2, <4>1
      <4>2. CASE i = n + 1
        <5>1. ~(i < Len(fitted))
          BY <1>1, <3>2, <4>2
        <5> QED BY <3>1, <3>2, <4>2, <5>1
      <4> QED BY <3>2, <3>3, <4>1, <4>2
    <3> QED BY <1>1, <1>9, <2>1, <3>2, <3>4 DEF n, P, Fine, fitted
  <2> QED BY <2>4, <2>5
<1> QED BY <1>8, <1>9

\* The sizes of at most four pieces.
IsSizes(s) == s \in Seq(Int) /\ Len(s) \in 0..4

\* No piece of t is more than x longer than that of s, or than five times that.
Grows(s, t, x) ==
    /\ IsSizes(s) /\ IsSizes(t) /\ Len(s) = Len(t)
    /\ \A i \in 1..Len(s) : t[i] <= s[i] + x
Escapes(s, t, x) ==
    /\ IsSizes(s) /\ IsSizes(t) /\ Len(s) = Len(t)
    /\ \A i \in 1..Len(s) : t[i] <= 5 * s[i] + x

\* Sizes add up with a newline between them.
LEMMA WithBreaksFacts ==
    ASSUME NEW s \in Seq(Int)
    PROVE  /\ Len(s) \in Nat /\ DOMAIN s = 1..Len(s)
           /\ Len(s) = 0 => s = <<>> /\ WithBreaks(s) = 0
           /\ Len(s) = 1 => s[1] \in Int /\ WithBreaks(s) = s[1]
           /\ Len(s) = 2 => s[1] \in Int /\ s[2] \in Int /\ WithBreaks(s) = s[1] + s[2] + 1
           /\ Len(s) = 3 => /\ s[1] \in Int /\ s[2] \in Int /\ s[3] \in Int
                            /\ WithBreaks(s) = s[1] + s[2] + s[3] + 2
           /\ Len(s) = 4 => /\ s[1] \in Int /\ s[2] \in Int /\ s[3] \in Int /\ s[4] \in Int
                            /\ WithBreaks(s) = s[1] + s[2] + s[3] + s[4] + 3
<1>1. Len(s) \in Nat /\ DOMAIN s = 1..Len(s) /\ \A i \in 1..Len(s) : s[i] \in Int
  OBVIOUS
<1>2. Len(s) = 0 => s = <<>>
  OBVIOUS
<1>3. Len(s) > 0 => s # <<>> /\ WithBreaks(s) = Total(s) + Len(s) - 1
  BY DEF WithBreaks
<1>4. Len(s) = 1 => s[1] \in Int /\ Total(s) = s[1]
  BY <1>1 DEF Total
<1>5. Len(s) = 2 => s[1] \in Int /\ s[2] \in Int /\ Total(s) = s[1] + s[2]
  BY <1>1 DEF Total
<1>6. Len(s) = 3 => s[1] \in Int /\ s[2] \in Int /\ s[3] \in Int /\ Total(s) = s[1] + s[2] + s[3]
  BY <1>1 DEF Total
<1>7. Len(s) = 4 => /\ s[1] \in Int /\ s[2] \in Int /\ s[3] \in Int /\ s[4] \in Int
                    /\ Total(s) = s[1] + s[2] + s[3] + s[4]
  BY <1>1 DEF Total
<1>8. Len(s) = 0 => WithBreaks(s) = 0
  BY <1>2 DEF WithBreaks
<1>9. Len(s) = 1 => WithBreaks(s) = s[1]
  BY <1>3, <1>4
<1>10. Len(s) = 2 => WithBreaks(s) = s[1] + s[2] + 1
  BY <1>3, <1>5
<1>11. Len(s) = 3 => WithBreaks(s) = s[1] + s[2] + s[3] + 2
  BY <1>3, <1>6
<1>12. Len(s) = 4 => WithBreaks(s) = s[1] + s[2] + s[3] + s[4] + 3
  BY <1>3, <1>7
<1> QED BY <1>1, <1>2, <1>4, <1>5, <1>6, <1>7, <1>8, <1>9, <1>10, <1>11, <1>12, Zenon

\* The same of at most four sizes.
LEMMA SizesFacts ==
    ASSUME NEW s, IsSizes(s)
    PROVE  /\ Len(s) \in 0..4 /\ WithBreaks(s) \in Int /\ DOMAIN s = 1..Len(s)
           /\ (Len(s) = 0 <=> s = <<>>)
           /\ Len(s) = 0 => WithBreaks(s) = 0
           /\ Len(s) = 1 => s[1] \in Int /\ WithBreaks(s) = s[1]
           /\ Len(s) = 2 => s[1] \in Int /\ s[2] \in Int /\ WithBreaks(s) = s[1] + s[2] + 1
           /\ Len(s) = 3 => s[1] \in Int /\ s[2] \in Int /\ s[3] \in Int /\ WithBreaks(s) = s[1] + s[2] + s[3] + 2
           /\ Len(s) = 4 => s[1] \in Int /\ s[2] \in Int /\ s[3] \in Int /\ s[4] \in Int /\ WithBreaks(s) = s[1] + s[2] + s[3] + s[4] + 3
<1>1. s \in Seq(Int) /\ Len(s) \in 0..4
  BY DEF IsSizes
<1>2. Len(s) = 0 \/ Len(s) = 1 \/ Len(s) = 2 \/ Len(s) = 3 \/ Len(s) = 4
  BY <1>1
<1>3. Len(s) = 0 <=> s = <<>>
  BY <1>1
<1>4. WithBreaks(s) \in Int
  BY <1>1, <1>2, WithBreaksFacts
<1>5. DOMAIN s = 1..Len(s)
  BY <1>1
<1> QED BY <1>1, <1>3, <1>4, <1>5, WithBreaksFacts

\* Pieces that grow by at most x each grow the whole by at most four times x.
LEMMA WithBreaksGrow ==
    ASSUME NEW s, NEW t, NEW x \in Nat, Grows(s, t, x)
    PROVE  WithBreaks(t) <= WithBreaks(s) + 4 * x
<1>0. IsSizes(s) /\ IsSizes(t) /\ Len(s) = Len(t)
  BY DEF Grows
<1>1. Len(s) \in 0..4
  BY <1>0, SizesFacts
<1>2. CASE Len(s) = 0
  <2>1. WithBreaks(s) = 0
    BY <1>0, <1>2, SizesFacts
  <2>2. WithBreaks(t) = 0
    BY <1>0, <1>2, SizesFacts
  <2> QED BY <2>1, <2>2
<1>3. CASE Len(s) = 1
  <2>1. s[1] \in Int /\ WithBreaks(s) = s[1]
    BY <1>0, <1>3, SizesFacts
  <2>2. t[1] \in Int /\ WithBreaks(t) = t[1]
    BY <1>0, <1>3, SizesFacts
  <2>3. t[1] <= s[1] + x
    BY <1>3 DEF Grows
  <2> QED BY <2>1, <2>2, <2>3
<1>4. CASE Len(s) = 2
  <2>1. s[1] \in Int /\ s[2] \in Int /\ WithBreaks(s) = s[1] + s[2] + 1
    BY <1>0, <1>4, SizesFacts
  <2>2. t[1] \in Int /\ t[2] \in Int /\ WithBreaks(t) = t[1] + t[2] + 1
    BY <1>0, <1>4, SizesFacts
  <2>3. t[1] <= s[1] + x /\ t[2] <= s[2] + x
    BY <1>4 DEF Grows
  <2> QED BY <2>1, <2>2, <2>3
<1>5. CASE Len(s) = 3
  <2>1. s[1] \in Int /\ s[2] \in Int /\ s[3] \in Int /\ WithBreaks(s) = s[1] + s[2] + s[3] + 2
    BY <1>0, <1>5, SizesFacts
  <2>2. t[1] \in Int /\ t[2] \in Int /\ t[3] \in Int /\ WithBreaks(t) = t[1] + t[2] + t[3] + 2
    BY <1>0, <1>5, SizesFacts
  <2>3. t[1] <= s[1] + x /\ t[2] <= s[2] + x /\ t[3] <= s[3] + x
    BY <1>5 DEF Grows
  <2> QED BY <2>1, <2>2, <2>3
<1>6. CASE Len(s) = 4
  <2>1. s[1] \in Int /\ s[2] \in Int /\ s[3] \in Int /\ s[4] \in Int /\ WithBreaks(s) = s[1] + s[2] + s[3] + s[4] + 3
    BY <1>0, <1>6, SizesFacts
  <2>2. t[1] \in Int /\ t[2] \in Int /\ t[3] \in Int /\ t[4] \in Int /\ WithBreaks(t) = t[1] + t[2] + t[3] + t[4] + 3
    BY <1>0, <1>6, SizesFacts
  <2>3. t[1] <= s[1] + x /\ t[2] <= s[2] + x /\ t[3] <= s[3] + x /\ t[4] <= s[4] + x
    BY <1>6 DEF Grows
  <2> QED BY <2>1, <2>2, <2>3
<1> QED BY <1>1, <1>2, <1>3, <1>4, <1>5, <1>6

\* The same when every character may become five.
LEMMA WithBreaksEscape ==
    ASSUME NEW s, NEW t, NEW x \in Nat, Escapes(s, t, x)
    PROVE  WithBreaks(t) <= 5 * WithBreaks(s) + 4 * x
<1>0. IsSizes(s) /\ IsSizes(t) /\ Len(s) = Len(t)
  BY DEF Escapes
<1>1. Len(s) \in 0..4
  BY <1>0, SizesFacts
<1>2. CASE Len(s) = 0
  <2>1. WithBreaks(s) = 0
    BY <1>0, <1>2, SizesFacts
  <2>2. WithBreaks(t) = 0
    BY <1>0, <1>2, SizesFacts
  <2> QED BY <2>1, <2>2
<1>3. CASE Len(s) = 1
  <2>1. s[1] \in Int /\ WithBreaks(s) = s[1]
    BY <1>0, <1>3, SizesFacts
  <2>2. t[1] \in Int /\ WithBreaks(t) = t[1]
    BY <1>0, <1>3, SizesFacts
  <2>3. t[1] <= 5 * s[1] + x
    BY <1>3 DEF Escapes
  <2> QED BY <2>1, <2>2, <2>3
<1>4. CASE Len(s) = 2
  <2>1. s[1] \in Int /\ s[2] \in Int /\ WithBreaks(s) = s[1] + s[2] + 1
    BY <1>0, <1>4, SizesFacts
  <2>2. t[1] \in Int /\ t[2] \in Int /\ WithBreaks(t) = t[1] + t[2] + 1
    BY <1>0, <1>4, SizesFacts
  <2>3. t[1] <= 5 * s[1] + x /\ t[2] <= 5 * s[2] + x
    BY <1>4 DEF Escapes
  <2> QED BY <2>1, <2>2, <2>3
<1>5. CASE Len(s) = 3
  <2>1. s[1] \in Int /\ s[2] \in Int /\ s[3] \in Int /\ WithBreaks(s) = s[1] + s[2] + s[3] + 2
    BY <1>0, <1>5, SizesFacts
  <2>2. t[1] \in Int /\ t[2] \in Int /\ t[3] \in Int /\ WithBreaks(t) = t[1] + t[2] + t[3] + 2
    BY <1>0, <1>5, SizesFacts
  <2>3. t[1] <= 5 * s[1] + x /\ t[2] <= 5 * s[2] + x /\ t[3] <= 5 * s[3] + x
    BY <1>5 DEF Escapes
  <2> QED BY <2>1, <2>2, <2>3
<1>6. CASE Len(s) = 4
  <2>1. s[1] \in Int /\ s[2] \in Int /\ s[3] \in Int /\ s[4] \in Int /\ WithBreaks(s) = s[1] + s[2] + s[3] + s[4] + 3
    BY <1>0, <1>6, SizesFacts
  <2>2. t[1] \in Int /\ t[2] \in Int /\ t[3] \in Int /\ t[4] \in Int /\ WithBreaks(t) = t[1] + t[2] + t[3] + t[4] + 3
    BY <1>0, <1>6, SizesFacts
  <2>3. t[1] <= 5 * s[1] + x /\ t[2] <= 5 * s[2] + x /\ t[3] <= 5 * s[3] + x /\ t[4] <= 5 * s[4] + x
    BY <1>6 DEF Escapes
  <2> QED BY <2>1, <2>2, <2>3
<1> QED BY <1>1, <1>2, <1>3, <1>4, <1>5, <1>6

\* A piece before the others.
LEMMA WithBreaksCons ==
    ASSUME NEW m \in Int, NEW s, IsSizes(s), Len(s) \in 0..3
    PROVE  /\ IsSizes(<<m>> \o s) /\ Len(<<m>> \o s) = Len(s) + 1
           /\ (<<m>> \o s)[1] = m /\ \A i \in 1..Len(s) : (<<m>> \o s)[i + 1] = s[i]
           /\ WithBreaks(<<m>> \o s) = IF s = <<>> THEN m ELSE m + 1 + WithBreaks(s)
           /\ <<>> \o s = s
<1> DEFINE t == <<m>> \o s
<1>1. <<m>> \in Seq(Int) /\ Len(<<m>>) = 1 /\ <<m>>[1] = m
  OBVIOUS
<1>2. s \in Seq(Int) /\ Len(s) \in 0..4
  BY DEF IsSizes
<1>3. /\ t \in Seq(Int) /\ Len(t) = 1 + Len(s)
      /\ \A i \in 1..(1 + Len(s)) : t[i] = IF i <= 1 THEN <<m>>[i] ELSE s[i - 1]
  BY <1>1, <1>2, ConcatProperties
<1>4. <<>> \o s = s
  BY <1>2, ConcatEmptySeq
<1> HIDE DEF t
<1>5. t[1] = m
  BY <1>1, <1>2, <1>3
<1>6. \A i \in 1..Len(s) : t[i + 1] = s[i]
  <2> TAKE i \in 1..Len(s)
  <2>1. i + 1 \in 1..(1 + Len(s)) /\ ~(i + 1 <= 1) /\ (i + 1) - 1 = i
    BY <1>2
  <2> QED BY <1>3, <2>1
<1>8. Len(s) \in 0..3 /\ Len(t) = Len(s) + 1
  <2>1. Len(s) \in 0..3
    OBVIOUS
  <2>2. Len(t) = Len(s) + 1
    BY <1>3, <1>2
  <2> QED BY <2>1, <2>2
<1>7. IsSizes(t)
  <2>1. t \in Seq(Int)
    BY <1>3
  <2>3. Len(s) + 1 \in 0..4
    <3>1. \A n \in 0..3 : n + 1 \in 0..4
      OBVIOUS
    <3> QED BY <3>1
  <2>2. Len(t) \in 0..4
    BY <1>8, <2>3, Zenon
  <2> QED BY <2>1, <2>2 DEF IsSizes
<1>9. WithBreaks(t) = IF s = <<>> THEN m ELSE m + 1 + WithBreaks(s)
  <2>1. CASE Len(s) = 0
    <3>1. WithBreaks(s) = 0 /\ s = <<>>
      BY <2>1, SizesFacts
    <3>2. WithBreaks(t) = t[1]
      <4>1. Len(t) = 1
        BY <1>8, <2>1
      <4> QED BY <4>1, <1>7, SizesFacts
    <3> QED BY <1>5, <3>1, <3>2
  <2>2. CASE Len(s) = 1
    <3>1. s[1] \in Int /\ WithBreaks(s) = s[1] /\ s # <<>>
      BY <2>2, SizesFacts
    <3>2. WithBreaks(t) = t[1] + t[2] + 1
      <4>1. Len(t) = 2
        BY <1>8, <2>2
      <4> QED BY <4>1, <1>7, SizesFacts
    <3>3. t[2] = s[1]
      BY <1>6, <2>2
    <3>5. t[1] + t[2] + 1 = m + s[1] + 1
      BY <1>5, <3>3, Zenon
    <3>6. m + 1 + (s[1]) = m + s[1] + 1
      BY <3>1
    <3>4. m + 1 + (s[1]) = t[1] + t[2] + 1
      BY <3>5, <3>6, Zenon
    <3> QED BY <1>5, <3>1, <3>2, <3>4, Zenon
  <2>3. CASE Len(s) = 2
    <3>1. s[1] \in Int /\ s[2] \in Int /\ WithBreaks(s) = s[1] + s[2] + 1 /\ s # <<>>
      BY <2>3, SizesFacts
    <3>2. WithBreaks(t) = t[1] + t[2] + t[3] + 2
      <4>1. Len(t) = 3
        BY <1>8, <2>3
      <4> QED BY <4>1, <1>7, SizesFacts
    <3>3. t[2] = s[1] /\ t[3] = s[2]
      BY <1>6, <2>3
    <3>5. t[1] + t[2] + t[3] + 2 = m + s[1] + s[2] + 2
      BY <1>5, <3>3, Zenon
    <3>6. m + 1 + (s[1] + s[2] + 1) = m + s[1] + s[2] + 2
      BY <3>1
    <3>4. m + 1 + (s[1] + s[2] + 1) = t[1] + t[2] + t[3] + 2
      BY <3>5, <3>6, Zenon
    <3> QED BY <1>5, <3>1, <3>2, <3>4, Zenon
  <2>4. CASE Len(s) = 3
    <3>1. s[1] \in Int /\ s[2] \in Int /\ s[3] \in Int /\ WithBreaks(s) = s[1] + s[2] + s[3] + 2 /\ s # <<>>
      BY <2>4, SizesFacts
    <3>2. WithBreaks(t) = t[1] + t[2] + t[3] + t[4] + 3
      <4>1. Len(t) = 4
        BY <1>8, <2>4
      <4> QED BY <4>1, <1>7, SizesFacts
    <3>3. t[2] = s[1] /\ t[3] = s[2] /\ t[4] = s[3]
      BY <1>6, <2>4
    <3>5. t[1] + t[2] + t[3] + t[4] + 3 = m + s[1] + s[2] + s[3] + 3
      BY <1>5, <3>3, Zenon
    <3>6. m + 1 + (s[1] + s[2] + s[3] + 2) = m + s[1] + s[2] + s[3] + 3
      BY <3>1
    <3>4. m + 1 + (s[1] + s[2] + s[3] + 2) = t[1] + t[2] + t[3] + t[4] + 3
      BY <3>5, <3>6, Zenon
    <3> QED BY <1>5, <3>1, <3>2, <3>4, Zenon
  <2> QED BY <1>8, <2>1, <2>2, <2>3, <2>4
<1> QED BY <1>4, <1>5, <1>6, <1>7, <1>8, <1>9 DEF t

\* The sizes of lines.
LineSizes(lines, unit) == [i \in DOMAIN lines |-> LineLength(lines[i], unit)]

\* At most three pieces of texts.
Cuts(S, lines) == lines \in Seq(Pieces(S)) /\ Len(lines) \in 0..3

\* At most three pieces, each a piece.
LEMMA CutsFacts ==
    ASSUME NEW S, NEW lines, Cuts(S, lines)
    PROVE  /\ Len(lines) \in 0..3 /\ DOMAIN lines = 1..Len(lines)
           /\ \A i \in 1..Len(lines) : lines[i] \in Pieces(S)
           /\ (Len(lines) = 0 <=> lines = <<>>)
<1> DEFINE P == Pieces(S)
<1>1. lines \in Seq(P) /\ Len(lines) \in 0..3
  BY DEF Cuts
<1> HIDE DEF P
<1>2. DOMAIN lines = 1..Len(lines) /\ \A i \in 1..Len(lines) : lines[i] \in P
  BY <1>1
<1>3. Len(lines) = 0 <=> lines = <<>>
  BY <1>1
<1> QED BY <1>1, <1>2, <1>3 DEF P

\* The sizes of at most three lines.
LEMMA LineSizesFacts ==
    ASSUME NEW S, NEW lines, Cuts(S, lines), NEW unit \in SizeUnits
    PROVE  /\ IsSizes(LineSizes(lines, unit)) /\ Len(LineSizes(lines, unit)) = Len(lines)
           /\ \A i \in 1..Len(lines) : /\ LineSizes(lines, unit)[i] = LineLength(lines[i], unit)
                                       /\ LineLength(lines[i], unit) \in Nat
           /\ (LineSizes(lines, unit) = <<>> <=> lines = <<>>)
<1> DEFINE L(i) == LineLength(lines[i], unit)
           s == [i \in 1..Len(lines) |-> L(i)]
<1>1. /\ Len(lines) \in 0..3 /\ DOMAIN lines = 1..Len(lines)
      /\ \A i \in 1..Len(lines) : L(i) \in Nat
      /\ (Len(lines) = 0 <=> lines = <<>>)
  <2>1. /\ Len(lines) \in 0..3 /\ DOMAIN lines = 1..Len(lines)
        /\ \A i \in 1..Len(lines) : lines[i] \in Pieces(S)
        /\ (Len(lines) = 0 <=> lines = <<>>)
    BY CutsFacts
  <2>2. \A i \in 1..Len(lines) : L(i) \in Nat
    BY <2>1, LineFacts
  <2> QED BY <2>1, <2>2
<1>2. LineSizes(lines, unit) = s
  BY <1>1 DEF LineSizes
<1> HIDE DEF L
<1>3. s \in Seq(Int) /\ Len(s) = Len(lines)
  <2> DEFINE n == Len(lines)
  <2>1. n \in Nat /\ \A i \in 1..n : L(i) \in Int
    BY <1>1
  <2> HIDE DEF n
  <2>2. [i \in 1..n |-> L(i)] \in [1..n -> Int]
    BY <2>1
  <2>3. [i \in 1..n |-> L(i)] \in Seq(Int) /\ Len([i \in 1..n |-> L(i)]) = n
    BY <2>1, <2>2, IsASeq
  <2> QED BY <2>3 DEF n
<1>4. IsSizes(s)
  BY <1>1, <1>3 DEF IsSizes
<1>5. s = <<>> <=> lines = <<>>
  BY <1>1, <1>3, <1>4, SizesFacts
<1> QED BY <1>1, <1>2, <1>3, <1>4, <1>5 DEF L

\* Whole lines are pieces.
LEMMA ShortIsCuts == ASSUME NEW S, NEW lines, Short(S, 3, lines) PROVE Cuts(S, lines)
<1>1. Len(lines) \in 0..3 /\ \A i \in 1..Len(lines) : lines[i] \in Pieces(S)
  <2>1. "chars" \in SizeUnits /\ 0 \in Nat
    BY DEF SizeUnits
  <2> QED BY <2>1, LeftFacts
<1>2. lines \in Seq(Wholes(S))
  BY DEF Short
<1> DEFINE P == Pieces(S)
<1> HIDE DEF P
<1>3. \A i \in 1..Len(lines) : lines[i] \in P
  BY <1>1 DEF P
<1>4. lines \in Seq(P)
  BY <1>2, <1>3
<1> QED BY <1>1, <1>4 DEF Cuts, P

\* The lines kept stay within the budget, and are all of them when all would have.
LEMMA LinesFit ==
    ASSUME NEW S, NEW lines, Short(S, 3, lines), NEW budget \in Nat, NEW unit \in SizeUnits
    PROVE  LET fitted == FitLines(lines, budget, unit)
           IN /\ Cuts(S, fitted)
              /\ WithBreaks(LineSizes(fitted, unit)) <= budget
              /\ fitted # <<>> => WithBreaks(LineSizes(fitted, unit)) > 0
              /\ WithBreaks(LineSizes(lines, unit)) <= budget => fitted = lines
<1> DEFINE fitted == FitLines(lines, budget, unit)
           L(i) == LineLength(lines[i], unit)
           K(i) == LineLength(fitted[i], unit)
           B(i) == Left(lines, budget, unit, i)
           m == Len(fitted)
           n == Len(lines)
           s == LineSizes(fitted, unit)
           t == LineSizes(lines, unit)
<1>1. /\ n \in 0..3 /\ \A i \in 1..n : L(i) \in Nat /\ L(i) > 0
      /\ B(1) = budget
      /\ n >= 1 => B(2) = Minus(budget, L(1) + 1)
      /\ n >= 2 => B(3) = Minus(budget, (L(1) + 1) + (L(2) + 1))
  BY LeftFacts
<1>2. /\ fitted \in Seq(Pieces(S)) /\ m <= n
      /\ \A i \in 1..m : /\ K(i) <= B(i) /\ K(i) > 0
                         /\ i < m => fitted[i] = lines[i]
      /\ Fitting(lines, budget, unit) = n => fitted = lines
  BY FitLinesFacts
<1>3. Cuts(S, fitted)
  <2>1. m \in Nat /\ n \in 0..3 /\ m <= n
    BY <1>1, <1>2, LenProperties
  <2>2. m \in 0..3
    <3>1. \A a \in Nat : \A b \in 0..3 : a <= b => a \in 0..3
      OBVIOUS
    <3> QED BY <2>1, <3>1
  <2> QED BY <1>2, <2>2 DEF Cuts
<1>4. /\ IsSizes(s) /\ Len(s) = m /\ \A i \in 1..m : s[i] = K(i) /\ K(i) \in Nat
      /\ m \in 0..3 /\ (m = 0 <=> fitted = <<>>)
  <2>1. IsSizes(s) /\ Len(s) = m /\ \A i \in 1..m : s[i] = K(i) /\ K(i) \in Nat
    BY <1>3, LineSizesFacts
  <2>2. m \in 0..3 /\ (m = 0 <=> fitted = <<>>)
    BY <1>3, CutsFacts
  <2> QED BY <2>1, <2>2
<1>5. /\ IsSizes(t) /\ Len(t) = n /\ \A i \in 1..n : t[i] = L(i)
  BY ShortIsCuts, LineSizesFacts
<1>6. /\ Fitting(lines, budget, unit) \in 0..n
      /\ Fitting(lines, budget, unit) < n => ~(L(Fitting(lines, budget, unit) + 1)
                                                  <= B(Fitting(lines, budget, unit) + 1))
  BY FittingFacts
<1>7. \A i \in 1..m : i < m => K(i) = L(i)
  BY <1>2
<1> HIDE DEF L, K, B, m, n, s, t, fitted
<1>8. WithBreaks(s) <= budget /\ (fitted # <<>> => WithBreaks(s) > 0)
  <2>1. CASE m = 0
    BY <1>4, <2>1, SizesFacts
  <2>2. CASE m = 1
    <3>1. K(1) \in Nat /\ K(1) > 0 /\ K(1) <= budget
      BY <1>1, <1>2, <1>4, <2>2
    <3>2. WithBreaks(s) = K(1)
      BY <1>4, <2>2, SizesFacts
    <3> QED BY <3>1, <3>2
  <2>3. CASE m = 2
    <3>1. /\ K(1) \in Nat /\ K(2) \in Nat /\ K(1) > 0 /\ K(2) > 0
          /\ K(2) <= B(2) /\ K(1) = L(1)
      BY <1>2, <1>4, <1>7, <2>3
    <3>2. B(2) = Minus(budget, L(1) + 1)
      BY <1>1, <1>2, <2>3
    <3>3. WithBreaks(s) = K(1) + K(2) + 1
      BY <1>4, <2>3, SizesFacts
    <3> QED BY <3>1, <3>2, <3>3 DEF Minus
  <2>4. CASE m = 3
    <3>1. /\ K(1) \in Nat /\ K(2) \in Nat /\ K(3) \in Nat /\ K(1) > 0 /\ K(2) > 0 /\ K(3) > 0
          /\ K(3) <= B(3) /\ K(1) = L(1) /\ K(2) = L(2)
      BY <1>2, <1>4, <1>7, <2>4
    <3>2. B(3) = Minus(budget, (L(1) + 1) + (L(2) + 1))
      BY <1>1, <1>2, <2>4
    <3>3. WithBreaks(s) = K(1) + K(2) + K(3) + 2
      BY <1>4, <2>4, SizesFacts
    <3> QED BY <3>1, <3>2, <3>3 DEF Minus
  <2> QED BY <1>4, <2>1, <2>2, <2>3, <2>4
<1>9. ASSUME WithBreaks(t) <= budget PROVE fitted = lines
  <2> DEFINE f == Fitting(lines, budget, unit)
  <2>1. f \in 0..n /\ (f < n => ~(L(f + 1) <= B(f + 1)))
    BY <1>6
  <2> HIDE DEF f
  <2>2. \A i \in 1..n : L(i) <= B(i)
    <3>1. CASE n = 0
      BY <3>1
    <3>2. CASE n = 1
      <4>1. L(1) \in Nat /\ WithBreaks(t) = L(1)
        BY <1>1, <1>5, <3>2, SizesFacts
      <4>2. L(1) <= B(1)
        BY <1>1, <1>9, <4>1
      <4> QED BY <3>2, <4>2
    <3>3. CASE n = 2
      <4>1. L(1) \in Nat /\ L(2) \in Nat /\ WithBreaks(t) = L(1) + L(2) + 1
        BY <1>1, <1>5, <3>3, SizesFacts
      <4>2. B(1) = budget /\ B(2) = Minus(budget, L(1) + 1)
        BY <1>1, <3>3
      <4>3. L(1) <= B(1) /\ L(2) <= B(2)
        BY <4>1, <4>2, <1>9 DEF Minus
      <4> QED BY <3>3, <4>3
    <3>4. CASE n = 3
      <4>1. /\ L(1) \in Nat /\ L(2) \in Nat /\ L(3) \in Nat
            /\ WithBreaks(t) = L(1) + L(2) + L(3) + 2
        BY <1>1, <1>5, <3>4, SizesFacts
      <4>2. /\ B(1) = budget /\ B(2) = Minus(budget, L(1) + 1)
            /\ B(3) = Minus(budget, (L(1) + 1) + (L(2) + 1))
        BY <1>1, <3>4
      <4>3. L(1) <= B(1) /\ L(2) <= B(2) /\ L(3) <= B(3)
        BY <4>1, <4>2, <1>9 DEF Minus
      <4> QED BY <3>4, <4>3
    <3> QED BY <1>1, <3>1, <3>2, <3>3, <3>4
  <2>3. f < n => f + 1 \in 1..n
    BY <1>1, <2>1
  <2>4. f = n
    <3>1. ~(f < n)
      BY <2>1, <2>2, <2>3, Zenon
    <3>2. n \in Nat /\ f \in 0..n
      BY <1>1, <2>1
    <3> QED BY <3>1, <3>2
  <2> QED BY <1>2, <2>4 DEF f
<1> QED BY <1>3, <1>8, <1>9 DEF fitted, s, t

\* Message::fit cuts a headline to its limit, and only one that does not fit.
LEMMA FitHeadline ==
    ASSUME NEW S, NEW message, IsMessage(S, message), NEW head \in Nat, NEW body \in Nat,
           NEW unit \in SizeUnits
    PROVE  LET shown == Fit(message, head, body, unit)
           IN /\ shown.subject \in Pieces(S) /\ shown.rest \in Pieces(S)
              /\ Measure(shown.subject, unit) + Measure(shown.rest, unit) <= head
              /\ IsCutOf(shown.subject, message.subject, unit)
              /\ IsCutOf(shown.rest, message.rest, unit)
              /\ Measure(message.subject, unit) + Measure(message.rest, unit) <= head =>
                    shown.subject = message.subject /\ shown.rest = message.rest
<1> DEFINE shown == Fit(message, head, body, unit)
           subject == Truncate(message.subject, head, unit)
           room == Minus(head, Measure(subject, unit))
           rest == Truncate(message.rest, room, unit)
<1>1. message.subject \in Wholes(S) /\ message.rest \in Wholes(S)
  BY DEF IsMessage
<1>2. /\ subject \in Pieces(S) /\ Measure(subject, unit) <= head
      /\ IsCutOf(subject, message.subject, unit)
      /\ Measure(message.subject, unit) <= head => subject = message.subject
  BY <1>1, TruncateFacts
<1>3. Measure(subject, unit) \in Nat /\ Measure(message.subject, unit) \in Nat
      /\ Measure(message.rest, unit) \in Nat
  BY <1>1, <1>2, MeasureFacts, WholeIsPiece
<1>4. room \in Nat /\ room = head - Measure(subject, unit)
  BY <1>2, <1>3 DEF Minus
<1> HIDE DEF room
<1>5. /\ rest \in Pieces(S) /\ Measure(rest, unit) <= room
      /\ IsCutOf(rest, message.rest, unit)
      /\ Measure(message.rest, unit) <= room => rest = message.rest
  BY <1>1, <1>4, TruncateFacts
<1>6. Measure(rest, unit) \in Nat
  BY <1>5, MeasureFacts
<1>7. shown.subject = subject /\ shown.rest = rest
  BY DEF Fit, room
<1> HIDE DEF shown, subject, rest
<1>8. Measure(subject, unit) + Measure(rest, unit) <= head
  BY <1>3, <1>4, <1>5, <1>6
<1>9. ASSUME Measure(message.subject, unit) + Measure(message.rest, unit) <= head
      PROVE  subject = message.subject /\ rest = message.rest
  <2>1. subject = message.subject
    BY <1>2, <1>3, <1>9
  <2>2. Measure(message.rest, unit) <= room
    BY <1>3, <1>4, <1>9, <2>1
  <2> QED BY <1>5, <2>1, <2>2
<1> QED BY <1>2, <1>5, <1>7, <1>8, <1>9 DEF shown

\* The sizes of a body's pieces.
CodeSizes(code, unit) == [i \in DOMAIN code |-> Measure(code[i], unit)]
BodySizes(message, unit) == CodeSizes(message.code, unit) \o LineSizes(message.lines, unit)

\* No code block, or one that is not empty.
IsBlock(S, code) == code = <<>> \/ \E text \in Pieces(S) : code = <<text>> /\ ~IsEmpty(text)

\* What Message::fit makes of a body: within its limit, a beginning, the whole when that fits.
FitsBody(S, message, shown, body, unit) ==
    /\ IsBlock(S, shown.code) /\ Cuts(S, shown.lines)
    /\ WithBreaks(BodySizes(shown, unit)) <= body
    /\ \/ shown.code = <<>>
       \/ \E text, whole \in Pieces(S) :
             shown.code = <<text>> /\ message.code = <<whole>> /\ IsCutOf(text, whole, unit)
    /\ \/ shown.lines = <<>>
       \/ /\ shown.code = NonEmpty(message.code)
          /\ Len(shown.lines) <= Len(message.lines)
          /\ \A i \in 1..Len(shown.lines) :
                /\ IsCutOf(shown.lines[i], message.lines[i], unit)
                /\ shown.lines[i].name = message.lines[i].name
                /\ i < Len(shown.lines) => shown.lines[i] = message.lines[i]
    /\ WithBreaks(BodySizes(message, unit)) <= body =>
          shown.code = NonEmpty(message.code) /\ shown.lines = message.lines

\* The size of a body that has no code block.
LEMMA BodyWithoutCode ==
    ASSUME NEW S, NEW lines, Cuts(S, lines), NEW unit \in SizeUnits
    PROVE  CodeSizes(<<>>, unit) \o LineSizes(lines, unit) = LineSizes(lines, unit)
<1>1. CodeSizes(<<>>, unit) = <<>>
  BY DEF CodeSizes
<1>2. LineSizes(lines, unit) \in Seq(Int)
  BY LineSizesFacts DEF IsSizes
<1> QED BY <1>1, <1>2, ConcatEmptySeq

\* The size of a body that has one.
LEMMA BodyWithCode ==
    ASSUME NEW S, NEW lines, Cuts(S, lines), NEW unit \in SizeUnits, NEW text \in Pieces(S)
    PROVE  /\ WithBreaks(CodeSizes(<<text>>, unit) \o LineSizes(lines, unit))
                = IF lines = <<>> THEN Measure(text, unit)
                  ELSE Measure(text, unit) + 1 + WithBreaks(LineSizes(lines, unit))
           /\ Measure(text, unit) \in Nat /\ WithBreaks(LineSizes(lines, unit)) \in Int
<1> DEFINE s == LineSizes(lines, unit)
<1>1. CodeSizes(<<text>>, unit) = <<Measure(text, unit)>>
  BY DEF CodeSizes
<1>2. IsSizes(s) /\ Len(s) = Len(lines) /\ (s = <<>> <=> lines = <<>>)
  BY LineSizesFacts
<1>3. Len(s) \in 0..3
  BY <1>2, CutsFacts
<1>4. Measure(text, unit) \in Nat /\ Measure(text, unit) \in Int
  BY MeasureFacts
<1> HIDE DEF s
<1>5. WithBreaks(<<Measure(text, unit)>> \o s)
        = IF s = <<>> THEN Measure(text, unit) ELSE Measure(text, unit) + 1 + WithBreaks(s)
  BY <1>2, <1>3, <1>4, WithBreaksCons
<1>6. WithBreaks(s) \in Int
  BY <1>2, SizesFacts
<1> QED BY <1>1, <1>2, <1>4, <1>5, <1>6 DEF s

\* The size of no lines.
LEMMA NoLines == ASSUME NEW S, NEW unit
                 PROVE  /\ Cuts(S, <<>>) /\ LineSizes(<<>>, unit) = <<>> /\ WithBreaks(<<>>) = 0
<1>1. <<>> \in Seq(Pieces(S)) /\ Len(<<>>) \in 0..3
  OBVIOUS
<1>2. LineSizes(<<>>, unit) = <<>>
  BY DEF LineSizes
<1> QED BY <1>1, <1>2 DEF Cuts, WithBreaks

\* Message::fit of a message without a code block.
LEMMA FitBodyWithoutCode ==
    ASSUME NEW S, NEW message, IsMessage(S, message), NEW head \in Nat, NEW body \in Nat,
           NEW unit \in SizeUnits, message.code = <<>>
    PROVE  FitsBody(S, message, Fit(message, head, body, unit), body, unit)
<1> DEFINE shown == Fit(message, head, body, unit)
           lines == message.lines
           fitted == FitLines(lines, body, unit)
<1>1. Short(S, 3, lines)
  BY DEF IsMessage
<1>2. shown.code = <<>> /\ shown.lines = FitLines(lines, Minus(body, 0), unit)
  BY DEF Fit, NonEmpty
<1>3. Minus(body, 0) = body
  BY DEF Minus
<1>4. shown.lines = fitted /\ NonEmpty(message.code) = <<>>
  BY <1>2, <1>3 DEF NonEmpty
<1>5. /\ Cuts(S, fitted) /\ WithBreaks(LineSizes(fitted, unit)) <= body
      /\ WithBreaks(LineSizes(lines, unit)) <= body => fitted = lines
  BY <1>1, LinesFit
<1>6. /\ Len(fitted) <= Len(lines)
      /\ \A i \in 1..Len(fitted) :
            /\ IsCutOf(fitted[i], lines[i], unit) /\ fitted[i].name = lines[i].name
            /\ i < Len(fitted) => fitted[i] = lines[i]
  <2> HIDE DEF lines
  <2>1. LET k == FitLines(lines, body, unit)
        IN /\ Len(k) <= Len(lines)
           /\ \A i \in 1..Len(k) :
                 /\ IsCutOf(k[i], lines[i], unit) /\ k[i].name = lines[i].name
                 /\ i < Len(k) => k[i] = lines[i]
    BY <1>1, FitLinesFacts
  <2> QED BY <2>1
<1>7. BodySizes(shown, unit) = LineSizes(fitted, unit) /\ BodySizes(message, unit) = LineSizes(lines, unit)
  BY <1>1, <1>2, <1>4, <1>5, BodyWithoutCode, ShortIsCuts DEF BodySizes
<1> HIDE DEF shown, fitted, lines
<1>8. FitsBody(S, message, shown, body, unit)
  BY <1>2, <1>4, <1>5, <1>6, <1>7 DEF FitsBody, IsBlock, lines
<1> QED BY <1>8 DEF shown

\* NonEmpty drops one text when it is empty.
LEMMA NonEmptyOne ==
    ASSUME NEW text
    PROVE  NonEmpty(<<text>>) = IF IsEmpty(text) THEN <<>> ELSE <<text>>
  BY DEF NonEmpty

\* An empty text measures nothing.
LEMMA EmptyMeasuresNothing ==
    ASSUME NEW S, NEW text \in Pieces(S), NEW unit \in SizeUnits, IsEmpty(text)
    PROVE  Measure(text, unit) = 0
<1>1. text.length = 0 /\ text.end # "marked" /\ Cost(text.sort, unit) \in {1, 4}
  BY MeasureFacts DEF IsEmpty
<1>2. Measure(text, unit) = text.length * Cost(text.sort, unit)
  BY <1>1, MeasureFacts
<1> QED BY <1>1, <1>2

\* Message::fit of a message with a code block.
LEMMA FitBodyWithCode ==
    ASSUME NEW S, NEW message, IsMessage(S, message), NEW head \in Nat, NEW body \in Nat,
           NEW unit \in SizeUnits, message.code # <<>>
    PROVE  FitsBody(S, message, Fit(message, head, body, unit), body, unit)
<1> DEFINE shown == Fit(message, head, body, unit)
           lines == message.lines
<1>1. PICK whole \in Wholes(S) : message.code = <<whole>>
  BY DEF IsMessage, IsOne
<1> DEFINE cut == Truncate(whole, body, unit)
           m == Measure(cut, unit)
           budget == Minus(body, m + 1)
           fitted == FitLines(lines, budget, unit)
<1>2. /\ cut \in Pieces(S) /\ m <= body /\ IsCutOf(cut, whole, unit)
      /\ Measure(whole, unit) <= body => cut = whole
  BY TruncateFacts
<1>3. whole \in Pieces(S) /\ m \in Nat /\ Measure(whole, unit) \in Nat
  BY <1>2, WholeIsPiece, MeasureFacts
<1>4. Short(S, 3, lines)
  BY DEF IsMessage
<1>5. /\ shown.code = NonEmpty(<<cut>>)
      /\ shown.lines = IF <<cut>> # message.code THEN <<>> ELSE fitted
  <2>1. [i \in DOMAIN message.code |-> Truncate(message.code[i], body, unit)] = <<cut>>
    BY <1>1
  <2>2. <<cut>> # <<>> /\ <<cut>>[1] = cut
    OBVIOUS
  <2> HIDE DEF cut, fitted
  <2>3. LET code == [i \in DOMAIN message.code |-> Truncate(message.code[i], body, unit)]
            taken == IF code = <<>> THEN 0 ELSE Measure(code[1], unit) + 1
        IN /\ shown.code = NonEmpty(code)
           /\ shown.lines = IF code # message.code THEN <<>>
                            ELSE FitLines(message.lines, Minus(body, taken), unit)
    BY DEF Fit
  <2> QED BY <2>1, <2>2, <2>3 DEF fitted
<1>6. shown.code = IF IsEmpty(cut) THEN <<>> ELSE <<cut>>
  BY <1>5, NonEmptyOne
<1>7. Cuts(S, lines) /\ budget \in Nat
  BY <1>3, <1>4, ShortIsCuts, MinusFacts DEF Minus
<1>8. /\ Cuts(S, fitted) /\ WithBreaks(LineSizes(fitted, unit)) <= budget
      /\ fitted # <<>> => WithBreaks(LineSizes(fitted, unit)) > 0
      /\ WithBreaks(LineSizes(lines, unit)) <= budget => fitted = lines
      /\ WithBreaks(LineSizes(fitted, unit)) \in Int
  <2>1. /\ Cuts(S, fitted) /\ WithBreaks(LineSizes(fitted, unit)) <= budget
        /\ fitted # <<>> => WithBreaks(LineSizes(fitted, unit)) > 0
        /\ WithBreaks(LineSizes(lines, unit)) <= budget => fitted = lines
    BY <1>4, <1>7, LinesFit
  <2> QED BY <2>1, LineSizesFacts, SizesFacts
<1>9. /\ Len(fitted) <= Len(lines)
      /\ \A i \in 1..Len(fitted) :
            /\ IsCutOf(fitted[i], lines[i], unit) /\ fitted[i].name = lines[i].name
            /\ i < Len(fitted) => fitted[i] = lines[i]
  <2> HIDE DEF lines, budget
  <2>1. LET k == FitLines(lines, budget, unit)
        IN /\ Len(k) <= Len(lines)
           /\ \A i \in 1..Len(k) :
                 /\ IsCutOf(k[i], lines[i], unit) /\ k[i].name = lines[i].name
                 /\ i < Len(k) => k[i] = lines[i]
    BY <1>4, <1>7, FitLinesFacts
  <2> QED BY <2>1
<1> DEFINE w == WithBreaks(LineSizes(fitted, unit))
           v == WithBreaks(LineSizes(lines, unit))
<1>10. /\ WithBreaks(CodeSizes(<<cut>>, unit) \o LineSizes(fitted, unit))
            = IF fitted = <<>> THEN m ELSE m + 1 + w
       /\ WithBreaks(CodeSizes(<<whole>>, unit) \o LineSizes(lines, unit))
            = IF lines = <<>> THEN Measure(whole, unit) ELSE Measure(whole, unit) + 1 + v
       /\ w \in Int /\ v \in Int
  BY <1>2, <1>3, <1>7, <1>8, BodyWithCode
<1>11. CodeSizes(<<>>, unit) \o LineSizes(fitted, unit) = LineSizes(fitted, unit)
  BY <1>8, BodyWithoutCode
<1>12. /\ Cuts(S, <<>>) /\ LineSizes(<<>>, unit) = <<>> /\ WithBreaks(<<>>) = 0
       /\ CodeSizes(<<>>, unit) \o LineSizes(<<>>, unit) = <<>>
       /\ WithBreaks(CodeSizes(<<cut>>, unit) \o LineSizes(<<>>, unit)) = m
  BY <1>2, NoLines, BodyWithoutCode, BodyWithCode
<1>13. IsBlock(S, shown.code)
  BY <1>2, <1>6 DEF IsBlock
<1>14. \/ shown.code = <<>>
       \/ \E text, other \in Pieces(S) :
             shown.code = <<text>> /\ message.code = <<other>> /\ IsCutOf(text, other, unit)
  BY <1>1, <1>2, <1>3, <1>6
<1>15. IsEmpty(cut) => m = 0
  BY <1>2, EmptyMeasuresNothing
<1>16. cut = whole <=> ~(<<cut>> # message.code)
  BY <1>1
<1>17. shown.lines = IF cut = whole THEN fitted ELSE <<>>
  BY <1>5, <1>16
<1>18. cut = whole => shown.code = NonEmpty(message.code)
  BY <1>1, <1>5
<1>19. message.lines = lines
  OBVIOUS
<1> HIDE DEF shown, cut, fitted, w, v, budget, lines, m
<1>20. fitted # <<>> => m + 1 + w <= body /\ w <= body
  BY <1>2, <1>3, <1>8, <1>10 DEF w, budget, Minus
<1>21. fitted = <<>> => w = 0
  BY <1>12 DEF w
<1>22. WithBreaks(BodySizes(shown, unit)) <= body
  <2>1. CASE cut = whole /\ ~IsEmpty(cut)
    <3>1. WithBreaks(BodySizes(shown, unit)) = IF fitted = <<>> THEN m ELSE m + 1 + w
      BY <1>6, <1>10, <1>17, <2>1 DEF BodySizes
    <3> QED BY <1>2, <1>20, <3>1
  <2>2. CASE cut = whole /\ IsEmpty(cut)
    <3>1. WithBreaks(BodySizes(shown, unit)) = w
      BY <1>6, <1>11, <1>17, <2>2 DEF BodySizes, w
    <3> QED BY <1>20, <1>21, <3>1
  <2>3. CASE cut # whole /\ ~IsEmpty(cut)
    <3>1. WithBreaks(BodySizes(shown, unit)) = m
      BY <1>6, <1>12, <1>17, <2>3 DEF BodySizes
    <3> QED BY <1>2, <3>1
  <2>4. CASE cut # whole /\ IsEmpty(cut)
    <3>1. WithBreaks(BodySizes(shown, unit)) = 0
      BY <1>6, <1>12, <1>17, <2>4 DEF BodySizes
    <3> QED BY <3>1
  <2> QED BY <2>1, <2>2, <2>3, <2>4
<1>23. ASSUME WithBreaks(BodySizes(message, unit)) <= body
       PROVE  shown.code = NonEmpty(message.code) /\ shown.lines = message.lines
  <2>1. (IF lines = <<>> THEN Measure(whole, unit) ELSE Measure(whole, unit) + 1 + v) <= body
    BY <1>1, <1>10, <1>19, <1>23 DEF BodySizes
  <2>2. lines = <<>> \/ v >= 0
    <3>1. IsSizes(LineSizes(lines, unit)) /\ Len(LineSizes(lines, unit)) = Len(lines)
          /\ \A i \in 1..Len(lines) : LineSizes(lines, unit)[i] \in Nat
      BY <1>7, LineSizesFacts
    <3> DEFINE t == LineSizes(lines, unit)
    <3>2. Len(t) \in 0..4 /\ \A i \in 1..Len(t) : t[i] \in Nat
      BY <3>1, SizesFacts
    <3> HIDE DEF t
    <3>3. Len(t) = 0 => WithBreaks(t) = 0
      BY <3>1, SizesFacts DEF t
    <3>4. Len(t) = 1 => t[1] \in Nat /\ WithBreaks(t) = t[1]
      BY <3>1, <3>2, SizesFacts DEF t
    <3>5. Len(t) = 2 => t[1] \in Nat /\ t[2] \in Nat /\ WithBreaks(t) = t[1] + t[2] + 1
      BY <3>1, <3>2, SizesFacts DEF t
    <3>6. Len(t) = 3 => t[1] \in Nat /\ t[2] \in Nat /\ t[3] \in Nat
                        /\ WithBreaks(t) = t[1] + t[2] + t[3] + 2
      BY <3>1, <3>2, SizesFacts DEF t
    <3>7. Len(t) \in 0..3
      BY <1>7, <3>1, CutsFacts DEF t
    <3>8. WithBreaks(t) >= 0
      BY <3>3, <3>4, <3>5, <3>6, <3>7
    <3> QED BY <3>8 DEF t, v
  <2>3. cut = whole
    BY <1>2, <1>3, <1>10, <2>1, <2>2
  <2>4. m = Measure(whole, unit)
    BY <2>3 DEF m
  <2>5. CASE lines = <<>>
    <3>1. v = 0
      BY <1>12, <2>5 DEF v
    <3> QED BY <1>7, <1>8, <1>17, <1>18, <1>19, <2>3, <2>5, <3>1 DEF v
  <2>6. CASE lines # <<>>
    <3>1. v <= budget
      BY <1>3, <1>10, <2>1, <2>4, <2>6 DEF budget, Minus
    <3> QED BY <1>8, <1>17, <1>18, <1>19, <2>3, <3>1 DEF v
  <2> QED BY <2>5, <2>6
<1>24. Cuts(S, shown.lines)
  BY <1>8, <1>12, <1>17
<1>25. \/ shown.lines = <<>>
       \/ /\ shown.code = NonEmpty(message.code)
          /\ Len(shown.lines) <= Len(message.lines)
          /\ \A i \in 1..Len(shown.lines) :
                /\ IsCutOf(shown.lines[i], message.lines[i], unit)
                /\ shown.lines[i].name = message.lines[i].name
                /\ i < Len(shown.lines) => shown.lines[i] = message.lines[i]
  <2>1. CASE cut = whole
    BY <1>9, <1>17, <1>18, <1>19, <2>1
  <2>2. CASE cut # whole
    BY <1>17, <2>2
  <2> QED BY <2>1, <2>2
<1>26. FitsBody(S, message, shown, body, unit)
  BY <1>13, <1>14, <1>22, <1>23, <1>24, <1>25 DEF FitsBody
<1> QED BY <1>26 DEF shown

\* Message::fit of any message.
LEMMA FitBody ==
    ASSUME NEW S, NEW message, IsMessage(S, message), NEW head \in Nat, NEW body \in Nat,
           NEW unit \in SizeUnits
    PROVE  FitsBody(S, message, Fit(message, head, body, unit), body, unit)
  BY FitBodyWithoutCode, FitBodyWithCode

\* What n characters may grow to in a channel's markup.
Grown(c, n) == IF c.growth = 5 THEN 5 * n ELSE n

\* A channel with the numbers a delivery needs, whose limits leave room for what
\* its markup adds to a message.
IsChannel(c) ==
    /\ c.head \in Nat /\ c.body \in Nat /\ c.unit \in SizeUnits /\ c.growth \in {1, 5}
    /\ c.icon \in Nat /\ c.bold \in Nat /\ c.block \in Nat /\ c.inline \in Nat
    /\ c.title \in Nat /\ c.text \in Nat
    /\ c.inline <= c.block /\ c.titled \in BOOLEAN /\ c.ascii \in BOOLEAN
    /\ c.ascii => c.title = NoLimit /\ c.text = NoLimit
    /\ \/ c.title = NoLimit
       \/ ~c.titled
       \/ c.title >= c.icon + c.bold + Grown(c, c.head)
    /\ \/ c.text = NoLimit
       \/ c.titled /\ c.text >= Grown(c, c.body) + 4 * c.block
       \/ ~c.titled /\ c.text >= c.icon + c.bold + Grown(c, c.head) + Grown(c, c.body) + 4 * c.block + 1

\* The limits each backend sets leave room for its markup.
LEMMA EveryBackendIsAChannel == \A name \in DOMAIN Backends : IsChannel(Backends[name])
<1>1. IsChannel(Plainly)
  BY DEF IsChannel, Plainly, Grown, SizeUnits, NoLimit
<1>2. IsChannel(Slack)
  BY DEF IsChannel, Slack, Plainly, Icon, Grown, SizeUnits, NoLimit
<1>3. IsChannel(Discord)
  BY DEF IsChannel, Discord, Plainly, Icon, Grown, SizeUnits, NoLimit
<1>4. IsChannel(Telegram)
  BY DEF IsChannel, Telegram, Plainly, Icon, Grown, SizeUnits, NoLimit
<1>5. IsChannel(Matrix)
  BY DEF IsChannel, Matrix, Plainly, Icon, Grown, SizeUnits, NoLimit
<1>6. IsChannel(Gotify)
  BY DEF IsChannel, Gotify, Plainly, Icon, Grown, SizeUnits, NoLimit
<1>7. IsChannel(Pushover)
  BY DEF IsChannel, Pushover, Plainly, Icon, Grown, SizeUnits, NoLimit
<1>8. IsChannel(Ntfy)
  BY DEF IsChannel, Ntfy, Plainly, Icon, Grown, SizeUnits, NoLimit
<1>9. IsChannel(FreeMobile)
  BY DEF IsChannel, FreeMobile, Plainly, Icon, Grown, SizeUnits, NoLimit
<1>10. IsChannel(Email)
  BY DEF IsChannel, Email, Plainly, Icon, Grown, SizeUnits, NoLimit
<1>11. IsChannel(Webhook)
  BY <1>1 DEF Webhook
<1>12. \A name \in DOMAIN Backends :
          Backends[name] \in {Slack, Discord, Telegram, Matrix, Gotify, Pushover, Ntfy, FreeMobile,
                              Email, Webhook}
  BY DEF Backends
<1> QED BY <1>2, <1>3, <1>4, <1>5, <1>6, <1>7, <1>8, <1>9, <1>10, <1>11, <1>12

\* A text in a channel's markup is no longer than what its characters may grow to.
LEMMA EscapedFacts ==
    ASSUME NEW S, NEW c, IsChannel(c), ~c.ascii, NEW text \in Pieces(S)
    PROVE  /\ Escaped(c, text) \in Nat /\ Measure(text, c.unit) \in Nat
           /\ Escaped(c, text) <= Grown(c, Measure(text, c.unit))
<1> DEFINE cost == Cost(text.sort, c.unit)
           each == IF text.sort = "escaped" THEN c.growth ELSE cost
           mark == IF text.end = "marked" THEN Ellipsis(c.unit) ELSE 0
<1>1. c.unit \in SizeUnits /\ c.growth \in {1, 5}
  BY DEF IsChannel
<1>2. text.length \in Nat /\ cost \in {1, 4} /\ Ellipsis(c.unit) \in {1, 3}
  BY <1>1, MeasureFacts DEF Pieces
<1>3. text.sort = "escaped" => cost = 1
  BY DEF Cost
<1>4. Measure(text, c.unit) = text.length * cost + mark
  BY DEF Measure
<1>5. Escaped(c, text) = text.length * each + mark
  BY DEF Escaped
<1>6. mark \in Nat /\ each \in {1, 4, 5} /\ (each = 5 => c.growth = 5) /\ (each # 5 => each = cost \/ each = 1)
  BY <1>1, <1>2
<1> HIDE DEF cost, each, mark
<1>7. CASE each = 1
  <2>1. text.length * each = text.length
    BY <1>2, <1>7
  <2>2. CASE cost = 1
    BY <1>1, <1>2, <1>4, <1>5, <1>6, <2>1, <2>2 DEF Grown
  <2>3. CASE cost = 4
    BY <1>1, <1>2, <1>4, <1>5, <1>6, <2>1, <2>3 DEF Grown
  <2> QED BY <1>2, <2>2, <2>3
<1>8. CASE each = 4
  <2>1. cost = 4
    BY <1>6, <1>8
  <2> QED BY <1>1, <1>2, <1>4, <1>5, <1>6, <1>8, <2>1 DEF Grown
<1>9. CASE each = 5
  <2>1. c.growth = 5
    BY <1>6, <1>9
  <2>2. CASE cost = 1
    BY <1>1, <1>2, <1>4, <1>5, <1>6, <1>9, <2>1, <2>2 DEF Grown
  <2>3. CASE cost = 4
    BY <1>1, <1>2, <1>4, <1>5, <1>6, <1>9, <2>1, <2>3 DEF Grown
  <2> QED BY <1>2, <2>2, <2>3
<1> QED BY <1>6, <1>7, <1>8, <1>9

\* The pieces of a body as a channel's service counts them.
EscapedLine(c, line) == Escaped(c, line) + (IF line.name > 0 THEN line.name + c.inline ELSE 0)
EscapedLines(c, lines) == [i \in DOMAIN lines |-> EscapedLine(c, lines[i])]
EscapedCode(c, code) == [i \in DOMAIN code |-> c.block + Escaped(c, code[i])]

\* A piece in markup is no longer than what its text grows to, and a code block's fences.
LEMMA EscapedPiece ==
    ASSUME NEW S, NEW c, IsChannel(c), ~c.ascii, NEW piece \in Pieces(S)
    PROVE  /\ EscapedLine(c, piece) \in Int /\ c.block + Escaped(c, piece) \in Int
           /\ EscapedLine(c, piece) <= Grown(c, LineLength(piece, c.unit)) + c.block
           /\ c.block + Escaped(c, piece) <= Grown(c, Measure(piece, c.unit)) + c.block
<1>1. c.inline \in Nat /\ c.block \in Nat /\ c.inline <= c.block /\ c.unit \in SizeUnits
  BY DEF IsChannel
<1>2. piece.name \in Nat
  BY DEF Pieces
<1>3. /\ Escaped(c, piece) \in Nat /\ Measure(piece, c.unit) \in Nat
      /\ Escaped(c, piece) <= Grown(c, Measure(piece, c.unit))
  BY EscapedFacts
<1>4. LineLength(piece, c.unit) = piece.name + Measure(piece, c.unit)
  BY DEF LineLength
<1> QED BY <1>1, <1>2, <1>3, <1>4 DEF EscapedLine, Grown

\* The sizes of at most three lines in markup.
LEMMA EscapedLinesFacts ==
    ASSUME NEW S, NEW c, IsChannel(c), ~c.ascii, NEW lines, Cuts(S, lines)
    PROVE  /\ IsSizes(EscapedLines(c, lines)) /\ Len(EscapedLines(c, lines)) = Len(lines)
           /\ \A i \in 1..Len(lines) : EscapedLines(c, lines)[i] = EscapedLine(c, lines[i])
<1> DEFINE L(i) == EscapedLine(c, lines[i])
           s == [i \in 1..Len(lines) |-> L(i)]
<1>1. /\ Len(lines) \in 0..3 /\ DOMAIN lines = 1..Len(lines)
      /\ \A i \in 1..Len(lines) : L(i) \in Int
  <2>1. /\ Len(lines) \in 0..3 /\ DOMAIN lines = 1..Len(lines)
        /\ \A i \in 1..Len(lines) : lines[i] \in Pieces(S)
    BY CutsFacts
  <2>2. \A i \in 1..Len(lines) : L(i) \in Int
    BY <2>1, EscapedPiece
  <2> QED BY <2>1, <2>2
<1>2. EscapedLines(c, lines) = s
  BY <1>1 DEF EscapedLines
<1> HIDE DEF L
<1>3. s \in Seq(Int) /\ Len(s) = Len(lines)
  <2> DEFINE n == Len(lines)
  <2>1. n \in Nat /\ \A i \in 1..n : L(i) \in Int
    BY <1>1
  <2> HIDE DEF n
  <2>2. [i \in 1..n |-> L(i)] \in [1..n -> Int]
    BY <2>1
  <2>3. [i \in 1..n |-> L(i)] \in Seq(Int) /\ Len([i \in 1..n |-> L(i)]) = n
    BY <2>1, <2>2, IsASeq
  <2> QED BY <2>3 DEF n
<1>4. IsSizes(s)
  BY <1>1, <1>3 DEF IsSizes
<1> QED BY <1>1, <1>2, <1>3, <1>4 DEF L

\* s grows to t in a channel's markup.
MarksUp(c, s, t) ==
    /\ IsSizes(s) /\ IsSizes(t) /\ Len(s) = Len(t)
    /\ \A i \in 1..Len(s) : t[i] <= Grown(c, s[i]) + c.block

\* A body in markup is no longer than what it may grow to, and four times the fences.
LEMMA MarkedUp ==
    ASSUME NEW c, IsChannel(c), NEW s, NEW t, MarksUp(c, s, t)
    PROVE  /\ WithBreaks(t) <= Grown(c, WithBreaks(s)) + 4 * c.block
           /\ WithBreaks(t) \in Int /\ WithBreaks(s) \in Int
<1>1. c.block \in Nat /\ c.growth \in {1, 5}
  BY DEF IsChannel
<1>2. WithBreaks(t) \in Int /\ WithBreaks(s) \in Int
  BY SizesFacts DEF MarksUp
<1>3. CASE c.growth = 5
  <2>1. Escapes(s, t, c.block)
    BY <1>3 DEF MarksUp, Escapes, Grown
  <2> QED BY <1>1, <1>2, <1>3, <2>1, WithBreaksEscape DEF Grown
<1>4. CASE c.growth # 5
  <2>1. Grows(s, t, c.block)
    BY <1>4 DEF MarksUp, Grows, Grown
  <2> QED BY <1>1, <1>2, <1>4, <2>1, WithBreaksGrow DEF Grown
<1> QED BY <1>3, <1>4

\* Each piece of a body grows within those bounds.
LEMMA BodyMarksUp ==
    ASSUME NEW S, NEW c, IsChannel(c), ~c.ascii, NEW message,
           IsBlock(S, message.code), Cuts(S, message.lines)
    PROVE  MarksUp(c, BodySizes(message, c.unit),
                   EscapedCode(c, message.code) \o EscapedLines(c, message.lines))
<1> DEFINE ls == LineSizes(message.lines, c.unit)
           es == EscapedLines(c, message.lines)
           n == Len(message.lines)
<1>0. c.unit \in SizeUnits
  BY DEF IsChannel
<1>1. /\ IsSizes(ls) /\ Len(ls) = n
      /\ \A i \in 1..n : ls[i] = LineLength(message.lines[i], c.unit)
  BY <1>0, LineSizesFacts
<1>2. /\ IsSizes(es) /\ Len(es) = n
      /\ \A i \in 1..n : es[i] = EscapedLine(c, message.lines[i])
  <2> DEFINE lines == message.lines
  <2>1. Cuts(S, lines)
    OBVIOUS
  <2> HIDE DEF lines
  <2>2. /\ IsSizes(EscapedLines(c, lines)) /\ Len(EscapedLines(c, lines)) = Len(lines)
        /\ \A i \in 1..Len(lines) : EscapedLines(c, lines)[i] = EscapedLine(c, lines[i])
    BY <2>1, EscapedLinesFacts
  <2> QED BY <2>2 DEF lines
<1>3. n \in 0..3 /\ \A i \in 1..n : message.lines[i] \in Pieces(S)
  BY CutsFacts
<1>4. \A i \in 1..n : es[i] <= Grown(c, ls[i]) + c.block
  BY <1>1, <1>2, <1>3, EscapedPiece
<1> HIDE DEF ls, es, n
<1>5. CASE message.code = <<>>
  <2>1. CodeSizes(message.code, c.unit) = <<>> /\ EscapedCode(c, message.code) = <<>>
    BY <1>5 DEF CodeSizes, EscapedCode
  <2>2. <<>> \o ls = ls /\ <<>> \o es = es
    BY <1>1, <1>2, ConcatEmptySeq DEF IsSizes
  <2> QED BY <1>1, <1>2, <1>4, <2>1, <2>2 DEF MarksUp, BodySizes, ls, es
<1>6. ASSUME NEW text \in Pieces(S), message.code = <<text>>
      PROVE  MarksUp(c, BodySizes(message, c.unit), EscapedCode(c, message.code) \o es)
  <2> DEFINE m == Measure(text, c.unit)
             b == c.block + Escaped(c, text)
  <2>1. CodeSizes(message.code, c.unit) = <<m>> /\ EscapedCode(c, message.code) = <<b>>
    BY <1>6 DEF CodeSizes, EscapedCode
  <2>2. b \in Int /\ b <= Grown(c, m) + c.block
    BY EscapedPiece
  <2>3. m \in Int
    BY <1>0, MeasureFacts
  <2> HIDE DEF m, b
  <2>4. Len(ls) \in 0..3 /\ Len(es) \in 0..3
    BY <1>1, <1>2, <1>3
  <2>5. /\ IsSizes(<<m>> \o ls) /\ Len(<<m>> \o ls) = Len(ls) + 1
        /\ (<<m>> \o ls)[1] = m /\ \A i \in 1..Len(ls) : (<<m>> \o ls)[i + 1] = ls[i]
    <3>1. IsSizes(<<m>> \o ls)
      BY <1>1, <2>3, <2>4, WithBreaksCons
    <3>2. Len(<<m>> \o ls) = Len(ls) + 1
      BY <1>1, <2>3, <2>4, WithBreaksCons
    <3>3. (<<m>> \o ls)[1] = m
      BY <1>1, <2>3, <2>4, WithBreaksCons
    <3>4. \A i \in 1..Len(ls) : (<<m>> \o ls)[i + 1] = ls[i]
      BY <1>1, <2>3, <2>4, WithBreaksCons
    <3> QED BY <3>1, <3>2, <3>3, <3>4
  <2>6. /\ IsSizes(<<b>> \o es) /\ Len(<<b>> \o es) = Len(es) + 1
        /\ (<<b>> \o es)[1] = b /\ \A i \in 1..Len(es) : (<<b>> \o es)[i + 1] = es[i]
    <3>1. IsSizes(<<b>> \o es)
      BY <1>2, <2>2, <2>4, WithBreaksCons
    <3>2. Len(<<b>> \o es) = Len(es) + 1
      BY <1>2, <2>2, <2>4, WithBreaksCons
    <3>3. (<<b>> \o es)[1] = b
      BY <1>2, <2>2, <2>4, WithBreaksCons
    <3>4. \A i \in 1..Len(es) : (<<b>> \o es)[i + 1] = es[i]
      BY <1>2, <2>2, <2>4, WithBreaksCons
    <3> QED BY <3>1, <3>2, <3>3, <3>4
  <2>7. \A i \in 1..(n + 1) : (<<b>> \o es)[i] <= Grown(c, (<<m>> \o ls)[i]) + c.block
    <3> TAKE i \in 1..(n + 1)
    <3>1. CASE i = 1
      BY <2>2, <2>5, <2>6, <3>1
    <3>2. CASE i # 1
      <4>1. i - 1 \in 1..n /\ (i - 1) + 1 = i
        BY <1>3, <3>2
      <4>2. (<<b>> \o es)[i] = es[i - 1] /\ (<<m>> \o ls)[i] = ls[i - 1]
        BY <1>1, <1>2, <2>5, <2>6, <4>1
      <4> QED BY <1>4, <4>1, <4>2
    <3> QED BY <3>1, <3>2
  <2> QED BY <1>1, <1>2, <2>1, <2>5, <2>6, <2>7 DEF MarksUp, BodySizes, ls
<1> QED BY <1>5, <1>6 DEF IsBlock, es

\* A headline in markup is no longer than its limit may grow to.
LEMMA HeadlineMarksUp ==
    ASSUME NEW S, NEW c, IsChannel(c), ~c.ascii, NEW message,
           message.subject \in Pieces(S), message.rest \in Pieces(S),
           Measure(message.subject, c.unit) + Measure(message.rest, c.unit) <= c.head
    PROVE  /\ HeadlineSize(c, message) \in Nat
           /\ HeadlineSize(c, message) <= c.icon + c.bold + Grown(c, c.head)
<1>1. c.icon \in Nat /\ c.bold \in Nat /\ c.head \in Nat
  BY DEF IsChannel
<1> DEFINE s == Escaped(c, message.subject)
           r == Escaped(c, message.rest)
           m == Measure(message.subject, c.unit)
           n == Measure(message.rest, c.unit)
<1>2. s \in Nat /\ m \in Nat /\ s <= Grown(c, m) /\ r \in Nat /\ n \in Nat /\ r <= Grown(c, n)
  BY EscapedFacts
<1>3. m + n <= c.head
  OBVIOUS
<1>4. HeadlineSize(c, message) = c.icon + c.bold + s + r
  BY DEF HeadlineSize
<1> HIDE DEF s, r, m, n
<1> QED BY <1>1, <1>2, <1>3, <1>4 DEF Grown

\* Whatever the message, what a channel is sent is no longer than it takes.
LEMMA FitsTheChannelHolds ==
    ASSUME NEW S, NEW c, IsChannel(c), NEW message, IsMessage(S, message)
    PROVE  FitsTheChannel(c, Fit(message, c.head, c.body, c.unit))
<1> DEFINE shown == Fit(message, c.head, c.body, c.unit)
           h == HeadlineSize(c, shown)
           b == BodySize(c, shown)
<1>1. /\ c.head \in Nat /\ c.body \in Nat /\ c.unit \in SizeUnits /\ c.icon \in Nat /\ c.bold \in Nat
      /\ c.block \in Nat /\ c.titled \in BOOLEAN
  BY DEF IsChannel
<1>2. CASE c.ascii
  BY <1>2 DEF IsChannel, FitsTheChannel, Within
<1>3. CASE ~c.ascii
  <2>1. /\ shown.subject \in Pieces(S) /\ shown.rest \in Pieces(S)
        /\ Measure(shown.subject, c.unit) + Measure(shown.rest, c.unit) <= c.head
    BY <1>1, FitHeadline
  <2>2. /\ IsBlock(S, shown.code) /\ Cuts(S, shown.lines)
        /\ WithBreaks(BodySizes(shown, c.unit)) <= c.body
    <3>1. FitsBody(S, message, shown, c.body, c.unit)
      BY <1>1, FitBody
    <3> HIDE DEF shown
    <3> QED BY <3>1 DEF FitsBody
  <2>3. b = WithBreaks(EscapedCode(c, shown.code) \o EscapedLines(c, shown.lines))
    BY DEF BodySize, EscapedCode, EscapedLines, EscapedLine
  <2> HIDE DEF shown, h, b
  <2>4. h \in Nat /\ h <= c.icon + c.bold + Grown(c, c.head)
    BY <1>3, <2>1, HeadlineMarksUp DEF h
  <2>5. b \in Int /\ b <= Grown(c, c.body) + 4 * c.block
    <3> DEFINE s == BodySizes(shown, c.unit)
               t == EscapedCode(c, shown.code) \o EscapedLines(c, shown.lines)
    <3>1. MarksUp(c, s, t)
      BY <1>3, <2>2, BodyMarksUp
    <3>2. WithBreaks(s) <= c.body
      BY <2>2
    <3> HIDE DEF s, t
    <3>3. WithBreaks(t) <= Grown(c, WithBreaks(s)) + 4 * c.block
          /\ WithBreaks(t) \in Int /\ WithBreaks(s) \in Int
      BY <3>1, MarkedUp
    <3>4. Grown(c, WithBreaks(s)) <= Grown(c, c.body) /\ Grown(c, WithBreaks(s)) \in Int
          /\ Grown(c, c.body) \in Int
      BY <1>1, <3>2, <3>3 DEF Grown
    <3> QED BY <1>1, <2>3, <3>3, <3>4 DEF t
  <2>6. Grown(c, c.head) \in Nat /\ Grown(c, c.body) \in Nat
    BY <1>1 DEF Grown
  <2>7. Within(TitleSize(c, shown), c.title)
    <3>1. TitleSize(c, shown) = IF c.titled THEN h ELSE 0
      BY DEF TitleSize, h
    <3>2. \/ c.title = NoLimit
          \/ ~c.titled
          \/ c.title >= c.icon + c.bold + Grown(c, c.head)
      BY DEF IsChannel
    <3>3. c.title \in Nat
      BY DEF IsChannel
    <3> QED BY <1>1, <2>4, <2>6, <3>1, <3>2, <3>3 DEF Within
  <2>8. Within(TextSize(c, shown), c.text)
    <3>1. TextSize(c, shown) = IF c.titled THEN b ELSE h + (IF b = 0 THEN 0 ELSE b + 1)
      BY DEF TextSize, h, b
    <3>2. \/ c.text = NoLimit
          \/ c.titled /\ c.text >= Grown(c, c.body) + 4 * c.block
          \/ ~c.titled /\ c.text >= c.icon + c.bold + Grown(c, c.head) + Grown(c, c.body) + 4 * c.block + 1
      BY DEF IsChannel
    <3>3. c.text \in Nat /\ 4 * c.block \in Nat
      BY <1>1 DEF IsChannel
    <3>4. CASE c.titled /\ c.text >= Grown(c, c.body) + 4 * c.block
      BY <2>5, <2>6, <3>1, <3>3, <3>4 DEF Within
    <3>5. CASE ~c.titled /\ c.text >= c.icon + c.bold + Grown(c, c.head) + Grown(c, c.body) + 4 * c.block + 1
      <4>1. TextSize(c, shown) <= h + b + 1 \/ TextSize(c, shown) = h
        BY <2>4, <2>5, <3>1, <3>5
      <4>2. h + b + 1 <= c.text /\ h <= c.text
        BY <1>1, <2>4, <2>5, <2>6, <3>3, <3>5
      <4>3. TextSize(c, shown) \in Int
        BY <2>4, <2>5, <3>1, <3>5
      <4> QED BY <2>4, <2>5, <3>3, <4>1, <4>2, <4>3 DEF Within
    <3> QED BY <3>2, <3>4, <3>5 DEF Within
  <2> QED BY <2>7, <2>8 DEF FitsTheChannel, shown
<1> QED BY <1>2, <1>3

\* Whatever the message, what is shown is its beginning, and all of it when it fits.
LEMMA ShowsTheBeginningHolds ==
    ASSUME NEW S, NEW c, IsChannel(c), NEW message, IsMessage(S, message)
    PROVE  ShowsTheBeginning(c, Fit(message, c.head, c.body, c.unit), message)
<1> DEFINE shown == Fit(message, c.head, c.body, c.unit)
<1>1. c.head \in Nat /\ c.body \in Nat /\ c.unit \in SizeUnits
  BY DEF IsChannel
<1>2. /\ IsCutOf(shown.subject, message.subject, c.unit)
      /\ IsCutOf(shown.rest, message.rest, c.unit)
      /\ Measure(message.subject, c.unit) + Measure(message.rest, c.unit) <= c.head =>
            shown.subject = message.subject /\ shown.rest = message.rest
  BY <1>1, FitHeadline
<1>3. FitsBody(S, message, shown, c.body, c.unit)
  BY <1>1, FitBody
<1> HIDE DEF shown
<1>4. Cuts(S, shown.lines) /\ Cuts(S, message.lines)
  BY <1>3, ShortIsCuts DEF FitsBody, IsMessage
<1>5. Len(shown.code) <= Len(message.code)
      /\ \A i \in DOMAIN shown.code : IsCutOf(shown.code[i], message.code[i], c.unit)
  <2>1. CASE shown.code = <<>>
    <3>1. Len(message.code) \in Nat
      BY OneFacts, LenProperties DEF IsMessage
    <3> QED BY <2>1, <3>1
  <2>2. CASE shown.code # <<>>
    <3>1. PICK text, whole \in Pieces(S) :
             shown.code = <<text>> /\ message.code = <<whole>> /\ IsCutOf(text, whole, c.unit)
      BY <1>3, <2>2 DEF FitsBody
    <3>2. /\ Len(<<text>>) = 1 /\ Len(<<whole>>) = 1 /\ DOMAIN <<text>> = {1}
          /\ <<text>>[1] = text /\ <<whole>>[1] = whole
      OBVIOUS
    <3> QED BY <3>1, <3>2
  <2> QED BY <2>1, <2>2
<1>6. Len(shown.lines) <= Len(message.lines)
      /\ \A i \in DOMAIN shown.lines :
            /\ IsCutOf(shown.lines[i], message.lines[i], c.unit)
            /\ i < Len(shown.lines) => shown.lines[i] = message.lines[i]
            /\ shown.code = NonEmpty(message.code)
  <2>0. /\ Len(message.lines) \in Nat /\ DOMAIN shown.lines = 1..Len(shown.lines)
    BY <1>4, CutsFacts
  <2>1. CASE shown.lines = <<>>
    BY <2>0, <2>1
  <2>2. CASE shown.lines # <<>>
    BY <1>3, <2>0, <2>2 DEF FitsBody
  <2> QED BY <2>1, <2>2
<1>7. WithBreaks(BodySizes(message, c.unit)) <= c.body =>
          shown.code = NonEmpty(message.code) /\ shown.lines = message.lines
  BY <1>3 DEF FitsBody
<1>8. BodySizes(message, c.unit)
        = [i \in DOMAIN message.code |-> Measure(message.code[i], c.unit)]
             \o [i \in DOMAIN message.lines |-> LineLength(message.lines[i], c.unit)]
  BY DEF BodySizes, CodeSizes, LineSizes
<1>9. ShowsTheBeginning(c, shown, message)
  BY <1>2, <1>5, <1>6, <1>7, <1>8 DEF ShowsTheBeginning
<1> QED BY <1>9 DEF shown

\* No backend rings louder for what is less urgent.
LEMMA LouderForMoreUrgent ==
    ASSUME NEW name \in DOMAIN Backends
    PROVE  \A u \in 1..4 : Backends[name].loudness[u] <= Backends[name].loudness[u + 1]
<1> DEFINE Louder(l) == \A u \in 1..4 : l[u] <= l[u + 1]
<1>1. \A u \in 1..4 : u = 1 \/ u = 2 \/ u = 3 \/ u = 4
  OBVIOUS
<1>2. Louder(<<0, 0, 0, 0, 0>>)
  BY <1>1
<1>3. Louder(<<2, 3, 5, 8, 9>>)
  BY <1>1
<1>4. Louder(<<-1, 0, 0, 1, 1>>)
  BY <1>1
<1>5. Louder(<<2, 3, 3, 4, 5>>)
  BY <1>1
<1>6. Backends[name] \in {Slack, Discord, Telegram, Matrix, Gotify, Pushover, Ntfy, FreeMobile,
                          Email, Webhook}
  BY DEF Backends
<1>7. Backends[name].loudness \in {<<0, 0, 0, 0, 0>>, <<2, 3, 5, 8, 9>>, <<-1, 0, 0, 1, 1>>,
                                   <<2, 3, 3, 4, 5>>}
  <2>1. /\ Slack.loudness = <<0, 0, 0, 0, 0>> /\ Discord.loudness = <<0, 0, 0, 0, 0>>
        /\ Telegram.loudness = <<0, 0, 0, 0, 0>> /\ Matrix.loudness = <<0, 0, 0, 0, 0>>
    BY DEF Slack, Discord, Telegram, Matrix, Plainly
  <2>2. /\ Gotify.loudness = <<2, 3, 5, 8, 9>> /\ Pushover.loudness = <<-1, 0, 0, 1, 1>>
        /\ Ntfy.loudness = <<2, 3, 3, 4, 5>>
    BY DEF Gotify, Pushover, Ntfy, Plainly
  <2>3. /\ FreeMobile.loudness = <<0, 0, 0, 0, 0>> /\ Email.loudness = <<0, 0, 0, 0, 0>>
        /\ Webhook.loudness = <<0, 0, 0, 0, 0>>
    BY DEF FreeMobile, Email, Webhook, Plainly
  <2> QED BY <1>6, <2>1, <2>2, <2>3
<1> HIDE DEF Louder
<1>8. Louder(Backends[name].loudness)
  BY <1>2, <1>3, <1>4, <1>5, <1>7
<1> QED BY <1>8 DEF Louder

\* The kinds of events.
LEMMA KindsOfEvent ==
    EventKinds = {"down", "degraded", "recovered", "cert_expiring", "domain_expiring", "release",
                  "digest", "peer_link_degraded", "cert_changed", "cert_unreadable", "budget_burn",
                  "alert"}
  BY DEF EventKinds, Carries

\* Whatever the event, loudness, colour and tag follow its urgency.
LEMMA RingsByUrgencyHolds ==
    ASSUME NEW name \in DOMAIN Backends, NEW e, IsEvent(e)
    PROVE  RingsByUrgency(Backends[name], e)
<1>1. \/ e.kind = "alert" /\ e.severity \in Severities
      \/ e.kind \in EventKinds \ {"alert"} /\ e.severity = "none"
  BY DEF IsEvent
<1>2. /\ Color(e) = "green" => Urgency(e) = 1
      /\ Color(e) = "red" => Urgency(e) >= 4
      /\ NtfyTag(e) = "rotating_light" <=> Color(e) = "red"
  <2>1. CASE e.kind = "alert" /\ e.severity \in Severities
    BY <2>1 DEF Color, Urgency, NtfyTag, Severities
  <2>2. CASE e.kind = "down" /\ e.severity = "none"
    BY <2>2 DEF Color, Urgency, NtfyTag
  <2>3. CASE e.kind \in {"recovered", "digest"} /\ e.severity = "none"
    BY <2>3 DEF Color, Urgency, NtfyTag
  <2>4. CASE /\ e.kind \in {"degraded", "cert_expiring", "domain_expiring", "release",
                            "peer_link_degraded", "cert_changed", "cert_unreadable", "budget_burn"}
             /\ e.severity = "none"
    <3>1. Color(e) \in {"copper", "orange"}
      BY <2>4 DEF Color
    <3>2. NtfyTag(e) # "rotating_light"
      BY <2>4 DEF NtfyTag
    <3> QED BY <3>1, <3>2
  <2> QED BY <1>1, <2>1, <2>2, <2>3, <2>4, KindsOfEvent
<1> QED BY <1>2, LouderForMoreUrgent DEF RingsByUrgency

\* Each of the texts is empty, or one of the others says it whole.
SaidBy(texts, others) ==
    \A i \in DOMAIN texts : IsEmpty(texts[i]) \/ \E j \in DOMAIN others :
        others[j].of = texts[i].of /\ others[j].length >= texts[i].length

\* Nothing is told by anything.
LEMMA ToldNone == ASSUME NEW others PROVE SaidBy(<<>>, others)
  BY DEF SaidBy

\* What some texts tell, they tell with others.
LEMMA ToldConcat ==
    ASSUME NEW W, NEW a \in Seq(W), NEW b \in Seq(W), NEW texts, SaidBy(texts, a) \/ SaidBy(texts, b)
    PROVE  SaidBy(texts, a \o b)
<1>1. /\ a \o b \in Seq(W) /\ Len(a \o b) = Len(a) + Len(b)
      /\ \A i \in 1..(Len(a) + Len(b)) : (a \o b)[i] = IF i <= Len(a) THEN a[i] ELSE b[i - Len(a)]
  BY ConcatProperties
<1>2. Len(a) \in Nat /\ Len(b) \in Nat /\ DOMAIN a = 1..Len(a) /\ DOMAIN b = 1..Len(b)
      /\ DOMAIN (a \o b) = 1..(Len(a) + Len(b))
  BY <1>1
<1>3. \A j \in DOMAIN a : j \in DOMAIN (a \o b) /\ (a \o b)[j] = a[j]
  BY <1>1, <1>2
<1>4. \A j \in DOMAIN b : Len(a) + j \in DOMAIN (a \o b) /\ (a \o b)[Len(a) + j] = b[j]
  <2> TAKE j \in DOMAIN b
  <2>1. Len(a) + j \in 1..(Len(a) + Len(b)) /\ ~(Len(a) + j <= Len(a)) /\ (Len(a) + j) - Len(a) = j
    BY <1>2
  <2> QED BY <1>1, <1>2, <2>1
<1>5. ASSUME NEW i \in DOMAIN texts
      PROVE  IsEmpty(texts[i]) \/ \E j \in DOMAIN (a \o b) :
                (a \o b)[j].of = texts[i].of /\ (a \o b)[j].length >= texts[i].length
  <2>1. CASE SaidBy(texts, a)
    <3>1. IsEmpty(texts[i]) \/ \E j \in DOMAIN a : a[j].of = texts[i].of /\ a[j].length >= texts[i].length
      BY <2>1 DEF SaidBy
    <3> QED BY <1>3, <3>1
  <2>2. CASE SaidBy(texts, b)
    <3>1. IsEmpty(texts[i]) \/ \E j \in DOMAIN b : b[j].of = texts[i].of /\ b[j].length >= texts[i].length
      BY <2>2 DEF SaidBy
    <3> QED BY <1>4, <3>1
  <2> QED BY <2>1, <2>2
<1> QED BY <1>5 DEF SaidBy

\* A text is told by one at least as long that says the same.
LEMMA ToldOne ==
    ASSUME NEW S, NEW text \in Wholes(S), NEW other, other.of = text.of, other.length >= text.length
    PROVE  SaidBy(<<text>>, <<other>>)
<1>1. /\ DOMAIN <<text>> = {1} /\ DOMAIN <<other>> = {1}
      /\ <<text>>[1] = text /\ <<other>>[1] = other
  OBVIOUS
<1> QED BY <1>1 DEF SaidBy

\* A text is told by itself, behind a phrase, as a field, and with its empty ones left out.
LEMMA ToldAs ==
    ASSUME NEW S, NEW texts, IsOne(S, texts)
    PROVE  /\ SaidBy(texts, texts) /\ SaidBy(texts, Saying(texts)) /\ SaidBy(texts, NonEmpty(texts))
           /\ SaidBy(NonEmpty(texts), NonEmpty(texts))
           /\ texts # <<>> => SaidBy(texts, Fields(texts)) /\ SaidBy(texts, <<Saying(texts)[1]>>)
<1>1. CASE texts = <<>>
  BY <1>1, ToldNone DEF NonEmpty
<1>2. CASE texts # <<>>
  <2>1. PICK text \in Wholes(S) : texts = <<text>> /\ texts[1] = text
    BY <1>2 DEF IsOne
  <2>2. text.length \in Nat /\ PHRASE \in Nat
    BY DeliveriesAssumption DEF Wholes
  <2>3. SaidBy(<<text>>, <<text>>)
    BY <2>2, ToldOne
  <2> DEFINE said == [text EXCEPT !.length = @ + PHRASE]
             field == [text EXCEPT !.name = 5]
  <2>4. Saying(<<text>>) = <<said>> /\ said.of = text.of /\ said.length = text.length + PHRASE
    BY SayingFacts
  <2>5. Fields(<<text>>) = <<field>> /\ field.of = text.of /\ field.length = text.length
    BY FieldsFacts
  <2> HIDE DEF said, field
  <2>6. SaidBy(<<text>>, <<said>>) /\ <<said>>[1] = said
    BY <2>2, <2>4, ToldOne
  <2>7. SaidBy(<<text>>, <<field>>)
    BY <2>2, <2>5, ToldOne
  <2>8. NonEmpty(<<text>>) = IF IsEmpty(text) THEN <<>> ELSE <<text>>
    BY NonEmptyOne
  <2>9. SaidBy(<<text>>, NonEmpty(<<text>>)) /\ SaidBy(NonEmpty(<<text>>), NonEmpty(<<text>>))
    <3>1. CASE IsEmpty(text)
      <4>1. DOMAIN <<text>> = {1} /\ <<text>>[1] = text
        OBVIOUS
      <4>2. SaidBy(<<text>>, <<>>)
        BY <3>1, <4>1 DEF SaidBy
      <4> QED BY <2>8, <3>1, <4>2, ToldNone
    <3>2. CASE ~IsEmpty(text)
      BY <2>3, <2>8, <3>2
    <3> QED BY <3>1, <3>2
  <2> QED BY <2>1, <2>3, <2>4, <2>5, <2>6, <2>7, <2>9
<1> QED BY <1>1, <1>2

\* What is left, said in days.
LEMMA DaysAreDays ==
    ASSUME NEW seconds \in Int
    PROVE  LET days == IF seconds < 0 THEN -((-seconds) \div DAY) ELSE seconds \div DAY
           IN /\ ExpiryPhrase(seconds)[1] = "expired" <=> seconds <= 0
              /\ days > 0 <=> ExpiryPhrase(seconds)[1] = "days"
              /\ days > 0 => days = ExpiryPhrase(seconds)[2]
<1>1. CASE seconds <= 0
  <2>1. ExpiryPhrase(seconds) = <<"expired", 0>>
    BY <1>1 DEF ExpiryPhrase
  <2>2. (IF seconds < 0 THEN -((-seconds) \div DAY) ELSE seconds \div DAY) <= 0
    BY <1>1 DEF DAY
  <2>3. (IF seconds < 0 THEN -((-seconds) \div DAY) ELSE seconds \div DAY) \in Int
    BY DEF DAY
  <2> QED BY <1>1, <2>1, <2>2, <2>3
<1>2. CASE seconds > 0 /\ seconds < DAY
  <2>1. ExpiryPhrase(seconds)[1] \in {"minutes", "hours"}
    BY <1>2 DEF ExpiryPhrase, DAY, HOUR
  <2>2. seconds \div DAY = 0
    BY <1>2 DEF DAY
  <2> QED BY <1>2, <2>1, <2>2
<1>3. CASE seconds >= DAY
  <2>1. ExpiryPhrase(seconds) = <<"days", seconds \div DAY>>
    BY <1>3 DEF ExpiryPhrase, DAY, HOUR
  <2>2. seconds \div DAY > 0 /\ seconds > 0
    BY <1>3 DEF DAY
  <2> QED BY <1>3, <2>1, <2>2
<1> QED BY <1>1, <1>2, <1>3 DEF DAY

\* What the details of an event tell of its fields.
Tells(e, texts) == SaidBy(texts, Details(e).code) \/ SaidBy(texts, Details(e).lines)

\* Lines are a sequence of texts.
LEMMA ShortIsSeq == ASSUME NEW S, NEW k, NEW texts, Short(S, k, texts) PROVE texts \in Seq(Wholes(S))
  BY DEF Short

\* The words of a down tell its error, cause, vantage and change, its impact without a cause.
LEMMA DownTells ==
    ASSUME NEW e, IsEvent(e), e.kind = "down"
    PROVE  /\ Tells(e, e.error) /\ Tells(e, e.cause) /\ Tells(e, e.vantage) /\ Tells(e, e.change)
           /\ e.cause = <<>> => Tells(e, e.impacted)
<1> DEFINE S == Said(e)
           W == Wholes(S)
           a == Saying(IF e.cause # <<>> THEN e.cause ELSE e.impacted)
           c == Saying(e.change)
           code == IF e.error = <<>> THEN <<Phrase>> ELSE e.error
<1>1. /\ IsOne(S, e.error) /\ IsOne(S, e.cause) /\ IsOne(S, e.impacted) /\ IsOne(S, e.vantage)
      /\ IsOne(S, e.change)
  BY FieldsOfEvent
<1>2. Details(e) = [code |-> code, lines |-> a \o e.vantage \o c]
  BY DEF Details
<1>3. a \in Seq(W) /\ c \in Seq(W) /\ e.vantage \in Seq(W)
  BY <1>1, SayingShort, ShortIsSeq, OneFacts
<1> HIDE DEF S, W
<1>4. a \o e.vantage \in Seq(W)
  BY <1>3, ConcatProperties
<1>5. SaidBy(e.error, code)
  BY <1>1, ToldAs, ToldNone
<1>6. SaidBy(e.cause, a) /\ (e.cause = <<>> => SaidBy(e.impacted, a))
  <2>1. CASE e.cause = <<>>
    BY <1>1, <2>1, ToldAs, ToldNone
  <2>2. CASE e.cause # <<>>
    BY <1>1, <2>2, ToldAs
  <2> QED BY <2>1, <2>2
<1>7. SaidBy(e.vantage, e.vantage) /\ SaidBy(e.change, c)
  BY <1>1, ToldAs
<1> HIDE DEF a, c, code
<1>8. \A texts : SaidBy(texts, a) \/ SaidBy(texts, e.vantage) => SaidBy(texts, a \o e.vantage)
  BY <1>3, ToldConcat
<1>9. \A texts : SaidBy(texts, a \o e.vantage) \/ SaidBy(texts, c) => SaidBy(texts, a \o e.vantage \o c)
  BY <1>3, <1>4, ToldConcat
<1>10. Details(e).code = code /\ Details(e).lines = a \o e.vantage \o c
  BY <1>2
<1> QED BY <1>5, <1>6, <1>7, <1>8, <1>9, <1>10, Zenon DEF Tells

\* The words of a release tell its notes and its address.
LEMMA ReleaseTells ==
    ASSUME NEW e, IsEvent(e), e.kind = "release"
    PROVE  Tells(e, e.notes) /\ Tells(e, e.url)
<1> DEFINE S == Said(e)
<1>1. IsOne(S, e.notes) /\ IsOne(S, e.url)
  BY FieldsOfEvent
<1>2. Details(e).lines = e.notes \o e.url
  BY DEF Details
<1>3. e.notes \in Seq(Wholes(S)) /\ e.url \in Seq(Wholes(S))
  BY <1>1, OneFacts
<1>4. SaidBy(e.notes, e.notes) /\ SaidBy(e.url, e.url)
  BY <1>1, ToldAs
<1>5. SaidBy(e.notes, e.notes \o e.url) /\ SaidBy(e.url, e.notes \o e.url)
  BY <1>3, <1>4, ToldConcat
<1> QED BY <1>2, <1>5 DEF Tells

\* The words of a changed certificate tell both fingerprints.
LEMMA CertChangedTells ==
    ASSUME NEW e, IsEvent(e), e.kind = "cert_changed"
    PROVE  Tells(e, e.old) /\ Tells(e, e.new)
<1> DEFINE S == Said(e)
           W == Wholes(S)
           a == Fields(e.old)
           b == Fields(e.new)
           c == <<Phrase>>
<1>1. IsOne(S, e.old) /\ IsOne(S, e.new) /\ e.old # <<>> /\ e.new # <<>>
  <2>1. e.old # <<>> /\ e.new # <<>>
    BY DEF IsEvent, Carries
  <2> QED BY <2>1, FieldsOfEvent
<1>2. Details(e).lines = a \o b \o c
  BY DEF Details
<1>3. a \in Seq(W) /\ b \in Seq(W) /\ c \in Seq(W)
  <2>1. Phrase \in W
    <3>1. "phrase" \in S
      BY DEF Said
    <3> QED BY <3>1, PhraseFacts
  <2>2. c \in Seq(W)
    <3> HIDE DEF W
    <3> QED BY <2>1, SingletonFacts
  <2> QED BY <1>1, <2>2, FieldsShort, ShortIsSeq
<1>4. SaidBy(e.old, a) /\ SaidBy(e.new, b)
  BY <1>1, ToldAs
<1> HIDE DEF S, W, a, b, c
<1>5. a \o b \in Seq(W)
  BY <1>3, ConcatProperties
<1>6. SaidBy(e.old, a \o b) /\ SaidBy(e.new, a \o b)
  BY <1>3, <1>4, ToldConcat
<1>7. SaidBy(e.old, a \o b \o c) /\ SaidBy(e.new, a \o b \o c)
  BY <1>3, <1>5, <1>6, ToldConcat
<1> QED BY <1>2, <1>7 DEF Tells

\* The words of the other kinds tell their detail or their error.
LEMMA OthersTell ==
    ASSUME NEW e, IsEvent(e)
    PROVE  /\ e.kind \in {"alert", "degraded"} => Tells(e, e.detail) /\ Tells(e, NonEmpty(e.detail))
           /\ e.kind \in {"digest", "peer_link_degraded"} => Tells(e, e.detail)
           /\ e.kind = "cert_unreadable" => Tells(e, e.error)
<1> DEFINE S == Said(e)
<1>1. IsOne(S, e.detail) /\ IsOne(S, e.error)
  BY FieldsOfEvent
<1>2. e.kind \in {"alert", "degraded"} => Details(e).lines = NonEmpty(e.detail)
  BY DEF Details
<1>3. e.kind = "digest" => Details(e).lines = e.detail
  BY DEF Details
<1>4. e.kind = "peer_link_degraded" => Details(e).lines = Saying(e.detail)
  BY DEF Details
<1>5. e.kind = "cert_unreadable" => Details(e).code = e.error
  BY DEF Details
<1> QED BY <1>1, <1>2, <1>3, <1>4, <1>5, ToldAs DEF Tells

\* Every field is told, and an event of one kind has no field of another's.
LEMMA FieldsAreTold ==
    ASSUME NEW e, IsEvent(e)
    PROVE  LET p == Payload(e)
           IN /\ Tells(e, p.message) /\ Tells(e, p.cause) /\ Tells(e, p.vantage)
              /\ Tells(e, p.change) /\ Tells(e, p.url) /\ Tells(e, p.witness)
              /\ Tells(e, p.old_fingerprint) /\ Tells(e, p.new_fingerprint)
              /\ p.cause = <<>> => Tells(e, p.impacted)
              /\ p.title = e.about
<1> DEFINE p == Payload(e)
<1>1. /\ p.cause = e.cause /\ p.impacted = e.impacted /\ p.vantage = e.vantage
      /\ p.change = e.change /\ p.url = e.url /\ p.title = e.about
      /\ p.old_fingerprint = e.old /\ p.new_fingerprint = e.new
      /\ p.witness = IF e.kind = "peer_link_degraded" THEN e.detail ELSE <<>>
  BY DEF Payload
<1>2. /\ e.kind \in {"down", "cert_unreadable"} => p.message = e.error
      /\ e.kind \in {"degraded", "digest"} => p.message = e.detail
      /\ e.kind = "alert" => p.message = NonEmpty(e.detail)
      /\ e.kind = "release" => p.message = e.notes
      /\ e.kind \notin {"down", "cert_unreadable", "degraded", "digest", "alert", "release"}
            => p.message = <<>>
  BY DEF Payload
<1> HIDE DEF p
<1>3. e.kind \in EventKinds
  BY DEF IsEvent
<1>4. Tells(e, <<>>)
  BY ToldNone DEF Tells
<1>5. /\ e.kind # "down" => e.cause = <<>> /\ e.impacted = <<>> /\ e.vantage = <<>> /\ e.change = <<>>
      /\ e.kind # "release" => e.url = <<>>
      /\ e.kind # "cert_changed" => e.old = <<>> /\ e.new = <<>>
  <2>1. \A field \in OptionalTexts : field \notin Carries[e.kind] => e[field] = <<>>
    BY DEF IsEvent
  <2>2. \A kind \in EventKinds :
           /\ kind # "down" => /\ "cause" \notin Carries[kind] /\ "impacted" \notin Carries[kind]
                               /\ "vantage" \notin Carries[kind] /\ "change" \notin Carries[kind]
           /\ kind # "release" => "url" \notin Carries[kind]
           /\ kind # "cert_changed" => "old" \notin Carries[kind] /\ "new" \notin Carries[kind]
    BY DEF EventKinds, Carries
  <2> QED BY <1>3, <2>1, <2>2 DEF OptionalTexts
<1>6. Tells(e, p.message)
  <2>1. CASE e.kind = "down"
    BY <1>2, <2>1, DownTells
  <2>2. CASE e.kind = "release"
    BY <1>2, <2>2, ReleaseTells
  <2>3. CASE e.kind \in {"degraded", "digest", "cert_unreadable", "alert"}
    BY <1>2, <2>3, OthersTell
  <2>4. CASE e.kind \notin {"down", "cert_unreadable", "degraded", "digest", "alert", "release"}
    BY <1>2, <1>4, <2>4
  <2> QED BY <2>1, <2>2, <2>3, <2>4
<1>7. /\ Tells(e, e.cause) /\ Tells(e, e.vantage) /\ Tells(e, e.change)
      /\ e.cause = <<>> => Tells(e, e.impacted)
  BY <1>4, <1>5, DownTells, Zenon
<1>8. Tells(e, e.url) /\ Tells(e, e.old) /\ Tells(e, e.new)
  BY <1>4, <1>5, ReleaseTells, CertChangedTells, Zenon
<1>9. Tells(e, p.witness)
  BY <1>1, <1>4, OthersTell
<1> QED BY <1>1, <1>6, <1>7, <1>8, <1>9 DEF p

\* Whatever the event, its words tell what the webhook's payload carries.
LEMMA SaysWhatThePayloadSaysHolds ==
    ASSUME NEW e, IsEvent(e)
    PROVE  SaysWhatThePayloadSays(e)
<1> DEFINE S == Said(e)
           W == Wholes(S)
           p == Payload(e)
           message == Render(e)
           head == <<message.subject, message.rest>>
           said == head \o message.code \o message.lines
<1>1. IsMessage(S, message)
  BY RenderFacts
<1>2. message.code = Details(e).code /\ message.lines = Details(e).lines
      /\ message.rest = IF e.about = <<>> THEN Phrase ELSE Saying(e.about)[1]
  BY DEF Render
<1>3. head \in Seq(W) /\ message.code \in Seq(W) /\ message.lines \in Seq(W)
  <2>1. message.subject \in W /\ message.rest \in W
    BY <1>1 DEF IsMessage
  <2>2. head \in Seq(W)
    <3> HIDE DEF W, message
    <3> QED BY <2>1
  <2>3. message.code \in Seq(W) /\ message.lines \in Seq(W)
    BY <1>1, OneFacts DEF IsMessage, Short
  <2> QED BY <2>2, <2>3
<1>4. SaidBy(e.about, head)
  <2>1. IsOne(S, e.about)
    BY FieldsOfEvent
  <2>2. CASE e.about = <<>>
    BY <2>2, ToldNone
  <2>3. CASE e.about # <<>>
    <3>1. SaidBy(e.about, <<message.rest>>)
      BY <1>2, <2>1, <2>3, ToldAs
    <3>2. head = <<message.subject>> \o <<message.rest>>
      OBVIOUS
    <3>3. <<message.subject>> \in Seq(W) /\ <<message.rest>> \in Seq(W)
      <4>1. message.subject \in W /\ message.rest \in W
        BY <1>1 DEF IsMessage
      <4> HIDE DEF W, message
      <4> QED BY <4>1, SingletonFacts
    <3> HIDE DEF W, message
    <3>4. SaidBy(e.about, <<message.subject>> \o <<message.rest>>)
      BY <3>1, <3>3, ToldConcat
    <3> QED BY <3>2, <3>4
  <2> QED BY <2>2, <2>3
<1> HIDE DEF S, W, message, head
<1>5. head \o message.code \in Seq(W)
  BY <1>3, ConcatProperties
<1>6. \A texts : SaidBy(texts, head) \/ SaidBy(texts, message.code) => SaidBy(texts, head \o message.code)
  BY <1>3, ToldConcat
<1>7. \A texts : SaidBy(texts, head \o message.code) \/ SaidBy(texts, message.lines) => SaidBy(texts, said)
  BY <1>3, <1>5, ToldConcat
<1> HIDE DEF said
<1>8. \A texts : Tells(e, texts) => SaidBy(texts, said)
  BY <1>2, <1>6, <1>7, Zenon DEF Tells
<1>9. /\ \A texts \in {p.message, p.cause, p.vantage, p.change, p.url, p.title, p.witness,
                       p.old_fingerprint, p.new_fingerprint} : SaidBy(texts, said)
      /\ p.cause = <<>> => SaidBy(p.impacted, said)
  <2>1. /\ Tells(e, p.message) /\ Tells(e, p.cause) /\ Tells(e, p.vantage)
        /\ Tells(e, p.change) /\ Tells(e, p.url) /\ Tells(e, p.witness)
        /\ Tells(e, p.old_fingerprint) /\ Tells(e, p.new_fingerprint)
        /\ p.cause = <<>> => Tells(e, p.impacted)
        /\ p.title = e.about
    BY FieldsAreTold
  <2>2. SaidBy(p.title, said)
    BY <1>4, <1>6, <1>7, <2>1
  <2> HIDE DEF p
  <2> QED BY <1>8, <2>1, <2>2
<1>10. ASSUME NEW i \in DOMAIN e.left
       PROVE  /\ ExpiryPhrase(e.left[i])[1] = "expired" <=> e.left[i] <= 0
              /\ p.days_left[i] > 0 <=> ExpiryPhrase(e.left[i])[1] = "days"
              /\ p.days_left[i] > 0 => p.days_left[i] = ExpiryPhrase(e.left[i])[2]
  <2>1. e.left[i] \in Int
    <3>1. e.left = <<e.left[1]>> /\ e.left[1] \in Int
      BY <1>10 DEF IsEvent
    <3>2. i = 1
      BY <1>10, <3>1
    <3> QED BY <3>1, <3>2
  <2>2. p.days_left[i] = IF e.left[i] < 0 THEN -((-e.left[i]) \div DAY) ELSE e.left[i] \div DAY
    BY <1>10 DEF Payload
  <2> HIDE DEF p
  <2> QED BY <2>1, <2>2, DaysAreDays
<1>11. said = <<message.subject, message.rest>> \o message.code \o message.lines
  BY DEF said, head
<1> HIDE DEF p
<1>12. /\ \A texts \in {p.message, p.cause, p.vantage, p.change, p.url, p.title, p.witness,
                       p.old_fingerprint, p.new_fingerprint} :
             \A i \in DOMAIN texts : IsEmpty(texts[i]) \/ \E j \in DOMAIN said :
                said[j].of = texts[i].of /\ said[j].length >= texts[i].length
       /\ p.cause = <<>> =>
             \A i \in DOMAIN p.impacted : IsEmpty(p.impacted[i]) \/ \E j \in DOMAIN said :
                said[j].of = p.impacted[i].of /\ said[j].length >= p.impacted[i].length
  BY <1>9, Zenon DEF SaidBy
<1> QED
  <2> DEFINE Says(texts) ==
                \A i \in DOMAIN texts : IsEmpty(texts[i]) \/ \E j \in DOMAIN said :
                   said[j].of = texts[i].of /\ said[j].length >= texts[i].length
             Days ==
                \A i \in DOMAIN e.left :
                   LET seconds == e.left[i]
                       days == p.days_left[i]
                   IN /\ ExpiryPhrase(seconds)[1] = "expired" <=> seconds <= 0
                      /\ days > 0 <=> ExpiryPhrase(seconds)[1] = "days"
                      /\ days > 0 => days = ExpiryPhrase(seconds)[2]
             Every == \A texts \in {p.message, p.cause, p.vantage, p.change, p.url, p.title, p.witness,
                                    p.old_fingerprint, p.new_fingerprint} : Says(texts)
  <2>1. Every /\ (p.cause = <<>> => Says(p.impacted))
    BY <1>12
  <2>2. Days
    BY <1>10
  <2>3. (Every /\ (p.cause = <<>> => Says(p.impacted)) /\ Days) => SaysWhatThePayloadSays(e)
    BY Zenon DEF SaysWhatThePayloadSays, p, message, said, head
  <2> QED BY <2>1, <2>2, <2>3

\* A notification leaves within the limits of its channel with the beginning of
\* everything its event says, rings by how urgent that is, and is reported
\* delivered only once the service has it, for any notices, any length of phrase
\* and any number of attempts (Message::fit, send_retrying).
THEOREM NoticesArriveWholeHolds == DeliveriesSpec => []NoticesArriveWhole
<1>1. DeliveryInv => NoticesArriveWhole
  <2> SUFFICES ASSUME DeliveryInv, channel # NoChannel
               PROVE  LET event == notice.event
                          shown == Shown(Backend, event)
                      IN /\ FitsTheChannel(Backend, shown)
                         /\ ShowsTheBeginning(Backend, shown, Render(event))
                         /\ SaysWhatThePayloadSays(event)
                         /\ RingsByUrgency(Backend, event)
                         /\ ReportedIsStored
    BY DEF NoticesArriveWhole
  <2> DEFINE event == notice.event
  <2>1. channel \in DOMAIN Backends /\ IsEvent(event)
    BY DeliveriesAssumption DEF DeliveryInv, DeliveryTypeOK
  <2>2. Backend = Backends[channel] /\ IsChannel(Backend)
    BY <2>1, EveryBackendIsAChannel DEF Backend
  <2>3. IsMessage(Said(event), Render(event))
    BY <2>1, RenderFacts
  <2>4. FitsTheChannel(Backend, Shown(Backend, event))
    BY <2>2, <2>3, FitsTheChannelHolds DEF Shown
  <2>5. ShowsTheBeginning(Backend, Shown(Backend, event), Render(event))
    BY <2>2, <2>3, ShowsTheBeginningHolds DEF Shown
  <2>6. SaysWhatThePayloadSays(event)
    BY <2>1, SaysWhatThePayloadSaysHolds
  <2>7. RingsByUrgency(Backend, event)
    BY <2>1, <2>2, RingsByUrgencyHolds
  <2>8. ReportedIsStored
    BY DeliveryInvSuffices
  <2> QED BY <2>4, <2>5, <2>6, <2>7, <2>8
<1> QED BY <1>1, DeliveryInvHolds, PTL

---------------------------------------------------------------------------
(* The configuration: an accepted file means what it says *)

ConfigSpec == ConfigInit /\ [][ConfigNext]_configVars

\* What a table comes to before its rules are checked.
RawOf(f, i) == Lowered(Read(f.monitors[i]))

\* Settings that only some kinds understand.
OwnOnes == UNION {OwnSettings[k] : k \in DOMAIN OwnSettings}

\* A table as its rules see it.
IsRaw(raw) ==
    /\ DOMAIN raw = Settings
    /\ raw.kind \in {"http", "tcp", "icmp", "dns", "push", "exec"}
    /\ raw.slo_uptime \subseteq Int /\ raw.dual_stack \in BOOLEAN

\* The defaults the rules compare with, and the settings there are.
LEMMA DefaultsAre ==
    /\ RawMonitor.command = <<>> /\ RawMonitor.target = NoTarget
    /\ \A f \in {"keyword", "json_query", "number_regex", "proxy", "dns_record", "dns_expected",
                 "dns_resolver", "number_min", "number_max", "ehlo_name", "starttls", "schedule",
                 "grace_secs", "headers", "expected_status", "max_body_kb", "json_expected"} :
          f \in Settings /\ RawMonitor[f] = {}
    /\ RawMonitor.keyword_invert = FALSE /\ RawMonitor.dual_stack = FALSE
    /\ RawMonitor.kind = "http" /\ RawMonitor.slo_uptime = {}
    /\ {"kind", "slo_uptime", "cert_pin", "domain_expiry", "command", "target",
        "keyword_invert", "dual_stack", "kind", "slo_uptime"} \subseteq Settings
  BY DEF RawMonitor, Settings

\* Which settings each kind of monitor understands.
LEMMA OwnAre ==
    /\ DOMAIN OwnSettings = {"http", "tcp", "icmp", "dns", "push", "exec"}
    /\ OwnSettings["http"] =
          {"target", "expected_status", "headers", "keyword", "keyword_invert", "json_query",
           "json_expected", "number_regex", "number_min", "number_max", "max_body_kb",
           "proxy", "dual_stack"}
    /\ OwnSettings["tcp"] = {"target", "starttls", "ehlo_name", "dual_stack"}
    /\ OwnSettings["icmp"] = {"target", "dual_stack"}
    /\ OwnSettings["dns"] = {"target", "dns_record", "dns_expected", "dns_resolver"}
    /\ OwnSettings["push"] = {"schedule", "grace_secs"}
    /\ OwnSettings["exec"] = {"command"}
  BY DEF OwnSettings

\* The settings that belong to some kinds only.
LEMMA OwnOnesAre ==
    OwnOnes = {"target", "expected_status", "headers", "keyword", "keyword_invert", "json_query",
               "json_expected", "number_regex", "number_min", "number_max", "max_body_kb",
               "proxy", "dual_stack", "starttls", "ehlo_name", "dns_record", "dns_expected",
               "dns_resolver", "schedule", "grace_secs", "command"}
  BY OwnAre DEF OwnOnes

\* A table of the file, with its defaults filled in and its names lowered, has every
\* setting there is.
LEMMA TablesAreRead ==
    ASSUME NEW f \in ConfigFiles, NEW i \in DOMAIN f.monitors
    PROVE  IsRaw(RawOf(f, i))
<1> DEFINE table == f.monitors[i]
           raw == Read(table)
<1>1. IsTable(table)
  BY ConfigAssumption
<1>2. /\ DOMAIN raw = Settings
      /\ raw.kind \in DOMAIN OwnSettings /\ raw.slo_uptime \subseteq Int
      /\ raw.dual_stack \in BOOLEAN
  BY <1>1, DefaultsAre, OwnAre DEF IsTable, Read
<1>3. /\ DOMAIN RawOf(f, i) = Settings /\ RawOf(f, i).kind = raw.kind
      /\ RawOf(f, i).slo_uptime = raw.slo_uptime
      /\ RawOf(f, i).dual_stack = raw.dual_stack
  <2> HIDE DEF raw
  <2>1. RawOf(f, i) = Lowered(raw)
    BY DEF RawOf, raw
  <2> QED BY <1>2, <2>1, DefaultsAre DEF Lowered
<1> QED BY <1>2, <1>3, OwnAre DEF IsRaw

\* What a table set and its monitor does not hold.
Dropped(raw) == Set(raw, Settings) \ HeldOf(raw, Monitor(raw))

\* A monitor does not hold what its table set when that is another kind's, or hangs on
\* a setting its kind left out.
LEMMA DroppedIs ==
    ASSUME NEW raw, IsRaw(raw)
    PROVE  Dropped(raw) = {f \in OwnOnes :
                              /\ raw[f] # RawMonitor[f]
                              /\ f \notin OwnSettings[raw.kind] \/ Hangs(raw, f)}
<1> DEFINE m == Monitor(raw)
<1>1. /\ \A f \in SharedSettings : f # "slo_uptime" => m.shared[f] = raw[f]
      /\ DOMAIN m.spec = OwnSettings[raw.kind]
      /\ \A f \in DOMAIN m.spec : m.spec[f] = IF Hangs(raw, f) THEN RawMonitor[f] ELSE raw[f]
  BY DEF Monitor, SpecOf
<1>2. OwnSettings[raw.kind] \subseteq OwnOnes
  BY OwnAre DEF OwnOnes, IsRaw
<1>3. OwnOnes \subseteq Settings /\ SharedSettings = Settings \ OwnOnes
  <2>1. OwnOnes \subseteq Settings
    BY OwnOnesAre, DefaultsAre
  <2> QED BY <2>1 DEF SharedSettings, OwnOnes
<1> HIDE DEF m
<1>4. \A f : f \in HeldOf(raw, m) <=>
          \/ f \in SharedSettings
          \/ f \in OwnSettings[raw.kind] /\ (Hangs(raw, f) => RawMonitor[f] = raw[f])
  BY <1>1 DEF HeldOf
<1>5. \A f : f \in Set(raw, Settings) <=> f \in Settings /\ raw[f] # RawMonitor[f]
  BY DEF Set
<1>6. Dropped(raw) = Set(raw, Settings) \ HeldOf(raw, m)
  BY DEF Dropped, m
<1> HIDE DEF SharedSettings
<1> QED BY <1>2, <1>3, <1>4, <1>5, <1>6

\* What the rules leave to drop in silence is the target of a push monitor.
LEMMA DroppedIsSaid ==
    ASSUME NEW raw, IsRaw(raw), TableFits(raw)
    PROVE  Dropped(raw) \ (IF raw.kind = "push" THEN {"target"} ELSE {}) = WarnIgnored(raw)
<1>1. /\ raw.kind = "exec" => raw.target = NoTarget
      /\ raw.kind # "exec" => raw.command = <<>>
      /\ raw.kind # "http" => /\ raw.keyword = {} /\ raw.json_query = {} /\ raw.number_regex = {}
                              /\ raw.proxy = {}
      /\ raw.kind # "dns" => /\ raw.dns_record = {} /\ raw.dns_expected = {}
                             /\ raw.dns_resolver = {}
      /\ raw.number_regex = {} => raw.number_min = {} /\ raw.number_max = {}
  <2>1. raw.kind = "exec" => raw.target = NoTarget
    BY DEF TableFits, TargetFits, CommandFits
  <2>2. BelongsToKind(raw) /\ BodyAssertionsFit(raw)
    BY DEF TableFits
  <2> QED BY <2>1, <2>2, DefaultsAre DEF BelongsToKind, BodyAssertionsFit, Set
<1>2. /\ raw.starttls # {"smtp"} => raw.ehlo_name = {}
      /\ raw.kind # "tcp" => raw.starttls = {}
      /\ raw.kind # "push" => raw.schedule = {}
      /\ raw.schedule = {} => raw.grace_secs = {}
      /\ raw.kind \notin {"http", "tcp", "icmp"} => ~raw.dual_stack
  BY DEF TableFits, StarttlsFits, ScheduleAndSloFit, DualStackFits
<1> DEFINE k == raw.kind
           told == (IF k # "http" THEN IgnoredOffHttp ELSE {})
                      \cup (IF raw.keyword = {} THEN {"keyword_invert"} ELSE {})
                      \cup (IF raw.json_query = {} THEN {"json_expected"} ELSE {})
           lost(f) == /\ f \in OwnOnes /\ raw[f] # RawMonitor[f]
                      /\ f \notin OwnSettings[k] \/ Hangs(raw, f)
                      /\ ~(k = "push" /\ f = "target")
<1>3. k \in {"http", "tcp", "icmp", "dns", "push", "exec"} /\ raw.dual_stack \in BOOLEAN
  BY DEF IsRaw
<1>4. ASSUME NEW f \in OwnOnes, raw[f] # RawMonitor[f], f \notin told
      PROVE  ~lost(f)
  <2>1. told = (IF k # "http" THEN {"expected_status", "headers", "max_body_kb"} ELSE {})
                      \cup (IF raw.keyword = {} THEN {"keyword_invert"} ELSE {})
                      \cup (IF raw.json_query = {} THEN {"json_expected"} ELSE {})
    BY DEF IgnoredOffHttp
  <2> HIDE DEF told
  <2>2. CASE f \in {"expected_status", "headers", "max_body_kb"}
    BY <1>3, <1>4, <2>1, <2>2, OwnAre DEF Hangs
  <2>3. CASE f \in {"keyword", "json_query", "number_regex", "proxy"}
    <3>1. CASE f \in {"keyword", "json_query"}
      BY <1>1, <1>3, <1>4, <3>1, OwnAre, DefaultsAre DEF Hangs
    <3>2. CASE f \in {"number_regex", "proxy"}
      BY <1>1, <1>3, <1>4, <3>2, OwnAre, DefaultsAre DEF Hangs
    <3> QED BY <2>3, <3>1, <3>2
  <2>4. CASE f \in {"keyword_invert", "json_expected"}
    BY <1>1, <1>3, <1>4, <2>1, <2>4, OwnAre DEF Hangs
  <2>5. CASE f \in {"number_min", "number_max"}
    BY <1>1, <1>3, <1>4, <2>5, OwnAre, DefaultsAre DEF Hangs
  <2>6. CASE f \in {"dns_record", "dns_expected", "dns_resolver"}
    <3>1. CASE f = "dns_record"
      BY <1>1, <1>3, <1>4, <3>1, OwnAre, DefaultsAre DEF Hangs
    <3>2. CASE f = "dns_expected"
      BY <1>1, <1>3, <1>4, <3>2, OwnAre, DefaultsAre DEF Hangs
    <3>3. CASE f = "dns_resolver"
      BY <1>1, <1>3, <1>4, <3>3, OwnAre, DefaultsAre DEF Hangs
    <3> QED BY <2>6, <3>1, <3>2, <3>3
  <2>7. CASE f \in {"starttls", "ehlo_name", "schedule", "grace_secs"}
    BY <1>2, <1>3, <1>4, <2>7, OwnAre, DefaultsAre DEF Hangs
  <2>8. CASE f \in {"target", "command", "dual_stack"}
    BY <1>1, <1>2, <1>3, <1>4, <2>8, OwnAre, DefaultsAre DEF Hangs
  <2> QED BY <2>2, <2>3, <2>4, <2>5, <2>6, <2>7, <2>8, OwnOnesAre
<1>5. ASSUME NEW f \in told, raw[f] # RawMonitor[f]
      PROVE  lost(f)
  <2>1. CASE k # "http" /\ f \in {"expected_status", "headers", "max_body_kb"}
    BY <1>3, <1>5, <2>1, OwnAre, OwnOnesAre DEF Hangs
  <2>2. CASE raw.keyword = {} /\ f = "keyword_invert"
    BY <1>3, <1>5, <2>2, OwnAre, OwnOnesAre DEF Hangs
  <2>3. CASE raw.json_query = {} /\ f = "json_expected"
    BY <1>3, <1>5, <2>3, OwnAre, OwnOnesAre DEF Hangs
  <2> QED BY <1>5, <2>1, <2>2, <2>3 DEF IgnoredOffHttp
<1>6. WarnIgnored(raw) = {f \in told : raw[f] # RawMonitor[f]}
  BY DEF WarnIgnored, Set
<1>7. \A f : f \in Dropped(raw) \ (IF k = "push" THEN {"target"} ELSE {}) <=> lost(f)
  <2>1. \A f : f \in Dropped(raw) <=>
          (/\ f \in OwnOnes /\ raw[f] # RawMonitor[f]
           /\ (f \notin OwnSettings[k] \/ Hangs(raw, f)))
    <3>1. Dropped(raw) = {f \in OwnOnes :
                              /\ raw[f] # RawMonitor[f]
                              /\ f \notin OwnSettings[raw.kind] \/ Hangs(raw, f)}
      BY DroppedIs
    <3> HIDE DEF Hangs
    <3> QED BY <3>1
  <2>2. \A f : f \in (IF k = "push" THEN {"target"} ELSE {}) <=> k = "push" /\ f = "target"
    OBVIOUS
  <2> DEFINE D == Dropped(raw)
             E == IF k = "push" THEN {"target"} ELSE {}
  <2>3. \A f : f \in D \ E <=> f \in D /\ ~(f \in E)
    OBVIOUS
  <2> QED BY <2>1, <2>2, <2>3, Zenon
<1> HIDE DEF told
<1> QED BY <1>4, <1>5, <1>6, <1>7

\* A table that passes its rules is built.
LEMMA FitIsBuilt ==
    ASSUME NEW raw, IsRaw(raw), TableFits(raw)
    PROVE  SpecIsCompiled(raw)
<1>1. /\ BodyAssertionsFit(raw) /\ TargetFits(raw) /\ StarttlsFits(raw)
      /\ ScheduleAndSloFit(raw)
  BY DEF TableFits
<1>2. raw.kind \in {"http", "tcp", "icmp", "dns", "push", "exec"}
  BY DEF IsRaw
<1>3. CASE raw.kind = "http"
  BY <1>1, <1>3 DEF SpecIsCompiled, BodyAssertionsFit, TargetFits, IsHttpUrl
<1>4. CASE raw.kind = "tcp"
  BY <1>1, <1>4 DEF SpecIsCompiled, StarttlsFits, OnlyIn
<1>5. CASE raw.kind = "icmp"
  BY <1>5 DEF SpecIsCompiled
<1>6. CASE raw.kind = "dns"
  BY <1>1, <1>6 DEF SpecIsCompiled, TargetFits, DnsFits
<1>7. CASE raw.kind = "push"
  BY <1>1, <1>7 DEF SpecIsCompiled, ScheduleAndSloFit, Parses, OnlyIn
<1>8. CASE raw.kind = "exec"
  BY <1>1, <1>8 DEF SpecIsCompiled, TargetFits, CommandFits
<1> QED BY <1>2, <1>3, <1>4, <1>5, <1>6, <1>7, <1>8

\* What the loading holds at every step: each table read so far passed its rules,
\* its monitor and its warnings are what it comes to, and an accepted file fits.
Loaded ==
    /\ typed \in Seq({Monitor(RawOf(file, i)) : i \in DOMAIN file.monitors})
    /\ ignored \in Seq(SUBSET Settings)
    /\ Len(typed) <= Len(file.monitors) /\ Len(ignored) = Len(typed)
    /\ \A i \in DOMAIN typed :
          /\ typed[i] = Monitor(RawOf(file, i)) /\ TableFits(RawOf(file, i))
          /\ ignored[i] = WarnIgnored(RawOf(file, i))
ConfigInv ==
    /\ file \in ConfigFiles /\ Loaded
    /\ loading = "accepted" => FileFits

\* The rules of the file are about the file and the monitors made of its tables.
LEMMA FitsOfTheFile == ASSUME UNCHANGED <<file, typed>> PROVE FileFits' = FileFits
<1>1. file' = file /\ typed' = typed
  OBVIOUS
<1>2. TokensFit' = TokensFit /\ ChannelsFit' = ChannelsFit /\ MaintenanceFits' = MaintenanceFits
  BY <1>1 DEF TokensFit, ChannelsFit, MaintenanceFits
<1>3. MonitorIds' = MonitorIds /\ WatchedPeers' = WatchedPeers
  BY <1>1 DEF MonitorIds, WatchedPeers
<1>4. \A routes : RoutesFit(routes)' = RoutesFit(routes)
  BY <1>1 DEF RoutesFit
<1>5. \A m : MonitorFits(m)' = MonitorFits(m)
  BY <1>1 DEF MonitorFits, RoutesFit
<1>6. ListenIdsFit' = ListenIdsFit
  BY <1>1, <1>3 DEF ListenIdsFit, MayListen
<1>7. PeersFit' = PeersFit
  BY <1>1, <1>4, <1>6 DEF PeersFit, RoutesFit
<1>8. ConfirmFits' = ConfirmFits /\ ExecFits' = ExecFits /\ DigestFits' = DigestFits
  BY <1>1 DEF ConfirmFits, ExecFits, DigestFits, HealthConfirms, RoutesFit
<1> QED BY <1>1, <1>2, <1>3, <1>5, <1>7, <1>8 DEF FileFits, MonitorFits, RoutesFit

\* The loading keeps its invariant, table by table, until the file is accepted or
\* refused.
LEMMA ConfigInvHolds == ConfigSpec => []ConfigInv
<1>1. ConfigInit => ConfigInv
  <2> SUFFICES ASSUME ConfigInit PROVE ConfigInv
    OBVIOUS
  <2>1. file \in ConfigFiles /\ loading = "tables" /\ typed = <<>> /\ ignored = <<>>
    BY DEF ConfigInit, Unread
  <2>2. Len(file.monitors) \in Nat
    BY <2>1, ConfigAssumption
  <2> QED BY <2>1, <2>2 DEF ConfigInv, Loaded
<1>2. ConfigInv /\ [ConfigNext]_configVars => ConfigInv'
  <2> SUFFICES ASSUME ConfigInv, [ConfigNext]_configVars PROVE ConfigInv'
    OBVIOUS
  <2> DEFINE M == {Monitor(RawOf(file, i)) : i \in DOMAIN file.monitors}
             n == Len(typed)
             top == Len(file.monitors)
             raw == RawOf(file, n + 1)
  <2>1. /\ typed \in Seq(M) /\ ignored \in Seq(SUBSET Settings)
        /\ n <= top /\ Len(ignored) = n /\ file \in ConfigFiles
        /\ \A i \in 1..n : /\ typed[i] = Monitor(RawOf(file, i)) /\ TableFits(RawOf(file, i))
                           /\ ignored[i] = WarnIgnored(RawOf(file, i))
    BY LenProperties DEF ConfigInv, Loaded
  <2>2. top \in Nat /\ n \in Nat /\ DOMAIN file.monitors = 1..top
    BY <2>1, ConfigAssumption, LenProperties
  <2>3. CASE ReadTable /\ UNCHANGED <<typed, ignored>>
    <3>1. loading' # "accepted" /\ UNCHANGED file
      BY <2>3 DEF ReadTable, ConfigInv
    <3> QED BY <2>3, <3>1 DEF ConfigInv, Loaded
  <2>4. CASE ReadTable /\ typed' = Append(typed, Monitor(raw)) /\ TableFits(raw)
                       /\ ignored' = Append(ignored, WarnIgnored(raw)) /\ UNCHANGED loading
    <3>1. loading = "tables" /\ n < top /\ UNCHANGED file
      BY <2>4 DEF ReadTable
    <3>2. n + 1 \in DOMAIN file.monitors
      BY <2>2, <3>1
    <3>3. Monitor(raw) \in M /\ WarnIgnored(raw) \in SUBSET Settings
      <4>1. Monitor(raw) \in M
        BY <3>2
      <4>2. \A f \in WarnIgnored(raw) : f \in Settings
        BY DefaultsAre, DroppedIsSaid DEF WarnIgnored, Set, IgnoredOffHttp
      <4> QED BY <4>1, <4>2
    <3> HIDE DEF M, raw
    <3>4. /\ typed' \in Seq(M) /\ Len(typed') = n + 1
          /\ \A i \in 1..n : typed'[i] = typed[i]
          /\ typed'[n + 1] = Monitor(raw)
      BY <2>1, <2>4, <3>3, AppendProperties
    <3>5. /\ ignored' \in Seq(SUBSET Settings) /\ Len(ignored') = n + 1
          /\ \A i \in 1..n : ignored'[i] = ignored[i]
          /\ ignored'[n + 1] = WarnIgnored(raw)
      BY <2>1, <2>4, <3>3, AppendProperties
    <3>6. DOMAIN typed' = 1..(n + 1)
      BY <3>4, LenProperties
    <3>7. ASSUME NEW i \in 1..(n + 1)
          PROVE  /\ typed'[i] = Monitor(RawOf(file, i)) /\ TableFits(RawOf(file, i))
                 /\ ignored'[i] = WarnIgnored(RawOf(file, i))
      <4>1. CASE i \in 1..n
        BY <2>1, <3>4, <3>5, <4>1
      <4>2. CASE i = n + 1
        BY <2>4, <3>4, <3>5, <4>2 DEF raw
      <4> QED BY <2>2, <4>1, <4>2
    <3>8. /\ typed' \in Seq({Monitor(RawOf(file, i)) : i \in DOMAIN file.monitors})
          /\ n + 1 <= top
      BY <2>2, <3>1, <3>4 DEF M
    <3> QED BY <2>1, <2>4, <3>1, <3>4, <3>5, <3>6, <3>7, <3>8 DEF ConfigInv, Loaded, RawOf
  <2>0. ASSUME UNCHANGED <<file, typed, ignored>>
        PROVE  Loaded' /\ FileFits' = FileFits
    <3>1. Loaded'
      BY <2>0 DEF ConfigInv, Loaded, RawOf
    <3>2. FileFits' = FileFits
      BY <2>0, FitsOfTheFile
    <3> QED BY <3>1, <3>2
  <2>5. CASE ReadFile
    BY <2>0, <2>5 DEF ReadFile, ConfigInv
  <2>6. CASE UNCHANGED configVars
    BY <2>0, <2>6 DEF configVars, ConfigInv
  <2>7. ReadTable => \/ UNCHANGED <<typed, ignored>>
                     \/ /\ typed' = Append(typed, Monitor(raw)) /\ TableFits(raw)
                        /\ ignored' = Append(ignored, WarnIgnored(raw)) /\ UNCHANGED loading
    BY DEF ReadTable, RawOf
  <2> QED BY <2>3, <2>4, <2>5, <2>6, <2>7 DEF ConfigNext
<1> QED BY <1>1, <1>2, PTL DEF ConfigSpec

\* An objective in basis points is strictly between none and all.
LEMMA BasisPointsInside ==
    ASSUME NEW p \in Int
    PROVE  0 < BasisPoints(p) /\ BasisPoints(p) < 10000
<1>1. (p + 5) \div 10 \in Int
  OBVIOUS
<1> QED BY <1>1 DEF BasisPoints

\* What an accepted file promises.
LEMMA FitHoldsTogether ==
    ASSUME file \in ConfigFiles, Loaded, FileFits
    PROVE  AcceptedHoldsTogether
<1>1. /\ \A m \in Each(typed) : MonitorFits(m)
      /\ Distinct(MonitorIds) /\ PeersFit /\ ConfirmFits /\ NotEmpty(file.auth_token)
  BY DEF FileFits, TokensFit
<1>2. DOMAIN MonitorIds = DOMAIN typed /\ \A i \in DOMAIN typed : MonitorIds[i] = typed[i].shared.id
  BY DEF MonitorIds
<1>3. \A i, j \in DOMAIN typed : i # j => typed[i].shared.id # typed[j].shared.id
  BY <1>1, <1>2 DEF Distinct
<1>4. \A peer \in WatchedPeers, i \in DOMAIN typed : ListenId(peer) # typed[i].shared.id
  BY <1>1, <1>2 DEF PeersFit, ListenIdsFit, MayListen, Each
<1>5. \A i, j \in DOMAIN file.peers :
          i # j /\ file.peers[i] \in WatchedPeers /\ file.peers[j] \in WatchedPeers
          => ListenId(file.peers[i]) # ListenId(file.peers[j])
  BY <1>1 DEF PeersFit, ListenIdsFit
<1>6. ASSUME NEW i \in DOMAIN typed PROVE RowOwners(typed[i].shared.id) = {i}
  BY <1>3, <1>4 DEF RowOwners
<1>7. ASSUME NEW peer \in WatchedPeers PROVE PushOwners(ListenId(peer)) = {peer}
  <2>1. \A m \in Each(typed) : m.shared.id # ListenId(peer)
    BY <1>4 DEF Each
  <2>2. ASSUME NEW other \in WatchedPeers, ListenId(other) = ListenId(peer)
        PROVE  other = peer
    <3>1. PICK i \in DOMAIN file.peers : file.peers[i] = peer
      BY DEF WatchedPeers, Each
    <3>2. PICK j \in DOMAIN file.peers : file.peers[j] = other
      BY DEF WatchedPeers, Each
    <3> QED BY <1>5, <2>2, <3>1, <3>2
  <2> QED BY <2>1, <2>2 DEF PushOwners
<1>8. ASSUME NEW m \in Each(typed), ConfirmEnabled(m)
      PROVE  \E peer \in Each(file.peers) : HasProbeUrl(peer)
  BY <1>1, <1>8 DEF ConfirmEnabled, ConfirmFits
<1>9. ASSUME NEW m \in Each(typed)
      PROVE  m.shared.public \/ \E token \in file.auth_token : token # NoText
  BY <1>1 DEF MonitorFits, NotEmpty
<1>10. ASSUME NEW m \in Each(typed), NEW bp \in m.shared.slo_uptime
       PROVE  0 < bp /\ bp < 10000
  <2>3. PICK i \in DOMAIN typed : m = typed[i]
    BY DEF Each
  <2>4. i \in DOMAIN file.monitors /\ m = Monitor(RawOf(file, i))
    <3>1. DOMAIN typed = 1..Len(typed) /\ Len(typed) \in Nat
      BY LenProperties DEF Loaded
    <3>2. DOMAIN file.monitors = 1..Len(file.monitors) /\ Len(file.monitors) \in Nat
      BY ConfigAssumption
    <3> QED BY <2>3, <3>1, <3>2 DEF Loaded
  <2>5. RawOf(file, i).slo_uptime \subseteq Int
    BY <2>4, TablesAreRead DEF IsRaw
  <2>6. m.shared.slo_uptime = {BasisPoints(p) : p \in RawOf(file, i).slo_uptime}
    <3>1. "slo_uptime" \in SharedSettings
      BY DefaultsAre, OwnOnesAre DEF SharedSettings, OwnOnes
    <3> HIDE DEF SharedSettings
    <3> QED BY <2>4, <3>1 DEF Monitor
  <2> QED BY <2>5, <2>6, BasisPointsInside
<1>11. ASSUME NEW m \in Each(typed)
       PROVE  /\ ConfirmEnabled(m) => \E peer \in Each(file.peers) : HasProbeUrl(peer)
              /\ m.shared.public \/ \E token \in file.auth_token : token # NoText
              /\ \A bp \in m.shared.slo_uptime : 0 < bp /\ bp < 10000
  BY <1>8, <1>9, <1>10
<1> QED BY <1>6, <1>7, <1>11 DEF AcceptedHoldsTogether

\* What the tables read so far set is either held by their monitors or named in their
\* warnings.
LEMMA NothingDropped ==
    ASSUME file \in ConfigFiles, Loaded
    PROVE  NothingIsDroppedSilently
<1>1. /\ DOMAIN typed = 1..Len(typed) /\ Len(typed) \in Nat
      /\ DOMAIN file.monitors = 1..Len(file.monitors) /\ Len(file.monitors) \in Nat
  BY LenProperties, ConfigAssumption DEF Loaded
<1>2. ASSUME NEW i \in DOMAIN typed
      PROVE  LET raw == Lowered(Read(file.monitors[i]))
                 dropped == Set(raw, Settings) \ HeldOf(raw, typed[i])
             IN  dropped \ (IF raw.kind = "push" THEN {"target"} ELSE {}) = ignored[i]
  <2> DEFINE raw == RawOf(file, i)
  <2>1. i \in DOMAIN file.monitors
    BY <1>1 DEF Loaded
  <2>2. IsRaw(raw)
    BY <2>1, TablesAreRead
  <2>3. typed[i] = Monitor(raw) /\ TableFits(raw) /\ ignored[i] = WarnIgnored(raw)
    BY DEF Loaded
  <2>4. Lowered(Read(file.monitors[i])) = raw
    BY DEF RawOf
  <2> HIDE DEF raw
  <2>5. Dropped(raw) \ (IF raw.kind = "push" THEN {"target"} ELSE {}) = ignored[i]
    BY <2>2, <2>3, DroppedIsSaid
  <2>6. Dropped(raw) = Set(raw, Settings) \ HeldOf(raw, typed[i])
    BY <2>3 DEF Dropped
  <2> QED BY <2>4, <2>5, <2>6
<1>3. ASSUME NEW i \in DOMAIN file.monitors
      PROVE  LET raw == Lowered(Read(file.monitors[i])) IN TableFits(raw) => SpecIsCompiled(raw)
  BY TablesAreRead, FitIsBuilt DEF RawOf
<1> QED BY <1>2, <1>3 DEF NothingIsDroppedSilently

\* Whatever file is loaded (Config::from_toml, RawConfig::validate and
\* warn_ignored): each setting of each table read is held by its monitor or named
\* in its warnings, and a table that passes its rules is built. In an accepted file
\* no two monitors or watched peers share a row, whoever asks for confirmation has a
\* peer to ask, a private monitor has a token somebody could read it with, and every
\* objective lies strictly between none and all.
THEOREM AcceptedMeansWhatItSaysHolds == ConfigSpec => []AcceptedMeansWhatItSays
<1>1. ConfigInv => AcceptedMeansWhatItSays
  <2> SUFFICES ASSUME ConfigInv PROVE AcceptedMeansWhatItSays
    OBVIOUS
  <2>1. file \in ConfigFiles /\ Loaded /\ (loading = "accepted" => FileFits)
    BY DEF ConfigInv
  <2>2. NothingIsDroppedSilently
    BY <2>1, NothingDropped
  <2>3. AcceptedHoldsTogether
    <3>1. CASE FileFits
      BY <2>1, <3>1, FitHoldsTogether
    <3>2. CASE loading # "accepted"
      BY <3>2 DEF AcceptedHoldsTogether
    <3> QED BY <2>1, <3>1, <3>2
  <2> QED BY <2>2, <2>3 DEF AcceptedMeansWhatItSays
<1> QED BY <1>1, ConfigInvHolds, PTL

---------------------------------------------------------------------------
(* What operators record holds *)

AnnotationSpec == AnnotationsInit /\ [][AnnotationsNext]_annotationVars

\* The rows the orders below are about.
PinRows == [id : Nat, until : Int, at : Int]
MarkRows == [id : Nat, at : Int]
OneIdEach(table) == \A a, b \in table : a.id = b.id => a = b

\* A table as the orders below take it: no incidents, one id per row.
IsTableOf(table, Kind) == IsFiniteSet(table) /\ table \subseteq Kind /\ OneIdEach(table)

\* A finite set of rows has one that none is above.
LEMMA GreatestId ==
    ASSUME NEW table, IsFiniteSet(table), \A row \in table : row.id \in Nat
    PROVE  /\ NextId(table) \in Nat
           /\ \A row \in table : row.id < NextId(table)
<1> DEFINE Numbers == {0} \cup {row.id : row \in table}
           above(row) == {other \in table : other.id > row.id}
           T == {above(row) : row \in table}
<1>1. \E x \in Numbers : \A y \in Numbers : x >= y
  <2>1. CASE table = {}
    BY <2>1
  <2>2. CASE table # {}
    <3>1. T \in SUBSET (SUBSET table) /\ T # {}
      BY <2>2
    <3>2. PICK s \in T : \A t \in T : t \subseteq s => t = s
      <4> HIDE DEF T
      <4> QED BY <3>1, MinimalSubset
    <3>3. PICK row \in table : s = above(row)
      BY <3>2
    <3>4. ASSUME NEW other \in table, other.id > row.id
          PROVE  FALSE
      <4>1. above(other) \subseteq s /\ above(other) \in T
        BY <3>3, <3>4
      <4>2. other \in s /\ other \notin above(other)
        BY <3>3, <3>4
      <4> QED BY <3>2, <4>1, <4>2
    <3> QED BY <3>4
  <2> QED BY <2>1, <2>2
<1>2. Numbers \subseteq Nat
  OBVIOUS
<1> DEFINE top == CHOOSE x \in Numbers : \A y \in Numbers : x >= y
<1>3. top \in Numbers /\ \A y \in Numbers : top >= y
  BY <1>1
<1>4. NextId(table) = 1 + top
  BY DEF NextId, Max
<1>5. \A row \in table : row.id \in Numbers
  OBVIOUS
<1> HIDE DEF top, Numbers
<1> QED BY <1>2, <1>3, <1>4, <1>5

\* A marker has a time.
LEMMA MarksHaveTimes == ASSUME NEW row \in MarkRows PROVE row.at \in Int
  BY DEF MarkRows

\* The time a banner or a marker is put in order by is a number, and so is its id.
LEMMA RowsStart ==
    ASSUME NEW row \in PinRows \cup MarkRows
    PROVE  Started(row) = row.at /\ row.at \in Int /\ row.id \in Nat
<1>1. CASE row \in PinRows
  BY <1>1 DEF PinRows, Started
<1>2. CASE row \in MarkRows
  BY <1>2 DEF MarkRows, Started
<1> QED BY <1>1, <1>2

\* A set in the order of a relation, as Ordered puts it.
InOrderOf(S, R) ==
    [i \in 1..Cardinality(S) |->
        CHOOSE x \in S : Cardinality({y \in S : <<y, x>> \in R}) = i - 1]

\* A finite set under a strict order of all its members, as a sequence: all its members,
\* each before those it comes before.
LEMMA InOrder ==
    ASSUME NEW S, IsFiniteSet(S), NEW R,
           \A a \in S : <<a, a>> \notin R,
           \A a, b, c \in S : <<a, b>> \in R /\ <<b, c>> \in R => <<a, c>> \in R,
           \A a, b \in S : a = b \/ <<a, b>> \in R \/ <<b, a>> \in R,
           NEW L, L = InOrderOf(S, R)
    PROVE  /\ L \in Seq(S) /\ Len(L) \in Nat /\ Len(L) = Cardinality(S) /\ ToSet(L) = S
           /\ \A i, j \in 1..Len(L) : i < j => <<L[i], L[j]>> \in R
<1> DEFINE n == Cardinality(S)
           before(x) == {y \in S : <<y, x>> \in R}
           rank == [x \in S |-> Cardinality(before(x))]
<1>1. n \in Nat /\ IsFiniteSet(0..(n - 1)) /\ Cardinality(0..(n - 1)) = n
  <2>1. n \in Nat
    BY FS_CardinalityType
  <2>2. 0 \in Int /\ n - 1 \in Int
    BY <2>1
  <2> QED BY <2>1, <2>2, FS_Interval
<1>2. ASSUME NEW x \in S
      PROVE  IsFiniteSet(before(x)) /\ rank[x] \in 0..(n - 1)
  <2>1. before(x) \subseteq S \ {x}
    OBVIOUS
  <2> HIDE DEF before
  <2>2. IsFiniteSet(S \ {x}) /\ Cardinality(S \ {x}) = n - 1
    BY FS_RemoveElement
  <2>3. IsFiniteSet(before(x)) /\ Cardinality(before(x)) <= n - 1
    BY <2>1, <2>2, FS_Subset
  <2>4. Cardinality(before(x)) \in Nat
    BY <2>3, FS_CardinalityType
  <2>5. rank[x] = Cardinality(before(x))
    OBVIOUS
  <2> HIDE DEF n, rank
  <2> QED BY <1>1, <2>3, <2>4, <2>5
<1>3. ASSUME NEW a \in S, NEW b \in S, <<a, b>> \in R
      PROVE  rank[a] < rank[b]
  <2>1. before(a) \subseteq before(b)
    BY <1>3
  <2>2. a \in before(b) /\ a \notin before(a)
    BY <1>3
  <2>3. Cardinality(before(a)) <= Cardinality(before(b)) /\ Cardinality(before(a)) # Cardinality(before(b))
    BY <1>2, <2>1, <2>2, FS_Subset
  <2>4. /\ rank[a] = Cardinality(before(a)) /\ rank[b] = Cardinality(before(b))
        /\ rank[a] \in 0..(n - 1) /\ rank[b] \in 0..(n - 1)
    BY <1>2
  <2> HIDE DEF rank, before, n
  <2> QED BY <1>1, <2>3, <2>4
<1>4. \A x \in S : rank[x] \in Int
  <2> TAKE x \in S
  <2>1. rank[x] \in 0..(n - 1)
    BY <1>2
  <2> HIDE DEF rank
  <2> QED BY <1>1, <2>1
<1>5. \A a, b \in S : rank[a] = rank[b] => a = b
  <2> TAKE a, b \in S
  <2>1. /\ a = b \/ <<a, b>> \in R \/ <<b, a>> \in R
        /\ rank[a] \in Int /\ rank[b] \in Int
    BY <1>4
  <2>2. <<a, b>> \in R => rank[a] < rank[b]
    BY <1>3
  <2>3. <<b, a>> \in R => rank[b] < rank[a]
    BY <1>3
  <2> HIDE DEF rank
  <2> QED BY <2>1, <2>2, <2>3
<1>6. rank \in Injection(S, 0..(n - 1))
  <2>1. rank \in [S -> 0..(n - 1)]
    BY <1>2
  <2> HIDE DEF rank
  <2> QED BY <1>5, <2>1 DEF Injection, IsInjective
<1>7. \A k \in 0..(n - 1) : \E x \in S : rank[x] = k
  <2>1. rank \in Surjection(S, 0..(n - 1))
    BY <1>1, <1>6, FS_Injection
  <2> HIDE DEF rank
  <2> QED BY <2>1 DEF Surjection
<1>8. L = [i \in 1..n |-> CHOOSE x \in S : Cardinality(before(x)) = i - 1]
  BY DEF InOrderOf
<1>9. \A i \in 1..n : L[i] \in S /\ rank[L[i]] = i - 1
  <2> TAKE i \in 1..n
  <2>1. i - 1 \in 0..(n - 1)
    BY <1>1
  <2>2. \E x \in S : rank[x] = i - 1
    BY <1>7, <2>1
  <2>3. \E x \in S : Cardinality(before(x)) = i - 1
    BY <2>2
  <2>4. L[i] = CHOOSE x \in S : Cardinality(before(x)) = i - 1
    BY <1>8
  <2> HIDE DEF before
  <2>5. L[i] \in S /\ Cardinality(before(L[i])) = i - 1
    BY <2>3, <2>4
  <2> QED BY <2>5
<1>10. L \in Seq(S) /\ Len(L) = n /\ DOMAIN L = 1..n
  <2>1. L = [i \in 1..n |-> L[i]]
    BY <1>8
  <2>2. \A i \in 1..n : L[i] \in S
    BY <1>9
  <2> HIDE DEF n
  <2>3. L \in [1..n -> S]
    BY <2>1, <2>2
  <2> QED BY <1>1, <2>3
<1>11. ToSet(L) = S
  <2>1. \A x \in S : \E i \in 1..n : L[i] = x
    <3> TAKE x \in S
    <3> HIDE DEF n
    <3>1. rank[x] + 1 \in 1..n /\ rank[x] \in Nat
      <4>1. rank[x] \in 0..(n - 1)
        BY <1>2
      <4> HIDE DEF rank
      <4> QED BY <1>1, <4>1
    <3>2. rank[L[rank[x] + 1]] = rank[x] /\ L[rank[x] + 1] \in S
      <4>1. rank[x] + 1 - 1 = rank[x]
        BY <3>1
      <4> HIDE DEF rank
      <4> QED BY <1>9, <3>1, <4>1
    <3> HIDE DEF rank
    <3> QED BY <1>5, <3>1, <3>2
  <2>2. \A i \in 1..n : L[i] \in S
    BY <1>9
  <2> HIDE DEF n
  <2> QED BY <1>10, <2>1, <2>2 DEF ToSet
<1>12. ASSUME NEW i \in 1..n, NEW j \in 1..n, i < j
       PROVE  <<L[i], L[j]>> \in R
  <2>1. /\ L[i] \in S /\ L[j] \in S
        /\ rank[L[i]] = i - 1 /\ rank[L[j]] = j - 1 /\ i \in Int /\ j \in Int
    <3> HIDE DEF rank, n
    <3> QED BY <1>1, <1>9
  <2>2. <<L[j], L[i]>> \in R => rank[L[j]] < rank[L[i]]
    BY <1>3, <2>1
  <2>3. L[i] = L[j] \/ <<L[i], L[j]>> \in R \/ <<L[j], L[i]>> \in R
    BY <2>1
  <2> HIDE DEF rank
  <2> QED BY <1>12, <2>1, <2>2, <2>3
<1> QED BY <1>1, <1>10, <1>11, <1>12

\* The rows in order are all the rows, the newest first.
LEMMA LatestIsWhole ==
    ASSUME NEW table, IsTableOf(table, PinRows) \/ IsTableOf(table, MarkRows)
    PROVE  /\ ToSet(Latest(table)) = table
           /\ table # {} => /\ Latest(table)[1] \in table
                            /\ \A row \in table : row.at <= Latest(table)[1].at
<1> DEFINE R == {pair \in table \X table : Above(pair[1], pair[2])}
           L == Latest(table)
<1>1. /\ IsFiniteSet(table) /\ OneIdEach(table)
      /\ \A row \in table : Started(row) = row.at /\ row.at \in Int /\ row.id \in Nat
  BY RowsStart DEF IsTableOf
<1>2. \A a, b \in table : <<a, b>> \in R <=> Above(a, b)
  OBVIOUS
<1> HIDE DEF R
<1>3. L = InOrderOf(table, R)
  <2> DEFINE one(i) == CHOOSE x \in table : Cardinality({y \in table : Above(y, x)}) = i - 1
             other(i) == CHOOSE x \in table : Cardinality({y \in table : <<y, x>> \in R}) = i - 1
             n == Cardinality(table)
  <2>1. L = [i \in 1..n |-> one(i)] /\ InOrderOf(table, R) = [i \in 1..n |-> other(i)]
    BY DEF Latest, Ordered, InOrderOf
  <2>2. \A x \in table : {y \in table : Above(y, x)} = {y \in table : <<y, x>> \in R}
    BY <1>2
  <2>3. \A i \in 1..n : one(i) = other(i)
    BY <2>2
  <2> HIDE DEF L, one, other, n
  <2> QED BY <2>1, <2>3
<1> HIDE DEF L
<1>4. /\ \A a \in table : <<a, a>> \notin R
      /\ \A a, b, c \in table : <<a, b>> \in R /\ <<b, c>> \in R => <<a, c>> \in R
      /\ \A a, b \in table : a = b \/ <<a, b>> \in R \/ <<b, a>> \in R
  <2>1. \A a, b \in table : <<a, b>> \in R <=> (a.at > b.at \/ (a.at = b.at /\ a.id > b.id))
    BY <1>1, <1>2 DEF Above
  <2>2. \A a, b \in table : a.id = b.id => a = b
    BY <1>1 DEF OneIdEach
  <2> QED BY <1>1, <2>1, <2>2
<1>5. /\ L \in Seq(table) /\ Len(L) \in Nat /\ Len(L) = Cardinality(table) /\ ToSet(L) = table
      /\ \A i, j \in 1..Len(L) : i < j => <<L[i], L[j]>> \in R
  BY <1>1, <1>3, <1>4, InOrder
<1>6. ASSUME table # {}
      PROVE  L[1] \in table /\ \A row \in table : row.at <= L[1].at
  <2>1. 1 \in 1..Len(L) /\ L[1] \in table
    BY <1>5, <1>6 DEF ToSet
  <2>2. ASSUME NEW row \in table
        PROVE  row.at <= L[1].at
    <3>1. PICK i \in 1..Len(L) : L[i] = row
      BY <1>5 DEF ToSet
    <3>2. i = 1 \/ 1 < i
      BY <1>5
    <3>3. row = L[1] \/ Above(L[1], row)
      BY <1>2, <1>5, <2>1, <3>1, <3>2
    <3> QED BY <1>1, <2>1, <3>3 DEF Above
  <2> QED BY <2>1, <2>2
<1> QED BY <1>5, <1>6 DEF L

(* The invariant: the tables against what was accepted *)

Minutes == minute \in Nat

\* The banners pinned are those accepted but for some that have expired.
PinsInv ==
    /\ IsTableOf(book.pins, PinRows)
    /\ book.pins \subseteq asked.banners /\ asked.banners \subseteq PinRows
    /\ \A b \in asked.banners : InForce(b.until) => b \in book.pins

\* The markers recorded are those accepted but for some out of every lookback.
MarksInv ==
    /\ IsTableOf(book.marks, MarkRows)
    /\ book.marks \subseteq asked.events /\ asked.events \subseteq MarkRows
    /\ \A e \in asked.events : /\ e.at <= minute
                               /\ e.at >= minute - Year => e \in book.marks

\* An incident names a marker that was the latest of its lookback.
OutagesInv ==
    \A o \in book.outages :
        /\ DOMAIN o = {"id", "started", "ended", "event", "note"}
        /\ o.started \in Int /\ o.started <= minute
        /\ o.event # NoEvent =>
              /\ o.started - o.event \in 0..EVENT_LOOKBACK
              /\ \E e \in asked.events : e.at = o.event
              /\ ~\E e \in asked.events : e.at > o.event /\ e.at < o.started

\* The rows of a silence: one for everything, or one for each id it names.
Mutes(mute, s) ==
    /\ mute.until = s.until
    /\ IF s.covers = <<"all">> THEN mute.target = "*" ELSE mute.target \in ToSet(s.covers)
NamesOnlyKnown(ids) ==
    ids = <<"all">> \/ \A i \in DOMAIN ids : IsSilenceable(ids[i])

HasItsRows(s, mutes) ==
    IF s.covers = <<"all">>
    THEN \E mute \in mutes : mute.target = "*" /\ mute.until = s.until
    ELSE \A id \in ToSet(s.covers) : \E mute \in mutes : mute.target = id /\ mute.until = s.until

\* The rows are those of accepted silences, and every one in force has its rows.
MutesInv ==
    /\ \A mute \in book.mutes : \E s \in asked.silences : Mutes(mute, s)
    /\ \A s \in asked.silences :
          /\ s.until \in Nat \ {0} /\ NamesOnlyKnown(s.covers)
          /\ s.until > minute => HasItsRows(s, book.mutes)

\* What the door at work is about to write was validated.
DeskInv ==
    /\ desk.until \in Nat
    /\ Doing("silence") => desk.until # None /\ NamesOnlyKnown(desk.line.ids)

BookInv ==
    /\ DOMAIN book = {"pins", "marks", "mutes", "outages", "alerts"}
    /\ DOMAIN asked = {"silences", "banners", "events"}

AnnotationInv ==
    Minutes /\ BookInv /\ PinsInv /\ MarksInv /\ OutagesInv /\ MutesInv /\ DeskInv

\* Nothing is recorded, accepted or being written at the start.
LEMMA AnnotationInvInit == AnnotationsInit => AnnotationInv
<1> SUFFICES ASSUME AnnotationsInit PROVE AnnotationInv
  OBVIOUS
<1>1. desk = Free
  BY DEF AnnotationsInit
<1>2. DeskInv
  BY <1>1 DEF DeskInv, Free, Doing, None
<1>3. IsTableOf({}, PinRows) /\ IsTableOf({}, MarkRows)
  BY FS_EmptySet DEF IsTableOf, OneIdEach
<1>4. CASE minute = 0 /\ book = Empty /\ asked = Blank
  BY <1>2, <1>3, <1>4 DEF AnnotationInv, Minutes, BookInv, PinsInv, MarksInv, OutagesInv, MutesInv,
     Empty, Blank
<1>5. CASE ~(minute = 0 /\ book = Empty /\ asked = Blank)
  <2> DEFINE pin == [id |-> 1, until |-> None, at |-> 1]
             mark == [id |-> 1, at |-> 1]
  <2>1. PICK ended \in {None, 1, 3} :
          /\ minute = 3
          /\ book = [pins |-> {pin}, marks |-> {mark}, alerts |-> {mark},
                     mutes |-> {[id |-> 1, target |-> "*", until |-> 4, at |-> 1]},
                     outages |-> {[id |-> 1, started |-> 0, ended |-> ended,
                                   event |-> NoEvent, note |-> FALSE]}]
          /\ asked = [banners |-> {pin}, events |-> {mark},
                      silences |-> {[covers |-> <<"all">>, until |-> 4]}]
    BY <1>5 DEF AnnotationsInit
  <2>2. pin \in PinRows /\ mark \in MarkRows
    BY DEF PinRows, MarkRows, None
  <2>3. IsTableOf({pin}, PinRows) /\ IsTableOf({mark}, MarkRows)
    BY <2>2, FS_Singleton DEF IsTableOf, OneIdEach
  <2>4. Minutes /\ BookInv
    BY <2>1 DEF Minutes, BookInv
  <2>5. PinsInv /\ MarksInv
    BY <2>1, <2>2, <2>3 DEF PinsInv, MarksInv
  <2>6. OutagesInv
    BY <2>1 DEF OutagesInv
  <2>7. MutesInv
    <3> DEFINE mute == [id |-> 1, target |-> "*", until |-> 4, at |-> 1]
               s == [covers |-> <<"all">>, until |-> 4]
    <3>1. book.mutes = {mute} /\ asked.silences = {s}
      BY <2>1
    <3>2. Mutes(mute, s) /\ s.until \in Nat \ {0} /\ NamesOnlyKnown(s.covers)
      BY DEF Mutes, NamesOnlyKnown
    <3>3. HasItsRows(s, {mute})
      BY DEF HasItsRows
    <3> HIDE DEF mute, s
    <3> QED BY <3>1, <3>2, <3>3 DEF MutesInv
  <2> QED BY <1>2, <2>4, <2>5, <2>6, <2>7 DEF AnnotationInv
<1> QED BY <1>4, <1>5

\* The clock alone.
LEMMA TimeKeeps ==
    ASSUME AnnotationInv, minute' \in Nat, minute <= minute', UNCHANGED <<book, asked>>
    PROVE  Minutes' /\ BookInv' /\ PinsInv' /\ MarksInv' /\ OutagesInv' /\ MutesInv'
<1>1. minute \in Nat /\ Year \in Nat
  BY AnnotationAssumption DEF AnnotationInv, Minutes
<1>2. Minutes' /\ BookInv'
  BY DEF Minutes, BookInv, AnnotationInv
<1>3. PinsInv'
  BY <1>1 DEF PinsInv, AnnotationInv, InForce, PinRows
<1>4. MarksInv'
  BY <1>1 DEF MarksInv, AnnotationInv, MarkRows
<1>5. OutagesInv'
  BY <1>1 DEF OutagesInv, AnnotationInv
<1>6. MutesInv'
  <2>1. \A s \in asked.silences : s.until > minute' => s.until > minute
    BY <1>1 DEF MutesInv, AnnotationInv
  <2> QED BY <2>1 DEF MutesInv, AnnotationInv
<1> QED BY <1>2, <1>3, <1>4, <1>5, <1>6
\* A row more in a table of rows.
LEMMA OneRowMore ==
    ASSUME NEW table, NEW Kind, Kind = PinRows \/ Kind = MarkRows, IsTableOf(table, Kind),
           NEW row \in Kind, row.id = NextId(table)
    PROVE  IsTableOf(table \cup {row}, Kind)
<1>1. \A r \in table : r.id \in Nat
  BY RowsStart DEF IsTableOf
<1>2. NextId(table) \in Nat /\ \A r \in table : r.id < NextId(table)
  BY <1>1, GreatestId DEF IsTableOf
<1>3. IsFiniteSet(table \cup {row})
  BY FS_AddElement DEF IsTableOf
<1>4. OneIdEach(table \cup {row})
  BY <1>1, <1>2 DEF IsTableOf, OneIdEach
<1> QED BY <1>3, <1>4 DEF IsTableOf

\* Rows less.
LEMMA RowsLess ==
    ASSUME NEW table, NEW Kind, IsTableOf(table, Kind), NEW less \in SUBSET table
    PROVE  IsTableOf(less, Kind)
  BY FS_Subset DEF IsTableOf, OneIdEach

\* What leaves the banners, the minute and the announcements accepted alone keeps what
\* ties them.
LEMMA PinsKept ==
    ASSUME AnnotationInv, UNCHANGED minute, UNCHANGED asked.banners, UNCHANGED book.pins
    PROVE  PinsInv'
  BY DEF AnnotationInv, PinsInv, InForce

\* The same of the markers and the events accepted.
LEMMA MarksKept ==
    ASSUME AnnotationInv, UNCHANGED minute, UNCHANGED asked.events, UNCHANGED book.marks
    PROVE  MarksInv'
  BY DEF AnnotationInv, MarksInv

\* The same of the incidents and the markers they name.
LEMMA OutagesKept ==
    ASSUME AnnotationInv, UNCHANGED minute, UNCHANGED asked.events, UNCHANGED book.outages
    PROVE  OutagesInv'
  BY DEF AnnotationInv, OutagesInv

\* The same of the silences.
LEMMA MutesKept ==
    ASSUME AnnotationInv, UNCHANGED minute, UNCHANGED asked.silences, UNCHANGED book.mutes
    PROVE  MutesInv'
  BY DEF AnnotationInv, MutesInv

\* An accepted duration is a positive number of minutes.
LEMMA DurationsAreNumbers ==
    ASSUME NEW tokens
    PROVE  /\ ParseDuration(tokens).total \in Nat
           /\ ParseDuration(tokens).ok => ParseDuration(tokens).total > 0
<1> DEFINE sum == FoldLeft(AddToken, [ok |-> TRUE, total |-> 0], tokens)
<1>1. ParseDuration(tokens) = IF sum.total \in 1..MaxNumber THEN sum ELSE Refuse
  BY DEF ParseDuration
<1>2. MaxNumber \in Nat
  BY AnnotationAssumption
<1> HIDE DEF sum
<1>3. CASE sum.total \in 1..MaxNumber
  BY <1>1, <1>2, <1>3
<1>4. CASE sum.total \notin 1..MaxNumber
  BY <1>1, <1>4 DEF Refuse
<1> QED BY <1>3, <1>4

\* An accepted end that is not forever is a time.
LEMMA UntilsAreNumbers ==
    ASSUME NEW words, words.clock \in Int, minute \in Nat, ~Forever(words),
           ParseUntil(words, minute).ok
    PROVE  ParseUntil(words, minute).total \in Nat
<1>1. CASE words.clock >= 0 /\ words.clock < DayLength
  <2>1. ParseUntil(words, minute).total = NextOccurrence(words.clock, minute)
    BY <1>1 DEF ParseUntil
  <2>2. minute \div DayLength \in Nat /\ DayLength \in Nat
    BY AnnotationAssumption
  <2>3. (minute \div DayLength) * DayLength \in Nat
    BY <2>2
  <2> QED BY <1>1, <2>1, <2>2, <2>3 DEF NextOccurrence
<1>2. CASE words.clock >= 0 /\ ~(words.clock < DayLength)
  BY <1>2 DEF ParseUntil, Refuse
<1>3. CASE ~(words.clock >= 0)
  <2> DEFINE duration == ParseDuration(words.tokens)
  <2>1. duration.total \in Nat
    BY DurationsAreNumbers
  <2> HIDE DEF duration
  <2>2. CASE duration.ok /\ duration.total <= MAX_UNTIL
    <3>1. ParseUntil(words, minute) = [ok |-> TRUE, total |-> minute + duration.total]
      BY <1>3, <2>2 DEF ParseUntil, duration
    <3> QED BY <2>1, <3>1
  <2>3. CASE ~(duration.ok /\ duration.total <= MAX_UNTIL)
    <3>1. ParseUntil(words, minute) = Refuse
      BY <1>3, <2>3 DEF ParseUntil, duration
    <3> QED BY <3>1 DEF Refuse
  <2> QED BY <2>2, <2>3
<1> QED BY <1>1, <1>2, <1>3
\* A line read at a door.
LEMMA ValidatesKeepsDesk ==
    ASSUME AnnotationInv, NEW line \in Lines, Validates(line), UNCHANGED minute
    PROVE  DeskInv'
<1>1. minute \in Nat
  BY DEF AnnotationInv, Minutes
<1> DEFINE what == line.what
           accepted ==
              CASE line.what = "announce" -> AnnouncementIsValid(line, minute)
                [] line.what = "silence"  -> SilenceIsValid(line)
                [] line.what = "event"    -> line.title # "blank"
                [] line.what = "annotate" -> LatestIncident # None
                [] OTHER -> TRUE
           until ==
              CASE line.what = "announce" /\ ~Forever(line.until) ->
                      ParseUntil(line.until, minute).total
                [] line.what = "silence" -> minute + ParseDuration(line.until.tokens).total
                [] OTHER -> None
           next == [Free EXCEPT !.pc = "valid", !.line = line, !.until = until,
                                !.id = LatestIncident]
<1>2. desk' = IF accepted THEN next ELSE [Free EXCEPT !.answer = "refused"]
  BY DEF Validates
<1>3. CASE ~accepted
  <2>1. desk'.until = None /\ desk'.pc # "valid"
    BY <1>2, <1>3 DEF Free
  <2> QED BY <2>1 DEF DeskInv, Doing, None
<1>4. CASE accepted
  <2>1. desk' = next
    BY <1>2, <1>4
  <2>2. desk'.until = until /\ desk'.line = line
    <3> HIDE DEF until
    <3> QED BY <2>1 DEF Free
  <2>3. CASE what = "silence"
    <3>1. SilenceIsValid(line)
      BY <1>4, <2>3
    <3>2. /\ ParseDuration(line.until.tokens).ok
          /\ NamesOnlyKnown(line.ids)
      BY <3>1 DEF SilenceIsValid, NamesOnlyKnown
    <3>3. until = minute + ParseDuration(line.until.tokens).total
      BY <2>3
    <3>4. ParseDuration(line.until.tokens).total \in Nat /\ ParseDuration(line.until.tokens).total > 0
      BY <3>2, DurationsAreNumbers
    <3> HIDE DEF until
    <3>5. until \in Nat /\ until # None
      BY <1>1, <3>3, <3>4 DEF None
    <3> QED BY <2>2, <3>2, <3>5 DEF DeskInv
  <2>4. CASE what = "announce"
    <3>1. AnnouncementIsValid(line, minute)
      BY <1>4, <2>4
    <3>2. line.until.clock \in Int
      BY <2>4, AnnotationAssumption
    <3>3. until \in Nat
      <4>1. CASE Forever(line.until)
        BY <2>4, <4>1 DEF None
      <4>2. CASE ~Forever(line.until)
        <5>1. ParseUntil(line.until, minute).ok
          BY <3>1, <4>2 DEF AnnouncementIsValid
        <5>2. until = ParseUntil(line.until, minute).total
          BY <2>4, <4>2
        <5> HIDE DEF until
        <5> QED BY <1>1, <3>2, <4>2, <5>1, <5>2, UntilsAreNumbers
      <4> QED BY <4>1, <4>2
    <3> HIDE DEF until
    <3> QED BY <2>2, <2>4, <3>3 DEF DeskInv, Doing
  <2>5. CASE what \notin {"silence", "announce"}
    <3>1. until = None
      BY <2>5
    <3> HIDE DEF until
    <3> QED BY <2>2, <2>5, <3>1 DEF DeskInv, Doing, None
  <2> QED BY <2>3, <2>4, <2>5
<1> QED BY <1>3, <1>4

\* An answered door is free.
LEMMA AnsweredDesk ==
    ASSUME NEW answer, NEW count, desk' = Outcome(answer, count)
    PROVE  DeskInv'
<1>1. desk'.until = None /\ desk'.pc = "idle"
  BY DEF Outcome, Free
<1> QED BY <1>1 DEF DeskInv, Doing, None

\* A banner is written whole, or not at all.
LEMMA PinsKeeps == ASSUME AnnotationInv, Pins PROVE AnnotationInv'
<1>1. /\ book' = [book EXCEPT !.pins = @ \cup {PinRow}]
      /\ asked' = [asked EXCEPT !.banners = @ \cup {PinRow}]
      /\ UNCHANGED minute /\ desk' = Outcome("accepted", 0)
  BY DEF Pins
<1>2. BookInv /\ minute \in Nat /\ desk.until \in Nat
  BY DEF AnnotationInv, DeskInv, Minutes
<1>3. /\ book'.pins = book.pins \cup {PinRow} /\ asked'.banners = asked.banners \cup {PinRow}
      /\ book'.marks = book.marks /\ book'.mutes = book.mutes /\ book'.outages = book.outages
      /\ asked'.events = asked.events /\ asked'.silences = asked.silences
  BY <1>1, <1>2 DEF BookInv
<1>4. PinRow \in PinRows /\ PinRow.id = NextId(book.pins)
  <2>1. NextId(book.pins) \in Nat
    <3>1. IsFiniteSet(book.pins) /\ \A row \in book.pins : row.id \in Nat
      BY RowsStart DEF AnnotationInv, PinsInv, IsTableOf
    <3> QED BY <3>1, GreatestId
  <2> QED BY <1>2, <2>1 DEF PinRow, PinRows
<1>5. IsTableOf(book.pins \cup {PinRow}, PinRows)
  BY <1>4, OneRowMore DEF AnnotationInv, PinsInv
<1>6. PinsInv'
  BY <1>1, <1>3, <1>4, <1>5 DEF AnnotationInv, PinsInv, InForce
<1>7. MarksInv' /\ OutagesInv' /\ MutesInv'
  BY <1>1, <1>3, MarksKept, OutagesKept, MutesKept
<1>8. Minutes' /\ BookInv'
  BY <1>1, <1>2 DEF Minutes, BookInv
<1> QED BY <1>1, <1>6, <1>7, <1>8, AnsweredDesk DEF AnnotationInv

\* A marker is written whole, or not at all.
LEMMA MarksKeeps == ASSUME AnnotationInv, Marks PROVE AnnotationInv'
<1>1. /\ book' = [book EXCEPT !.marks = @ \cup {MarkRow}]
      /\ asked' = [asked EXCEPT !.events = @ \cup {MarkRow}]
      /\ UNCHANGED minute /\ desk' = Outcome("accepted", 0)
  BY DEF Marks
<1>2. BookInv /\ minute \in Nat
  BY DEF AnnotationInv, Minutes
<1>3. /\ book'.marks = book.marks \cup {MarkRow} /\ asked'.events = asked.events \cup {MarkRow}
      /\ book'.pins = book.pins /\ book'.mutes = book.mutes /\ book'.outages = book.outages
      /\ asked'.banners = asked.banners /\ asked'.silences = asked.silences
  BY <1>1, <1>2 DEF BookInv
<1>4. MarkRow \in MarkRows /\ MarkRow.id = NextId(book.marks) /\ MarkRow.at = minute
  <2>1. NextId(book.marks) \in Nat
    <3>1. IsFiniteSet(book.marks) /\ \A row \in book.marks : row.id \in Nat
      BY RowsStart DEF AnnotationInv, MarksInv, IsTableOf
    <3> QED BY <3>1, GreatestId
  <2> QED BY <1>2, <2>1 DEF MarkRow, MarkRows
<1>5. IsTableOf(book.marks \cup {MarkRow}, MarkRows)
  BY <1>4, OneRowMore DEF AnnotationInv, MarksInv
<1>6. MarksInv'
  BY <1>1, <1>2, <1>3, <1>4, <1>5 DEF AnnotationInv, MarksInv
<1>7. PinsInv' /\ MutesInv'
  BY <1>1, <1>3, PinsKept, MutesKept
<1>8. OutagesInv'
  <2>1. ASSUME NEW o \in book.outages, NEW e \in asked'.events, e \notin asked.events
        PROVE  ~(e.at < o.started)
    <3>1. e.at = minute /\ o.started \in Int /\ o.started <= minute
      BY <1>3, <1>4, <2>1 DEF AnnotationInv, OutagesInv
    <3> QED BY <1>2, <3>1
  <2> QED BY <1>1, <1>3, <2>1 DEF AnnotationInv, OutagesInv
<1>9. Minutes' /\ BookInv'
  BY <1>1, <1>2 DEF Minutes, BookInv
<1> QED BY <1>1, <1>6, <1>7, <1>8, <1>9, AnsweredDesk DEF AnnotationInv

\* A silence is written with all its rows, in one transaction, or with none.
LEMMA SilencesKeeps == ASSUME AnnotationInv, Silences PROVE AnnotationInv'
<1> DEFINE line == desk.line
           changed == Rows(line, desk.until)
           new == [covers |-> line.ids, until |-> desk.until]
<1>1. /\ book' = [book EXCEPT !.mutes = @ \cup changed]
      /\ asked' = [asked EXCEPT !.silences = @ \cup {new}]
      /\ UNCHANGED minute /\ desk' = Outcome("accepted", 0) /\ Doing("silence")
  BY DEF Silences
<1>2. BookInv /\ minute \in Nat
  BY DEF AnnotationInv, Minutes
<1>3. desk.until \in Nat \ {0} /\ NamesOnlyKnown(line.ids)
  BY <1>1 DEF AnnotationInv, DeskInv, None
<1>4. \A row \in changed : \E i \in DOMAIN ResolveIds(line.ids) :
          row.target = ResolveIds(line.ids)[i] /\ row.until = desk.until
  BY DEF Rows
<1>5. \A i \in DOMAIN ResolveIds(line.ids) : \E row \in changed :
          row.target = ResolveIds(line.ids)[i] /\ row.until = desk.until
  <2> TAKE i \in DOMAIN ResolveIds(line.ids)
  <2> DEFINE row == [id |-> NextId(book.mutes) + i - 1, target |-> ResolveIds(line.ids)[i],
                     until |-> desk.until, at |-> minute]
  <2>1. row \in changed
    BY DEF Rows
  <2>2. row.target = ResolveIds(line.ids)[i] /\ row.until = desk.until
    OBVIOUS
  <2> HIDE DEF changed, row
  <2> QED BY <2>1, <2>2
<1> HIDE DEF changed
<1>6. /\ book'.mutes = book.mutes \cup changed /\ asked'.silences = asked.silences \cup {new}
      /\ book'.marks = book.marks /\ book'.pins = book.pins /\ book'.outages = book.outages
      /\ asked'.events = asked.events /\ asked'.banners = asked.banners
  BY <1>1, <1>2 DEF BookInv
<1>7. new.covers = line.ids /\ new.until = desk.until
  OBVIOUS
<1> HIDE DEF new
<1>8. \A row \in changed : Mutes(row, new)
  <2>1. CASE line.ids = <<"all">>
    BY <1>4, <1>7, <2>1 DEF Mutes, ResolveIds
  <2>2. CASE line.ids # <<"all">>
    BY <1>4, <1>7, <2>2 DEF Mutes, ResolveIds, ToSet
  <2> QED BY <2>1, <2>2
<1>9. HasItsRows(new, changed)
  <2>1. CASE line.ids = <<"all">>
    BY <1>5, <1>7, <2>1 DEF HasItsRows, ResolveIds
  <2>2. CASE line.ids # <<"all">>
    <3>1. ResolveIds(line.ids) = line.ids
      BY <2>2 DEF ResolveIds
    <3>2. ASSUME NEW id \in ToSet(line.ids)
          PROVE  \E row \in changed : row.target = id /\ row.until = desk.until
      <4>1. PICK i \in DOMAIN line.ids : line.ids[i] = id
        BY DEF ToSet
      <4> QED BY <1>5, <3>1, <4>1
    <3> QED BY <1>7, <2>2, <3>2 DEF HasItsRows
  <2> QED BY <2>1, <2>2
<1>10. \A s, less, more : less \subseteq more /\ HasItsRows(s, less) => HasItsRows(s, more)
  BY DEF HasItsRows
<1>11. MutesInv'
  <2>1. \A mute \in book'.mutes : \E s \in asked'.silences : Mutes(mute, s)
    BY <1>6, <1>8 DEF AnnotationInv, MutesInv
  <2>2. \A s \in asked'.silences :
          /\ s.until \in Nat \ {0} /\ NamesOnlyKnown(s.covers)
          /\ s.until > minute => HasItsRows(s, book'.mutes)
    <3>1. ASSUME NEW s \in asked.silences
          PROVE  /\ s.until \in Nat \ {0} /\ NamesOnlyKnown(s.covers)
                 /\ s.until > minute => HasItsRows(s, book'.mutes)
      <4>1. book.mutes \subseteq book'.mutes
        BY <1>6
      <4> QED BY <1>10, <4>1 DEF AnnotationInv, MutesInv
    <3>2. /\ new.until \in Nat \ {0} /\ NamesOnlyKnown(new.covers)
          /\ HasItsRows(new, book'.mutes)
      <4>1. changed \subseteq book'.mutes
        BY <1>6
      <4> QED BY <1>3, <1>7, <1>9, <1>10, <4>1
    <3> QED BY <1>6, <3>1, <3>2
  <2> QED BY <1>1, <2>1, <2>2 DEF MutesInv
<1>12. PinsInv' /\ MarksInv' /\ OutagesInv'
  BY <1>1, <1>6, PinsKept, MarksKept, OutagesKept
<1>13. Minutes' /\ BookInv'
  BY <1>1, <1>2 DEF Minutes, BookInv
<1> QED BY <1>1, <1>11, <1>12, <1>13, AnsweredDesk DEF AnnotationInv

\* A note on an incident changes that incident alone.
LEMMA AnnotatesKeeps == ASSUME AnnotationInv, Annotates PROVE AnnotationInv'
<1> DEFINE noted == {[o EXCEPT !.note = TRUE] : o \in Noted(desk.id)}
           changed == (book.outages \ Noted(desk.id)) \cup noted
<1>1. /\ book' = [book EXCEPT !.outages = changed]
      /\ UNCHANGED <<minute, asked>> /\ \E answer : desk' = Outcome(answer, 0)
  BY DEF Annotates
<1>2. BookInv /\ minute \in Nat
  BY DEF AnnotationInv, Minutes
<1>3. \A o \in changed : \E p \in book.outages : /\ DOMAIN o = DOMAIN p
                                             /\ o.started = p.started /\ o.event = p.event
  <2>1. \A p \in Noted(desk.id) :
            LET o == [p EXCEPT !.note = TRUE]
            IN DOMAIN o = DOMAIN p /\ o.started = p.started /\ o.event = p.event
    BY DEF Noted, AnnotationInv, OutagesInv
  <2>2. Noted(desk.id) \subseteq book.outages
    BY DEF Noted
  <2> QED BY <2>1, <2>2
<1> HIDE DEF changed
<1>4. /\ book'.outages = changed /\ book'.mutes = book.mutes
      /\ book'.marks = book.marks /\ book'.pins = book.pins
  BY <1>1, <1>2 DEF BookInv
<1>5. OutagesInv'
  BY <1>1, <1>3, <1>4 DEF AnnotationInv, OutagesInv
<1>6. PinsInv' /\ MarksInv' /\ MutesInv'
  BY <1>1, <1>4, PinsKept, MarksKept, MutesKept
<1>7. Minutes' /\ BookInv'
  BY <1>1, <1>2 DEF Minutes, BookInv
<1> QED BY <1>1, <1>5, <1>6, <1>7, AnsweredDesk DEF AnnotationInv

\* Clearing takes the banners, or the silences, with what was accepted of them.
LEMMA ClearsKeep ==
    ASSUME AnnotationInv, ClearsAnnouncements \/ ClearsSilences PROVE AnnotationInv'
<1>1. BookInv /\ minute \in Nat /\ UNCHANGED minute /\ (\E count : desk' = Outcome("cleared", count))
  BY DEF AnnotationInv, Minutes, ClearsAnnouncements, ClearsSilences
<1>2. CASE ClearsAnnouncements
  <2>1. /\ book' = [book EXCEPT !.pins = {}] /\ asked' = [asked EXCEPT !.banners = {}]
    BY <1>2 DEF ClearsAnnouncements
  <2>2. /\ book'.outages = book.outages /\ book'.mutes = book.mutes
        /\ book'.marks = book.marks /\ book'.pins = {} /\ asked'.banners = {}
        /\ asked'.events = asked.events /\ asked'.silences = asked.silences
    BY <1>1, <2>1 DEF BookInv
  <2>3. PinsInv'
    BY <2>2, FS_EmptySet DEF PinsInv, IsTableOf, OneIdEach
  <2>4. OutagesInv' /\ MarksInv' /\ MutesInv'
    BY <1>1, <2>2, OutagesKept, MarksKept, MutesKept
  <2>5. Minutes' /\ BookInv'
    BY <1>1, <2>1 DEF Minutes, BookInv
  <2> QED BY <1>1, <2>3, <2>4, <2>5, AnsweredDesk DEF AnnotationInv
<1>3. CASE ClearsSilences
  <2>1. /\ book' = [book EXCEPT !.mutes = {}] /\ asked' = [asked EXCEPT !.silences = {}]
    BY <1>3 DEF ClearsSilences
  <2>2. /\ book'.outages = book.outages /\ book'.mutes = {}
        /\ book'.marks = book.marks /\ book'.pins = book.pins /\ asked'.silences = {}
        /\ asked'.events = asked.events /\ asked'.banners = asked.banners
    BY <1>1, <2>1 DEF BookInv
  <2>3. MutesInv'
    BY <2>2 DEF MutesInv
  <2>4. OutagesInv' /\ MarksInv' /\ PinsInv'
    BY <1>1, <2>2, OutagesKept, MarksKept, PinsKept
  <2>5. Minutes' /\ BookInv'
    BY <1>1, <2>1 DEF Minutes, BookInv
  <2> QED BY <1>1, <2>3, <2>4, <2>5, AnsweredDesk DEF AnnotationInv
<1> QED BY <1>2, <1>3

\* The incident of a confirmed down names the latest marker of its lookback.
LEMMA ConfirmsKeeps == ASSUME AnnotationInv, Confirms PROVE AnnotationInv'
<1>1. PICK event \in {LatestEvent, NoEvent} :
          book' = [book EXCEPT !.outages =
              @ \cup {[id |-> NextId(@), started |-> minute, ended |-> None,
                       event |-> event, note |-> FALSE]}]
  BY DEF Confirms
<1> DEFINE new == [id |-> NextId(book.outages), started |-> minute, ended |-> None,
                   event |-> event, note |-> FALSE]
<1>2. BookInv /\ minute \in Nat /\ EVENT_LOOKBACK \in Nat /\ Year \in Nat /\ EVENT_LOOKBACK <= Year
  BY AnnotationAssumption DEF AnnotationInv, Minutes
<1>3. UNCHANGED <<minute, desk, asked>>
  BY DEF Confirms
<1>4. /\ book'.outages = book.outages \cup {new} /\ book'.mutes = book.mutes
      /\ book'.marks = book.marks /\ book'.pins = book.pins
  BY <1>1, <1>2 DEF BookInv
<1>5. /\ DOMAIN new = {"id", "started", "ended", "event", "note"}
      /\ new.started = minute /\ new.event = event
  OBVIOUS
<1> HIDE DEF new
<1>6. event # NoEvent =>
          /\ minute - event \in 0..EVENT_LOOKBACK
          /\ \E e \in asked.events : e.at = event
          /\ ~\E e \in asked.events : e.at > event /\ e.at < minute
  <2> DEFINE recent == {e \in book.marks : e.at <= minute /\ e.at >= minute - EVENT_LOOKBACK}
  <2> SUFFICES ASSUME event # NoEvent
               PROVE  /\ minute - event \in 0..EVENT_LOOKBACK
                      /\ \E e \in asked.events : e.at = event
                      /\ ~\E e \in asked.events : e.at > event /\ e.at < minute
    OBVIOUS
  <2>1. recent # {} /\ event = Latest(recent)[1].at
    BY DEF LatestEvent
  <2>2. IsTableOf(recent, MarkRows)
    <3>1. recent \in SUBSET book.marks
      OBVIOUS
    <3>2. IsTableOf(book.marks, MarkRows)
      BY DEF AnnotationInv, MarksInv
    <3> HIDE DEF recent
    <3> QED BY <3>1, <3>2, RowsLess
  <2> DEFINE latest == Latest(recent)[1]
  <2>3. latest \in recent /\ \A e \in recent : e.at <= latest.at
    <3> HIDE DEF recent
    <3> QED BY <2>1, <2>2, LatestIsWhole
  <2> HIDE DEF latest
  <2>4. event = latest.at
    BY <2>1 DEF latest
  <2>5. /\ latest \in asked.events /\ latest.at \in Int
        /\ \A e \in asked.events : e.at \in Int /\ (e.at >= minute - Year => e \in book.marks)
    <3>1. asked.events \subseteq MarkRows /\ book.marks \subseteq asked.events
      BY DEF AnnotationInv, MarksInv
    <3>2. \A e \in asked.events : e.at \in Int
      BY <3>1, MarksHaveTimes
    <3>3. \A e \in asked.events : e.at >= minute - Year => e \in book.marks
      BY DEF AnnotationInv, MarksInv
    <3>4. latest \in asked.events
      BY <2>3, <3>1
    <3> QED BY <3>2, <3>3, <3>4
  <2>6. latest.at <= minute /\ latest.at >= minute - EVENT_LOOKBACK
    BY <2>3
  <2>7. ASSUME NEW e \in asked.events, e.at > event, e.at < minute
        PROVE  FALSE
    <3>1. e.at >= minute - EVENT_LOOKBACK /\ e.at >= minute - Year /\ e.at <= minute
      BY <1>2, <2>4, <2>5, <2>6, <2>7
    <3>2. e \in recent
      BY <2>5, <3>1
    <3> HIDE DEF recent
    <3> QED BY <2>3, <2>4, <2>5, <2>7, <3>2
  <2> HIDE DEF recent
  <2> QED BY <1>2, <2>4, <2>5, <2>6, <2>7
<1>7. OutagesInv'
  <2>1. \A o \in book'.outages : o \in book.outages \/ o = new
    BY <1>4
  <2> QED BY <1>2, <1>3, <1>5, <1>6, <2>1 DEF AnnotationInv, OutagesInv
<1>8. PinsInv' /\ MarksInv' /\ MutesInv'
  BY <1>3, <1>4, PinsKept, MarksKept, MutesKept
<1>9. Minutes' /\ BookInv' /\ DeskInv'
  BY <1>1, <1>2, <1>3 DEF AnnotationInv, Minutes, BookInv, DeskInv, Doing
<1> QED BY <1>7, <1>8, <1>9 DEF AnnotationInv

\* A recovery closes its incident, which goes on naming its marker.
LEMMA RecoversKeeps ==
    ASSUME AnnotationInv, NEW o \in book.outages, Recovers(o) PROVE AnnotationInv'
<1> DEFINE new == [o EXCEPT !.ended = minute]
<1>1. /\ book' = [book EXCEPT !.outages = (@ \ {o}) \cup {new}]
      /\ UNCHANGED <<minute, desk, asked>>
  BY DEF Recovers
<1>2. BookInv /\ minute \in Nat
  BY DEF AnnotationInv, Minutes
<1>3. DOMAIN new = DOMAIN o /\ new.started = o.started /\ new.event = o.event
  BY DEF AnnotationInv, OutagesInv
<1> HIDE DEF new
<1>4. /\ book'.outages = (book.outages \ {o}) \cup {new} /\ book'.mutes = book.mutes
      /\ book'.marks = book.marks /\ book'.pins = book.pins
  BY <1>1, <1>2 DEF BookInv
<1>5. OutagesInv'
  BY <1>1, <1>3, <1>4 DEF AnnotationInv, OutagesInv
<1>6. PinsInv' /\ MarksInv' /\ MutesInv'
  BY <1>1, <1>4, PinsKept, MarksKept, MutesKept
<1>7. Minutes' /\ BookInv' /\ DeskInv'
  BY <1>1, <1>2 DEF AnnotationInv, Minutes, BookInv, DeskInv, Doing
<1> QED BY <1>5, <1>6, <1>7 DEF AnnotationInv

\* An event pushed by a script is a marker like the one of the command line.
LEMMA PushedKeeps == ASSUME AnnotationInv, Pushed PROVE AnnotationInv'
<1>1. BookInv /\ minute \in Nat
  BY DEF AnnotationInv, Minutes
<1>2. /\ UNCHANGED <<minute, desk, asked>> /\ BookInv'
      /\ book'.outages = book.outages /\ book'.mutes = book.mutes
      /\ book'.marks = book.marks /\ book'.pins = book.pins
  BY <1>1 DEF Pushed, BookInv
<1>3. PinsInv' /\ MarksInv' /\ MutesInv' /\ OutagesInv'
  BY <1>2, PinsKept, MarksKept, MutesKept, OutagesKept
<1> QED BY <1>1, <1>2, <1>3 DEF AnnotationInv, Minutes, DeskInv, Doing

\* The pruner takes what has expired, or what no lookback reaches.
LEMMA PrunesKeeps ==
    ASSUME AnnotationInv, NEW i \in DOMAIN Tables, NEW at \in {minute - 1, minute},
           Prunes(Tables[i], at)
    PROVE  AnnotationInv'
<1> DEFINE table == Tables[i]
<1>1. BookInv /\ minute \in Nat /\ Year \in Nat /\ at \in Int
  BY AnnotationAssumption DEF AnnotationInv, Minutes
<1>2. table \in {"outages", "marks", "alerts", "pins", "mutes"}
  BY DEF Tables
<1> HIDE DEF table
<1>3. /\ at <= minute /\ book' = [book EXCEPT ![table] = @ \ Stale(table, at)]
      /\ UNCHANGED <<minute, desk, asked>>
  BY DEF Prunes, table
<1>4. /\ BookInv' /\ book'[table] = book[table] \ Stale(table, at)
      /\ \A u \in DOMAIN book : u # table => book'[u] = book[u]
  BY <1>1, <1>2, <1>3 DEF BookInv
<1>5. DeskInv' /\ Minutes'
  BY <1>1, <1>3 DEF AnnotationInv, DeskInv, Minutes, Doing
<1>6. CASE table = "outages"
  <2>1. /\ book'.outages \subseteq book.outages /\ book'.mutes = book.mutes
        /\ book'.marks = book.marks /\ book'.pins = book.pins
    BY <1>1, <1>4, <1>6 DEF BookInv
  <2>2. OutagesInv'
    BY <1>3, <2>1 DEF AnnotationInv, OutagesInv
  <2> QED BY <1>3, <1>4, <1>5, <2>1, <2>2, PinsKept, MarksKept, MutesKept DEF AnnotationInv
<1>7. CASE table = "marks"
  <2>1. /\ book'.marks = book.marks \ {e \in book.marks : e.at < at - Year}
        /\ book'.mutes = book.mutes
        /\ book'.outages = book.outages /\ book'.pins = book.pins
    BY <1>1, <1>4, <1>7 DEF BookInv, Stale
  <2>2. IsTableOf(book'.marks, MarkRows)
    BY <2>1, RowsLess DEF AnnotationInv, MarksInv
  <2>3. MarksInv'
    <3>1. \A e \in asked.events : e.at \in Int
      <4>1. asked.events \subseteq MarkRows
        BY DEF AnnotationInv, MarksInv
      <4> QED BY <4>1, MarksHaveTimes
    <3>2. \A e \in asked.events : e.at >= minute - Year => ~(e.at < at - Year)
      BY <1>1, <1>3, <3>1
    <3> QED BY <1>3, <2>1, <2>2, <3>2 DEF AnnotationInv, MarksInv
  <2> QED BY <1>3, <1>4, <1>5, <2>1, <2>3, PinsKept, OutagesKept, MutesKept DEF AnnotationInv
<1>8. CASE table = "alerts"
  <2>1. /\ book'.marks = book.marks /\ book'.mutes = book.mutes
        /\ book'.outages = book.outages /\ book'.pins = book.pins
    BY <1>1, <1>4, <1>8 DEF BookInv
  <2> QED
    BY <1>3, <1>4, <1>5, <2>1, PinsKept, MarksKept, OutagesKept, MutesKept DEF AnnotationInv
<1>9. CASE table = "pins"
  <2>1. /\ book'.pins = book.pins \ {p \in book.pins : p.until # None /\ p.until < at}
        /\ book'.mutes = book.mutes
        /\ book'.outages = book.outages /\ book'.marks = book.marks
    BY <1>1, <1>4, <1>9 DEF BookInv, Stale
  <2>2. IsTableOf(book'.pins, PinRows)
    BY <2>1, RowsLess DEF AnnotationInv, PinsInv
  <2>3. PinsInv'
    <3>1. \A b \in asked.banners : b.until \in Int
      BY DEF AnnotationInv, PinsInv, PinRows
    <3>2. \A b \in asked.banners : InForce(b.until) => ~(b.until # None /\ b.until < at)
      BY <1>1, <1>3, <3>1 DEF InForce
    <3> QED BY <1>3, <2>1, <2>2, <3>2 DEF AnnotationInv, PinsInv, InForce
  <2> QED BY <1>3, <1>4, <1>5, <2>1, <2>3, MarksKept, OutagesKept, MutesKept DEF AnnotationInv
<1>10. CASE table = "mutes"
  <2>1. /\ book'.mutes = book.mutes \ {m \in book.mutes : m.until < at}
        /\ book'.pins = book.pins
        /\ book'.outages = book.outages /\ book'.marks = book.marks
    BY <1>1, <1>4, <1>10 DEF BookInv, Stale
  <2>2. MutesInv'
    <3>1. ASSUME NEW s \in asked.silences, s.until > minute
          PROVE  HasItsRows(s, book'.mutes)
      <4>1. s.until \in Nat /\ HasItsRows(s, book.mutes)
        BY <3>1 DEF AnnotationInv, MutesInv
      <4>2. ~(s.until < at)
        BY <1>1, <1>3, <3>1, <4>1
      <4>3. \A m \in book.mutes : m.until = s.until => m \in book'.mutes
        BY <2>1, <4>2
      <4> QED BY <4>1, <4>3 DEF HasItsRows
    <3> QED BY <1>3, <2>1, <3>1 DEF AnnotationInv, MutesInv
  <2> QED BY <1>3, <1>4, <1>5, <2>1, <2>2, MarksKept, OutagesKept, PinsKept DEF AnnotationInv
<1> QED BY <1>2, <1>6, <1>7, <1>8, <1>9, <1>10

\* Every step of every door, of the loop and of the pruner keeps the invariant.
LEMMA AnnotationInvHolds == AnnotationSpec => []AnnotationInv
<1>1. AnnotationInv /\ [AnnotationsNext]_annotationVars => AnnotationInv'
  <2> SUFFICES ASSUME AnnotationInv, [AnnotationsNext]_annotationVars PROVE AnnotationInv'
    OBVIOUS
  <2>1. ASSUME UNCHANGED <<minute, book, asked>>, DeskInv' PROVE AnnotationInv'
    BY <2>1, TimeKeeps DEF AnnotationInv, Minutes
  <2>2. ASSUME NEW line \in Lines, Types(line) PROVE AnnotationInv'
    BY <2>1, <2>2, ValidatesKeepsDesk DEF Types
  <2>3. CASE WriteFails
    BY <2>1, <2>3, AnsweredDesk DEF WriteFails
  <2>4. CASE Passes
    <3>1. minute' \in Nat /\ minute <= minute' /\ UNCHANGED <<book, asked, desk>>
      BY <2>4 DEF Passes, AnnotationInv, Minutes
    <3> QED BY <3>1, TimeKeeps DEF AnnotationInv, DeskInv, Doing
  <2>5. CASE Look \/ ReadsOn \/ UNCHANGED annotationVars
    <3>1. UNCHANGED <<minute, book, desk, asked>>
      BY <2>5 DEF Look, ReadsOn, annotationVars
    <3> QED BY <2>1, <3>1 DEF AnnotationInv, DeskInv, Doing
  <2> QED
    BY <2>2, <2>3, <2>4, <2>5, PinsKeeps, MarksKeeps, SilencesKeeps, AnnotatesKeeps, ClearsKeep,
       ConfirmsKeeps, RecoversKeeps, PushedKeeps, PrunesKeeps DEF AnnotationsNext, Recorded
<1> QED BY <1>1, AnnotationInvInit, PTL DEF AnnotationSpec

\* For any ids, requests, clocks and lookback (db/annotations.rs, annotate.rs and
\* the pruner): what an operator was told is recorded is what counts. A monitor is
\* muted exactly while an accepted silence that covers it is in force, a banner is up
\* exactly while its announcement is, and the marker an incident names was accepted,
\* lies within the lookback and is the latest before it began.
THEOREM AnnotationsAreKeptHolds == AnnotationSpec => []AnnotationsAreKept
<1>1. AnnotationInv => AnnotationsAreKept
  <2> SUFFICES ASSUME AnnotationInv PROVE AnnotationsAreKept
    OBVIOUS
  <2>0. minute \in Nat
    BY DEF AnnotationInv, Minutes
  <2>1. ASSUME NEW id \in MonitorSet \cup WatchedNodes
        PROVE  IsSilenced(id) <=> \E s \in asked.silences : Covered(s, id) /\ InForce(s.until)
    <3>1. ASSUME NEW mute \in book.mutes, mute.target \in {id, "*"}, mute.until > minute
          PROVE  \E s \in asked.silences : Covered(s, id) /\ InForce(s.until)
      <4>1. PICK s \in asked.silences : Mutes(mute, s)
        BY DEF AnnotationInv, MutesInv
      <4>2. InForce(s.until)
        BY <3>1, <4>1 DEF Mutes, InForce
      <4>3. CASE s.covers = <<"all">>
        BY <4>2, <4>3 DEF Covered
      <4>4. CASE s.covers # <<"all">>
        <5>1. mute.target \in ToSet(s.covers) /\ NamesOnlyKnown(s.covers)
          BY <4>1, <4>4 DEF Mutes, AnnotationInv, MutesInv
        <5>2. mute.target \in MonitorSet \cup WatchedNodes
          BY <4>4, <5>1 DEF NamesOnlyKnown, IsSilenceable, ToSet
        <5>3. mute.target = id
          BY <3>1, <5>2, AnnotationAssumption
        <5> QED BY <4>2, <5>1, <5>3 DEF Covered
      <4> QED BY <4>3, <4>4
    <3>2. ASSUME NEW s \in asked.silences, Covered(s, id), InForce(s.until)
          PROVE  IsSilenced(id)
      <4>1. s.until > minute /\ HasItsRows(s, book.mutes)
        BY <3>2 DEF InForce, None, AnnotationInv, MutesInv
      <4> QED BY <3>2, <4>1 DEF HasItsRows, Covered, IsSilenced
    <3> QED BY <3>1, <3>2 DEF IsSilenced
  <2>2. ToSet(ActiveAnnouncements) = {b \in asked.banners : InForce(b.until)}
    <3> DEFINE active == {p \in book.pins : InForce(p.until)}
    <3>1. IsTableOf(active, PinRows)
      <4>1. active \in SUBSET book.pins
        OBVIOUS
      <4> HIDE DEF active
      <4> QED BY <4>1, RowsLess DEF AnnotationInv, PinsInv
    <3>2. ToSet(Latest(active)) = active
      <4> HIDE DEF active
      <4> QED BY <3>1, LatestIsWhole
    <3>3. active = {b \in asked.banners : InForce(b.until)}
      BY DEF AnnotationInv, PinsInv
    <3> QED BY <3>2, <3>3 DEF ActiveAnnouncements
  <2>3. \A o \in book.outages : o.event # NoEvent =>
          /\ o.started - o.event \in 0..EVENT_LOOKBACK
          /\ \E e \in asked.events : e.at = o.event
          /\ ~\E e \in asked.events : e.at > o.event /\ e.at < o.started
    BY DEF AnnotationInv, OutagesInv
  <2> QED BY <2>1, <2>2, <2>3 DEF AnnotationsAreKept
<1> QED BY <1>1, AnnotationInvHolds, PTL

(* The timeline *)

\* The rows of tables have numbers and times, and are not without end.
HasTimes(tables) ==
    /\ DOMAIN tables = {"pins", "marks", "mutes", "outages", "alerts"}
    /\ \A table \in DOMAIN tables :
          /\ IsFiniteSet(tables[table])
          /\ \A row \in tables[table] : row.id \in Nat
    /\ \A row \in tables.outages : row.started \in Int /\ row.ended \in Int
    /\ \A table \in DOMAIN tables \ {"outages"} : \A row \in tables[table] : row.at \in Int

\* The moments there are.
EveryMoment == [kind : ToSet(Kinds), at : Int, id : Nat]

\* The images of a finite set.
LEMMA ImageIsFinite ==
    ASSUME NEW S, IsFiniteSet(S), NEW f, S \subseteq DOMAIN f
    PROVE  IsFiniteSet({f[x] : x \in S})
<1> DEFINE T == {f[x] : x \in S}
           g == [x \in S |-> f[x]]
<1>1. g \in Surjection(S, T)
  BY DEF Surjection
<1> HIDE DEF g
<1> QED BY <1>1, FS_Surjection

LEMMA KindsAre ==
    ToSet(Kinds) = {"alert", "announce", "down", "event", "recovered", "silence"}
  BY DEF ToSet, Kinds

\* A kind has a rank of its own.
LEMMA RanksDiffer ==
    /\ \A kind \in ToSet(Kinds) : RankOf(kind) \in 1..6
    /\ \A a, b \in ToSet(Kinds) : RankOf(a) = RankOf(b) => a = b
<1>1. ASSUME NEW kind \in ToSet(Kinds)
      PROVE  RankOf(kind) \in DOMAIN Kinds /\ Kinds[RankOf(kind)] = kind
  <2>1. \E r \in DOMAIN Kinds : Kinds[r] = kind
    BY DEF ToSet
  <2> QED BY <2>1 DEF RankOf
<1>2. DOMAIN Kinds = 1..6
  BY DEF Kinds
<1> QED BY <1>1, <1>2

\* The moments of tables are not without end.
LEMMA MomentsAre ==
    ASSUME NEW tables, HasTimes(tables), NEW since
    PROVE  /\ IsFiniteSet(Moments(tables, since))
           /\ Moments(tables, since) \subseteq EveryMoment
<1> DEFINE down == {Entry("down", o.started, o.id) : o \in tables.outages}
           over == {x \in tables.outages : x.ended # None}
           up == {Entry("recovered", o.ended, o.id) : o \in over}
           event == {Entry("event", e.at, e.id) : e \in tables.marks}
           alert == {Entry("alert", a.at, a.id) : a \in tables.alerts}
           announce == {Entry("announce", p.at, p.id) : p \in tables.pins}
           silence == {Entry("silence", m.at, m.id) : m \in tables.mutes}
           all == down \cup up \cup event \cup alert \cup announce \cup silence
<1>1. /\ IsFiniteSet(tables.outages) /\ IsFiniteSet(tables.marks) /\ IsFiniteSet(tables.alerts)
      /\ IsFiniteSet(tables.pins) /\ IsFiniteSet(tables.mutes)
  BY DEF HasTimes
<1>2. IsFiniteSet(down) /\ down \subseteq EveryMoment
  <2> DEFINE f == [o \in tables.outages |-> Entry("down", o.started, o.id)]
  <2>1. IsFiniteSet({f[o] : o \in tables.outages})
    BY <1>1, ImageIsFinite
  <2>2. \A x \in tables.outages : f[x] \in EveryMoment
    BY KindsAre DEF HasTimes, Entry, EveryMoment
  <2>3. down = {f[x] : x \in tables.outages}
    OBVIOUS
  <2> HIDE DEF f, down
  <2> QED BY <2>1, <2>2, <2>3
<1>3. IsFiniteSet(up) /\ up \subseteq EveryMoment
  <2> DEFINE f == [o \in over |-> Entry("recovered", o.ended, o.id)]
  <2>1. IsFiniteSet(over)
    BY <1>1, FS_Subset
  <2>2. IsFiniteSet({f[o] : o \in over})
    <3> HIDE DEF over
    <3> QED BY <2>1, ImageIsFinite
  <2>3. \A x \in over : f[x] \in EveryMoment
    BY KindsAre DEF HasTimes, Entry, EveryMoment
  <2>4. up = {f[x] : x \in over}
    OBVIOUS
  <2> HIDE DEF f, up, over
  <2> QED BY <2>2, <2>3, <2>4
<1>4. IsFiniteSet(event) /\ event \subseteq EveryMoment
  <2> DEFINE f == [e \in tables.marks |-> Entry("event", e.at, e.id)]
  <2>1. IsFiniteSet({f[e] : e \in tables.marks})
    BY <1>1, ImageIsFinite
  <2>2. \A x \in tables.marks : f[x] \in EveryMoment
    BY KindsAre DEF HasTimes, Entry, EveryMoment
  <2>3. event = {f[x] : x \in tables.marks}
    OBVIOUS
  <2> HIDE DEF f, event
  <2> QED BY <2>1, <2>2, <2>3
<1>5. IsFiniteSet(alert) /\ alert \subseteq EveryMoment
  <2> DEFINE f == [a \in tables.alerts |-> Entry("alert", a.at, a.id)]
  <2>1. IsFiniteSet({f[a] : a \in tables.alerts})
    BY <1>1, ImageIsFinite
  <2>2. \A x \in tables.alerts : f[x] \in EveryMoment
    BY KindsAre DEF HasTimes, Entry, EveryMoment
  <2>3. alert = {f[x] : x \in tables.alerts}
    OBVIOUS
  <2> HIDE DEF f, alert
  <2> QED BY <2>1, <2>2, <2>3
<1>6. IsFiniteSet(announce) /\ announce \subseteq EveryMoment
  <2> DEFINE f == [p \in tables.pins |-> Entry("announce", p.at, p.id)]
  <2>1. IsFiniteSet({f[p] : p \in tables.pins})
    BY <1>1, ImageIsFinite
  <2>2. \A x \in tables.pins : f[x] \in EveryMoment
    BY KindsAre DEF HasTimes, Entry, EveryMoment
  <2>3. announce = {f[x] : x \in tables.pins}
    OBVIOUS
  <2> HIDE DEF f, announce
  <2> QED BY <2>1, <2>2, <2>3
<1>7. IsFiniteSet(silence) /\ silence \subseteq EveryMoment
  <2> DEFINE f == [m \in tables.mutes |-> Entry("silence", m.at, m.id)]
  <2>1. IsFiniteSet({f[m] : m \in tables.mutes})
    BY <1>1, ImageIsFinite
  <2>2. \A x \in tables.mutes : f[x] \in EveryMoment
    BY KindsAre DEF HasTimes, Entry, EveryMoment
  <2>3. silence = {f[x] : x \in tables.mutes}
    OBVIOUS
  <2> HIDE DEF f, silence
  <2> QED BY <2>1, <2>2, <2>3
<1>8. Moments(tables, since) \subseteq all
  BY DEF Moments
<1> HIDE DEF down, up, event, alert, announce, silence
<1>9. IsFiniteSet(all) /\ all \subseteq EveryMoment
  BY <1>2, <1>3, <1>4, <1>5, <1>6, <1>7, FS_Union
<1> QED BY <1>8, <1>9, FS_Subset

\* The order of the timeline, which leaves no two moments level.
LEMMA SoonerIsAnOrder ==
    /\ \A a \in EveryMoment : ~Sooner(a, a)
    /\ \A a, b, c \in EveryMoment : Sooner(a, b) /\ Sooner(b, c) => Sooner(a, c)
    /\ \A a, b \in EveryMoment : a = b \/ Sooner(a, b) \/ Sooner(b, a)
<1>1. \A a \in EveryMoment : /\ a.at \in Int /\ a.id \in Int /\ a.kind \in ToSet(Kinds)
                             /\ RankOf(a.kind) \in Int
  BY RanksDiffer DEF EveryMoment
<1>2. \A a, b \in EveryMoment : a.at = b.at /\ a.id = b.id /\ a.kind = b.kind => a = b
  BY DEF EveryMoment
<1>3. \A a, b \in EveryMoment : RankOf(a.kind) = RankOf(b.kind) => a.kind = b.kind
  BY <1>1, RanksDiffer
<1>4. \A a \in EveryMoment : ~Sooner(a, a)
  BY <1>1 DEF Sooner
<1>5. \A a, b, c \in EveryMoment : Sooner(a, b) /\ Sooner(b, c) => Sooner(a, c)
  BY <1>1 DEF Sooner
<1>6. \A a, b \in EveryMoment : a = b \/ Sooner(a, b) \/ Sooner(b, a)
  BY <1>1, <1>2, <1>3 DEF Sooner
<1> QED BY <1>4, <1>5, <1>6

\* What is shown: all the moments, or the soonest of them.
LEMMA MergeIsWhole ==
    ASSUME NEW tables, HasTimes(tables), NEW since, ShowLimit \in Nat,
           NEW entries, entries = Merge(tables, since)
    PROVE  /\ \A e \in Moments(tables, since) :
                 \/ e \in ToSet(entries)
                 \/ /\ Len(entries) = ShowLimit
                    /\ \A i \in DOMAIN entries : entries[i].at >= e.at
           /\ \A i, j \in DOMAIN entries : i < j => entries[i].at >= entries[j].at
<1> DEFINE S == Moments(tables, since)
           R == {pair \in S \X S : Sooner(pair[1], pair[2])}
           L == Ordered(S, Sooner)
           m == IF ShowLimit < Len(L) THEN ShowLimit ELSE Len(L)
<1>1. IsFiniteSet(S) /\ S \subseteq EveryMoment
  BY MomentsAre
<1>2. \A a, b \in S : <<a, b>> \in R <=> Sooner(a, b)
  OBVIOUS
<1>3. /\ L \in Seq(S) /\ Len(L) \in Nat /\ ToSet(L) = S
      /\ \A i, j \in 1..Len(L) : i < j => <<L[i], L[j]>> \in R
  <2>1. L = InOrderOf(S, R)
    <3>1. L = [i \in 1..Cardinality(S) |->
                CHOOSE x \in S : Cardinality({y \in S : Sooner(y, x)}) = i - 1]
      BY DEF Ordered
    <3>2. \A x \in S : {y \in S : Sooner(y, x)} = {y \in S : <<y, x>> \in R}
      BY <1>2
    <3> HIDE DEF S, R
    <3> QED BY <3>1, <3>2 DEF InOrderOf
  <2>2. /\ \A a \in S : <<a, a>> \notin R
        /\ \A a, b, c \in S : <<a, b>> \in R /\ <<b, c>> \in R => <<a, c>> \in R
        /\ \A a, b \in S : a = b \/ <<a, b>> \in R \/ <<b, a>> \in R
    <3> HIDE DEF S, R
    <3> QED BY <1>1, <1>2, SoonerIsAnOrder
  <2> HIDE DEF S, R, L
  <2> QED BY <1>1, <2>1, <2>2, InOrder
<1>4. \A i \in 1..Len(L) : L[i] \in S /\ L[i].at \in Int
  <2> HIDE DEF S, R, L
  <2> QED BY <1>1, <1>3 DEF EveryMoment
<1>5. ASSUME NEW i \in 1..Len(L), NEW j \in 1..Len(L), i < j
      PROVE  L[i].at >= L[j].at
  <2> HIDE DEF S, R, L
  <2>1. Sooner(L[i], L[j])
    BY <1>2, <1>3, <1>4, <1>5
  <2>2. L[i].at \in Int /\ L[j].at \in Int
    BY <1>4
  <2> QED BY <2>1, <2>2 DEF Sooner
<1>6. entries = SubSeq(L, 1, m)
  BY DEF Merge, First
<1> HIDE DEF S, R, L
<1>7. m \in Nat /\ m <= Len(L) /\ (m = Len(L) \/ m = ShowLimit)
  BY <1>3
<1> HIDE DEF m
<1>8. /\ Len(entries) = m /\ DOMAIN entries = 1..m
      /\ \A i \in 1..m : entries[i] = L[i] /\ i \in 1..Len(L)
  <2>1. \A i \in 1..m : L[i] \in S /\ i \in 1..Len(L)
    BY <1>3, <1>4, <1>7
  <2>2. /\ entries \in Seq(S) /\ Len(entries) = (IF 1 <= m THEN m - 1 + 1 ELSE 0)
        /\ \A i \in 1..(m - 1 + 1) : entries[i] = L[1 + i - 1]
    BY <1>6, <1>7, <2>1, SubSeqProperties
  <2>3. Len(entries) = m /\ m - 1 + 1 = m
    BY <1>7, <2>2
  <2>4. DOMAIN entries = 1..m
    BY <2>2, <2>3
  <2> QED BY <1>7, <2>1, <2>2, <2>3, <2>4
<1>9. \A i, j \in DOMAIN entries : i < j => entries[i].at >= entries[j].at
  BY <1>5, <1>8
<1>10. ASSUME NEW e \in S, e \notin ToSet(entries)
       PROVE  /\ Len(entries) = ShowLimit
              /\ \A i \in DOMAIN entries : entries[i].at >= e.at
  <2>1. PICK k \in 1..Len(L) : L[k] = e
    BY <1>3 DEF ToSet
  <2>2. k \notin 1..m
    BY <1>8, <1>10, <2>1 DEF ToSet
  <2>3. k > m /\ m = ShowLimit
    BY <1>3, <1>7, <2>2
  <2>4. \A i \in 1..m : i < k
    BY <1>7, <2>3
  <2> QED BY <1>5, <1>8, <2>1, <2>3, <2>4
<1>11. \A e \in Moments(tables, since) : e \in S
  BY DEF S
<1> QED BY <1>9, <1>10, <1>11

\* The place in the reading of the table that a moment comes from.
TableOf(kind) ==
    CASE kind \in {"down", "recovered"} -> 1
      [] kind = "event"    -> 2
      [] kind = "alert"    -> 3
      [] kind = "announce" -> 4
      [] kind = "silence"  -> 5
      [] OTHER -> 6

\* A moment that stands, once its table is read, is in what is read; those in what was
\* read from the other tables stay there.
LEMMA ReadIsWhole ==
    ASSUME HasTimes(book), HasTimes(reader.got), reader.next \in 1..5, reader.since \in Int,
           NEW table, table = Tables[reader.next],
           NEW got, got = [reader.got EXCEPT ![table] = Fetched(table, reader.since)]
    PROVE  /\ HasTimes(got)
           /\ \A e \in Moments(book, reader.since) \ LeftOut(table) :
                 TableOf(e.kind) = reader.next => e \in Moments(got, reader.since)
           /\ \A e \in Moments(reader.got, reader.since) :
                 TableOf(e.kind) < reader.next => e \in Moments(got, reader.since)
<1> DEFINE since == reader.since
           old == reader.got
           all == {"pins", "marks", "mutes", "outages", "alerts"}
<1>1. /\ DOMAIN book = all /\ DOMAIN old = all
      /\ table \in {"outages", "marks", "alerts", "pins", "mutes"}
      /\ reader.next = 1 <=> table = "outages"
      /\ reader.next = 2 <=> table = "marks"
      /\ reader.next = 3 <=> table = "alerts"
      /\ reader.next = 4 <=> table = "pins"
      /\ reader.next = 5 <=> table = "mutes"
  BY DEF HasTimes, Tables
<1>2. /\ DOMAIN got = all /\ got[table] = Fetched(table, since)
      /\ \A other \in all \ {table} : got[other] = old[other]
  BY <1>1
<1>3. Fetched(table, since) \subseteq book[table]
  BY <1>1 DEF Fetched, Foremost
<1>4. HasTimes(got)
  <2>1. IsFiniteSet(got[table])
    BY <1>1, <1>2, <1>3, FS_Subset DEF HasTimes
  <2> QED BY <1>1, <1>2, <1>3, <2>1 DEF HasTimes
<1>5. ASSUME NEW e \in Moments(old, since), TableOf(e.kind) < reader.next
      PROVE  e \in Moments(got, since)
  <2>1. CASE table = "outages"
    BY <1>1, <1>5, <2>1 DEF Moments, Entry, TableOf
  <2>2. CASE table = "marks"
    <3>1. got.outages = old.outages
      BY <1>2, <2>2
    <3> QED BY <1>1, <1>5, <2>2, <3>1 DEF Moments, Entry, TableOf
  <2>3. CASE table = "alerts"
    <3>1. got.outages = old.outages /\ got.marks = old.marks
      BY <1>2, <2>3
    <3> QED BY <1>1, <1>5, <2>3, <3>1 DEF Moments, Entry, TableOf
  <2>4. CASE table = "pins"
    <3>1. got.outages = old.outages /\ got.marks = old.marks /\ got.alerts = old.alerts
      BY <1>2, <2>4
    <3> QED BY <1>1, <1>5, <2>4, <3>1 DEF Moments, Entry, TableOf
  <2>5. CASE table = "mutes"
    <3>1. /\ got.outages = old.outages /\ got.marks = old.marks /\ got.alerts = old.alerts
          /\ got.pins = old.pins
      BY <1>2, <2>5
    <3> QED BY <1>1, <1>5, <2>5, <3>1 DEF Moments, Entry, TableOf
  <2> QED BY <1>1, <2>1, <2>2, <2>3, <2>4, <2>5
<1>6. ASSUME NEW e \in Moments(book, since), e \notin LeftOut(table), TableOf(e.kind) = reader.next
      PROVE  e \in Moments(got, since)
  <2>1. CASE table = "outages"
    <3>1. ASSUME NEW o \in Foremost("outages"),
                 o.started >= since \/ (o.ended # None /\ o.ended >= since)
          PROVE  o \in got.outages
      <4>1. o \in Fetched("outages", since)
        BY <3>1 DEF Fetched
      <4>2. got.outages = Fetched("outages", since)
        BY <1>1, <1>2, <2>1
      <4> QED BY <4>1, <4>2
    <3>2. PICK o \in book.outages :
             /\ e.at >= since
             /\ \/ e = Entry("down", o.started, o.id)
                \/ e = Entry("recovered", o.ended, o.id) /\ o.ended # None
      BY <1>1, <1>6, <2>1 DEF Moments, Entry, TableOf
    <3>3. o \in Foremost("outages")
      <4>1. SUFFICES ASSUME o \in book.outages \ Foremost("outages") PROVE FALSE
        OBVIOUS
      <4> DEFINE beyond == [Empty EXCEPT !["outages"] = book["outages"] \ Foremost("outages")]
      <4>2. beyond.outages = book.outages \ Foremost("outages")
        BY DEF Empty
      <4>3. LeftOut(table) = Moments(beyond, since)
        BY <2>1 DEF LeftOut
      <4> HIDE DEF beyond
      <4>4. e \in Moments(beyond, since)
        BY <3>2, <4>1, <4>2 DEF Moments
      <4> QED BY <1>6, <4>3, <4>4
    <3>4. o.started >= since \/ (o.ended # None /\ o.ended >= since)
      BY <3>2 DEF Entry
    <3>5. o \in got.outages
      BY <3>1, <3>3, <3>4
    <3> QED BY <3>2, <3>5 DEF Moments
  <2>2. CASE table = "alerts"
    <3>1. got.alerts = {a \in Foremost("alerts") : a.at >= since}
      BY <1>2, <2>2 DEF Fetched
    <3>2. PICK a \in book.alerts : e.at >= since /\ e = Entry("alert", a.at, a.id)
      BY <1>1, <1>6, <2>2 DEF Moments, Entry, TableOf
    <3>3. a \in Foremost("alerts")
      <4>1. SUFFICES ASSUME a \in book.alerts \ Foremost("alerts") PROVE FALSE
        OBVIOUS
      <4> DEFINE beyond == [Empty EXCEPT !["alerts"] = book["alerts"] \ Foremost("alerts")]
      <4>2. beyond.alerts = book.alerts \ Foremost("alerts")
        BY DEF Empty
      <4>3. LeftOut(table) = Moments(beyond, since)
        BY <2>2 DEF LeftOut
      <4> HIDE DEF beyond
      <4>4. e \in Moments(beyond, since)
        BY <3>2, <4>1, <4>2 DEF Moments
      <4> QED BY <1>6, <4>3, <4>4
    <3>4. a \in got.alerts
      BY <3>1, <3>2, <3>3 DEF Entry
    <3> QED BY <3>2, <3>4 DEF Moments
  <2>3. CASE table = "marks"
    <3>1. got.marks = {row \in book.marks : row.at >= since}
      BY <1>2, <2>3 DEF Fetched
    <3> QED BY <1>1, <1>6, <2>3, <3>1 DEF Moments, Entry, TableOf
  <2>4. CASE table = "pins"
    <3>1. got.pins = {row \in book.pins : row.at >= since}
      BY <1>2, <2>4 DEF Fetched
    <3> QED BY <1>1, <1>6, <2>4, <3>1 DEF Moments, Entry, TableOf
  <2>5. CASE table = "mutes"
    <3>1. got.mutes = {row \in book.mutes : row.at >= since}
      BY <1>2, <2>5 DEF Fetched
    <3> QED BY <1>1, <1>6, <2>5, <3>1 DEF Moments, Entry, TableOf
  <2> QED BY <1>1, <2>1, <2>2, <2>3, <2>4, <2>5
<1> QED BY <1>4, <1>5, <1>6

(* The steps of the doors, of the daemon and of the timeline *)

\* A silence being written was typed.
WasTyped == Doing("silence") => desk.line \in Lines

\* While the timeline is read, the moments that stand are in the tables, and those of the
\* tables read so far are in what was read.
ReaderInv ==
    /\ DOMAIN reader = {"pc", "since", "next", "got", "entries"}
    /\ reader.pc = "reading" =>
          /\ reader.next \in 1..5 /\ reader.since \in Int /\ HasTimes(reader.got)
          /\ steady \subseteq Moments(book, reader.since)
          /\ \A e \in steady :
                TableOf(e.kind) < reader.next => e \in Moments(reader.got, reader.since)
    /\ TimelineIsWhole

TimelineInv == HasTimes(book) /\ WasTyped /\ ReaderInv

\* A moment comes from one of the five tables.
LEMMA ComeFromTables ==
    ASSUME NEW tables, NEW since, NEW e \in Moments(tables, since)
    PROVE  TableOf(e.kind) \in 1..5
<1>1. e.kind \in {"down", "recovered", "event", "alert", "announce", "silence"}
  BY DEF Moments, Entry
<1> QED BY <1>1 DEF TableOf

\* One table changes.
LEMMA TableChanges ==
    ASSUME HasTimes(book), NEW t \in DOMAIN book, NEW those, book' = [book EXCEPT ![t] = those],
           IsFiniteSet(those), \A row \in those : row.id \in Nat,
           t = "outages" => \A row \in those : row.started \in Int /\ row.ended \in Int,
           t # "outages" => \A row \in those : row.at \in Int
    PROVE  HasTimes(book')
<1>1. /\ DOMAIN book' = {"pins", "marks", "mutes", "outages", "alerts"}
      /\ book'[t] = those /\ \A u \in DOMAIN book : u # t => book'[u] = book[u]
      /\ DOMAIN book' = DOMAIN book
  BY DEF HasTimes
<1>2. /\ \A u \in DOMAIN book' : IsFiniteSet(book'[u]) /\ \A row \in book'[u] : row.id \in Nat
  BY <1>1 DEF HasTimes
<1>3. \A row \in book'.outages : row.started \in Int /\ row.ended \in Int
  BY <1>1 DEF HasTimes
<1>4. \A u \in DOMAIN book' \ {"outages"} : \A row \in book'[u] : row.at \in Int
  BY <1>1 DEF HasTimes
<1> QED BY <1>1, <1>2, <1>3, <1>4 DEF HasTimes

\* A row more, with the next number and the minute.
LEMMA RowJoins ==
    ASSUME HasTimes(book), minute \in Nat, NEW t \in DOMAIN book \ {"outages"},
           NEW row, row.id = NextId(book[t]), row.at = minute,
           book' = [book EXCEPT ![t] = book[t] \cup {row}]
    PROVE  HasTimes(book')
<1>1. IsFiniteSet(book[t]) /\ \A r \in book[t] : r.id \in Nat /\ r.at \in Int
  BY DEF HasTimes
<1>2. row.id \in Nat
  BY <1>1, GreatestId
<1>3. IsFiniteSet(book[t] \cup {row})
  BY <1>1, FS_AddElement
<1>4. /\ t \in DOMAIN book /\ t # "outages"
      /\ \A r \in book[t] \cup {row} : r.id \in Nat /\ r.at \in Int
  BY <1>1, <1>2
<1> DEFINE those == book[t] \cup {row}
<1> HIDE DEF those
<1>5. /\ book' = [book EXCEPT ![t] = those] /\ IsFiniteSet(those)
      /\ \A r \in those : r.id \in Nat /\ r.at \in Int
  BY <1>3, <1>4 DEF those
<1> QED BY <1>4, <1>5, TableChanges

\* Rows less.
LEMMA RowsLeave ==
    ASSUME HasTimes(book), NEW t \in DOMAIN book, NEW those \in SUBSET book[t],
           book' = [book EXCEPT ![t] = those]
    PROVE  HasTimes(book')
<1>1. IsFiniteSet(those) /\ \A row \in those : row.id \in Nat
  BY FS_Subset DEF HasTimes
<1>2. /\ t = "outages" => \A row \in those : row.started \in Int /\ row.ended \in Int
      /\ t # "outages" => \A row \in those : row.at \in Int
  BY DEF HasTimes
<1> QED BY <1>1, <1>2, TableChanges

\* The rows of a silence are so many, with the minute.
LEMMA SilencedRowsAre ==
    ASSUME HasTimes(book), minute \in Nat, NEW line \in Lines, line.what = "silence", NEW until
    PROVE  /\ IsFiniteSet(Rows(line, until))
           /\ \A row \in Rows(line, until) : row.id \in Nat /\ row.at \in Int
<1> DEFINE ids == ResolveIds(line.ids)
           row(i) == [id |-> NextId(book.mutes) + i - 1, target |-> ids[i], until |-> until,
                      at |-> minute]
           f == [i \in 1..Len(ids) |-> row(i)]
<1>1. Len(ids) \in Nat /\ DOMAIN ids = 1..Len(ids)
  <2>1. line.ids \in Seq(ToSet(line.ids))
    BY AnnotationAssumption
  <2>2. CASE line.ids = <<"all">>
    BY <2>2 DEF ResolveIds
  <2>3. CASE line.ids # <<"all">>
    BY <2>1, <2>3 DEF ResolveIds
  <2> QED BY <2>2, <2>3
<1>2. NextId(book.mutes) \in Nat
  <2>1. IsFiniteSet(book.mutes) /\ \A r \in book.mutes : r.id \in Nat
    BY DEF HasTimes
  <2> QED BY <2>1, GreatestId
<1>3. Rows(line, until) = {row(i) : i \in 1..Len(ids)}
  BY <1>1 DEF Rows
<1> HIDE DEF ids
<1>4. IsFiniteSet(1..Len(ids))
  BY <1>1, FS_Interval
<1>5. IsFiniteSet({f[i] : i \in 1..Len(ids)})
  <2>1. 1..Len(ids) \subseteq DOMAIN f
    OBVIOUS
  <2> HIDE DEF f
  <2> QED BY <1>4, <2>1, ImageIsFinite
<1>6. {f[i] : i \in 1..Len(ids)} = Rows(line, until)
  BY <1>3
<1>7. \A i \in 1..Len(ids) : row(i).id \in Nat /\ row(i).at \in Int
  BY <1>1, <1>2
<1> HIDE DEF f, row
<1> QED BY <1>3, <1>5, <1>6, <1>7

\* A note on incidents, or the end of one, keeps when they began.
LEMMA NotedRowsAre ==
    ASSUME AnnotationInv, HasTimes(book), NEW some \in SUBSET book.outages
    PROVE  LET noted == {[o EXCEPT !.note = TRUE] : o \in some}
           IN /\ IsFiniteSet(noted)
              /\ \A o \in noted : o.id \in Nat /\ o.started \in Int /\ o.ended \in Int
<1> DEFINE f == [o \in some |-> [o EXCEPT !.note = TRUE]]
<1>1. IsFiniteSet(some)
  BY FS_Subset DEF HasTimes
<1>2. IsFiniteSet({f[o] : o \in some})
  <2>1. some \subseteq DOMAIN f
    OBVIOUS
  <2> HIDE DEF f
  <2> QED BY <1>1, <2>1, ImageIsFinite
<1>3. {f[o] : o \in some} = {[o EXCEPT !.note = TRUE] : o \in some}
  OBVIOUS
<1>4. ASSUME NEW o \in some
      PROVE  LET n == [o EXCEPT !.note = TRUE]
             IN n.id \in Nat /\ n.started \in Int /\ n.ended \in Int
  <2>1. DOMAIN o = {"id", "started", "ended", "event", "note"}
    BY DEF AnnotationInv, OutagesInv
  <2>2. o.id \in Nat /\ o.started \in Int /\ o.ended \in Int
    BY DEF HasTimes
  <2> QED BY <2>1, <2>2
<1> HIDE DEF f
<1> QED BY <1>2, <1>3, <1>4

\* Whatever is recorded, the tables keep their form and the timeline is left alone.
LEMMA RecordedKeepsTimes ==
    ASSUME AnnotationInv, TimelineInv, Recorded
    PROVE  HasTimes(book') /\ WasTyped' /\ UNCHANGED reader
<1> DEFINE all == {"pins", "marks", "mutes", "outages", "alerts"}
<1>1. HasTimes(book) /\ minute \in Nat /\ DOMAIN book = all /\ WasTyped
  BY DEF TimelineInv, AnnotationInv, Minutes, HasTimes
<1>2. ASSUME NEW line \in Lines, Types(line)
      PROVE  HasTimes(book') /\ WasTyped' /\ UNCHANGED reader
  <2>1. UNCHANGED <<book, reader>> /\ Validates(line)
    BY <1>2 DEF Types
  <2>2. desk'.pc = "valid" => desk'.line = line
    BY <2>1 DEF Validates, Free
  <2> QED BY <1>1, <2>1, <2>2 DEF WasTyped, Doing
<1>3. ASSUME NEW answer, NEW count, desk' = Outcome(answer, count)
      PROVE  WasTyped'
  BY <1>3 DEF Outcome, Free, WasTyped, Doing
<1>4. CASE Pins
  <2>1. /\ book' = [book EXCEPT !["pins"] = book["pins"] \cup {PinRow}]
        /\ PinRow.id = NextId(book["pins"]) /\ PinRow.at = minute
    BY <1>1, <1>4 DEF Pins, PinRow
  <2>2. desk' = Outcome("accepted", 0) /\ UNCHANGED reader
    BY <1>4 DEF Pins
  <2> QED BY <1>1, <1>3, <2>1, <2>2, RowJoins
<1>5. CASE Marks
  <2>1. /\ book' = [book EXCEPT !["marks"] = book["marks"] \cup {MarkRow}]
        /\ MarkRow.id = NextId(book["marks"]) /\ MarkRow.at = minute
    BY <1>1, <1>5 DEF Marks, MarkRow
  <2>2. desk' = Outcome("accepted", 0) /\ UNCHANGED reader
    BY <1>5 DEF Marks
  <2> QED BY <1>1, <1>3, <2>1, <2>2, RowJoins
<1>6. CASE Silences
  <2> DEFINE new == Rows(desk.line, desk.until)
  <2>1. /\ book' = [book EXCEPT !["mutes"] = book["mutes"] \cup new]
        /\ desk' = Outcome("accepted", 0) /\ UNCHANGED reader
    BY <1>1, <1>6 DEF Silences
  <2>2. desk.line \in Lines /\ desk.line.what = "silence"
    BY <1>1, <1>6 DEF Silences, WasTyped, Doing
  <2>3. IsFiniteSet(new) /\ \A row \in new : row.id \in Nat /\ row.at \in Int
    BY <1>1, <2>2, SilencedRowsAre
  <2> HIDE DEF new
  <2>4. /\ IsFiniteSet(book["mutes"])
        /\ \A row \in book["mutes"] : row.id \in Nat /\ row.at \in Int
    BY <1>1 DEF HasTimes
  <2>5. IsFiniteSet(book["mutes"] \cup new)
    BY <2>3, <2>4, FS_Union
  <2>6. \A row \in book["mutes"] \cup new : row.id \in Nat /\ row.at \in Int
    BY <2>3, <2>4
  <2>7. HasTimes(book')
    BY <1>1, <2>1, <2>5, <2>6, TableChanges
  <2> QED BY <1>3, <2>1, <2>7
<1>7. CASE Annotates
  <2> DEFINE some == Noted(desk.id)
             noted == {[o EXCEPT !.note = TRUE] : o \in some}
             those == (book["outages"] \ some) \cup noted
  <2>1. book' = [book EXCEPT !["outages"] = those] /\ UNCHANGED reader
    BY <1>1, <1>7 DEF Annotates
  <2>2. WasTyped'
    BY <1>3, <1>7 DEF Annotates
  <2>3. IsFiniteSet(noted) /\ \A o \in noted : o.id \in Nat /\ o.started \in Int /\ o.ended \in Int
    <3>1. some \in SUBSET book.outages
      BY DEF Noted
    <3> HIDE DEF some
    <3> QED BY <1>1, <3>1, NotedRowsAre
  <2>4. /\ IsFiniteSet(book["outages"])
        /\ \A o \in book["outages"] : o.id \in Nat /\ o.started \in Int /\ o.ended \in Int
    BY <1>1 DEF HasTimes
  <2>5. IsFiniteSet(book["outages"] \ some)
    BY <2>4, FS_Subset
  <2> HIDE DEF noted, some
  <2>6. IsFiniteSet(those)
    BY <2>3, <2>5, FS_Union
  <2>7. \A o \in those : o.id \in Nat /\ o.started \in Int /\ o.ended \in Int
    BY <2>3, <2>4
  <2> HIDE DEF those
  <2>8. HasTimes(book')
    BY <1>1, <2>1, <2>6, <2>7, TableChanges
  <2> QED BY <2>1, <2>2, <2>8
<1>8. CASE ClearsAnnouncements
  <2>1. book' = [book EXCEPT !["pins"] = {}] /\ UNCHANGED reader /\ {} \in SUBSET book["pins"]
    BY <1>8 DEF ClearsAnnouncements
  <2>2. WasTyped'
    BY <1>3, <1>8 DEF ClearsAnnouncements
  <2> QED BY <1>1, <2>1, <2>2, RowsLeave
<1>9. CASE ClearsSilences
  <2>1. book' = [book EXCEPT !["mutes"] = {}] /\ UNCHANGED reader /\ {} \in SUBSET book["mutes"]
    BY <1>9 DEF ClearsSilences
  <2>2. WasTyped'
    BY <1>3, <1>9 DEF ClearsSilences
  <2> QED BY <1>1, <2>1, <2>2, RowsLeave
<1>10. CASE WriteFails
  BY <1>1, <1>3, <1>10 DEF WriteFails
<1>11. CASE Confirms
  <2>1. PICK event \in {LatestEvent, NoEvent} :
          book' = [book EXCEPT !["outages"] = book["outages"] \cup
                     {[id |-> NextId(book["outages"]), started |-> minute, ended |-> None,
                       event |-> event, note |-> FALSE]}]
    BY <1>1, <1>11 DEF Confirms
  <2> DEFINE row == [id |-> NextId(book["outages"]), started |-> minute, ended |-> None,
                     event |-> event, note |-> FALSE]
             those == book["outages"] \cup {row}
  <2>2. /\ IsFiniteSet(book["outages"])
        /\ \A o \in book["outages"] : o.id \in Nat /\ o.started \in Int /\ o.ended \in Int
    BY <1>1 DEF HasTimes
  <2>3. NextId(book["outages"]) \in Nat
    BY <2>2, GreatestId
  <2>4. row.id \in Nat /\ row.started \in Int /\ row.ended \in Int
    BY <1>1, <2>3 DEF None
  <2>5. book' = [book EXCEPT !["outages"] = those]
    BY <2>1
  <2> HIDE DEF row
  <2>6. IsFiniteSet(those)
    BY <2>2, FS_AddElement
  <2>7. \A o \in those : o.id \in Nat /\ o.started \in Int /\ o.ended \in Int
    BY <2>2, <2>4
  <2> HIDE DEF those
  <2>8. HasTimes(book')
    BY <1>1, <2>5, <2>6, <2>7, TableChanges
  <2> QED BY <1>1, <1>11, <2>8 DEF Confirms, WasTyped, Doing
<1>12. ASSUME NEW o \in book.outages, Recovers(o)
       PROVE  HasTimes(book') /\ WasTyped' /\ UNCHANGED reader
  <2> DEFINE over == [o EXCEPT !.ended = minute]
             those == (book["outages"] \ {o}) \cup {over}
  <2>1. book' = [book EXCEPT !["outages"] = those]
    BY <1>1, <1>12 DEF Recovers
  <2>2. /\ IsFiniteSet(book["outages"])
        /\ \A p \in book["outages"] : p.id \in Nat /\ p.started \in Int /\ p.ended \in Int
    BY <1>1 DEF HasTimes
  <2>3. over.id \in Nat /\ over.started \in Int /\ over.ended \in Int
    <3>1. DOMAIN o = {"id", "started", "ended", "event", "note"}
      BY DEF AnnotationInv, OutagesInv
    <3> QED BY <1>1, <2>2, <3>1
  <2> HIDE DEF over
  <2>4. IsFiniteSet(book["outages"] \ {o})
    BY <2>2, FS_Subset
  <2>5. IsFiniteSet(those)
    BY <2>4, FS_AddElement
  <2>6. \A p \in those : p.id \in Nat /\ p.started \in Int /\ p.ended \in Int
    BY <2>2, <2>3
  <2> HIDE DEF those
  <2>7. HasTimes(book')
    BY <1>1, <2>1, <2>5, <2>6, TableChanges
  <2> QED BY <1>1, <1>12, <2>7 DEF Recovers, WasTyped, Doing
<1>13. CASE Pushed
  <2> DEFINE row == [id |-> NextId(book["alerts"]), at |-> minute]
  <2>1. book' = [book EXCEPT !["alerts"] = book["alerts"] \cup {row}]
    BY <1>1, <1>13 DEF Pushed
  <2>2. row.id = NextId(book["alerts"]) /\ row.at = minute
    OBVIOUS
  <2> HIDE DEF row
  <2>3. HasTimes(book')
    BY <1>1, <2>1, <2>2, RowJoins
  <2> QED BY <1>1, <1>13, <2>3 DEF Pushed, WasTyped, Doing
<1>14. CASE Passes
  BY <1>1, <1>14 DEF Passes, WasTyped, Doing
<1>15. ASSUME NEW i \in DOMAIN Tables, NEW at \in {minute - 1, minute}, Prunes(Tables[i], at)
       PROVE  HasTimes(book') /\ WasTyped' /\ UNCHANGED reader
  <2> DEFINE table == Tables[i]
             those == book[table] \ Stale(table, at)
  <2>1. table \in all
    BY DEF Tables
  <2>2. book' = [book EXCEPT ![table] = those] /\ UNCHANGED <<desk, reader>>
    BY <1>1, <1>15, <2>1 DEF Prunes
  <2>3. those \in SUBSET book[table]
    OBVIOUS
  <2> HIDE DEF those, table
  <2>4. HasTimes(book')
    BY <1>1, <2>1, <2>2, <2>3, RowsLeave
  <2> QED BY <1>1, <2>2, <2>4 DEF WasTyped, Doing
<1> QED
  BY <1>2, <1>4, <1>5, <1>6, <1>7, <1>8, <1>9, <1>10, <1>11, <1>12, <1>13, <1>14, <1>15 DEF Recorded

\* The tables at the start.
LEMMA TimelineStarts == AnnotationsInit => TimelineInv
<1> SUFFICES ASSUME AnnotationsInit PROVE TimelineInv
  OBVIOUS
<1>1. /\ desk = Free /\ reader \in {Off, [Off EXCEPT !.pc = "idle"]}
  BY DEF AnnotationsInit
<1>2. WasTyped /\ ReaderInv
  BY <1>1 DEF Free, WasTyped, Doing, ReaderInv, Off, TimelineIsWhole
<1>3. HasTimes(book)
  <2>1. IsFiniteSet({}) /\ \A x : IsFiniteSet({x})
    BY FS_EmptySet, FS_Singleton
  <2>2. CASE book = Empty
    BY <2>1, <2>2 DEF Empty, HasTimes
  <2>3. CASE book # Empty
    <3> DEFINE pin == [id |-> 1, until |-> None, at |-> 1]
               mark == [id |-> 1, at |-> 1]
               mute == [id |-> 1, target |-> "*", until |-> 4, at |-> 1]
    <3>1. PICK ended \in {None, 1, 3} :
            book = [pins |-> {pin}, marks |-> {mark}, alerts |-> {mark}, mutes |-> {mute},
                    outages |-> {[id |-> 1, started |-> 0, ended |-> ended,
                                  event |-> NoEvent, note |-> FALSE]}]
      BY <2>3 DEF AnnotationsInit
    <3> DEFINE outage == [id |-> 1, started |-> 0, ended |-> ended,
                          event |-> NoEvent, note |-> FALSE]
    <3>2. /\ pin.id \in Nat /\ mark.id \in Nat /\ mute.id \in Nat /\ outage.id \in Nat
          /\ pin.at \in Int /\ mark.at \in Int /\ mute.at \in Int
          /\ outage.started \in Int /\ outage.ended \in Int
      BY DEF None
    <3>3. /\ DOMAIN book = {"pins", "marks", "mutes", "outages", "alerts"}
          /\ book["pins"] = {pin} /\ book["marks"] = {mark} /\ book["alerts"] = {mark}
          /\ book["mutes"] = {mute} /\ book["outages"] = {outage}
      BY <3>1
    <3> HIDE DEF pin, mark, mute, outage
    <3> QED BY <2>1, <3>2, <3>3 DEF HasTimes
  <2> QED BY <2>2, <2>3
<1> QED BY <1>2, <1>3 DEF TimelineInv

\* The timeline is asked for.
LEMMA LookKeeps == ASSUME AnnotationInv, TimelineInv, Look PROVE TimelineInv'
<1> DEFINE since == minute - TimelineSpan
<1>1. /\ HasTimes(book) /\ WasTyped /\ since \in Int
  BY AnnotationAssumption DEF TimelineInv, AnnotationInv, Minutes
<1>2. /\ UNCHANGED <<minute, book, desk>> /\ steady' = Moments(book, since)
      /\ reader' = [Off EXCEPT !.pc = "reading", !.since = since]
  BY DEF Look
<1> HIDE DEF since
<1>3. /\ DOMAIN reader' = {"pc", "since", "next", "got", "entries"}
      /\ reader'.pc = "reading" /\ reader'.since = since /\ reader'.next = 1 /\ reader'.got = Empty
  BY <1>2 DEF Off
<1>4. HasTimes(Empty)
  BY FS_EmptySet DEF Empty, HasTimes
<1>5. \A e \in steady' : ~(TableOf(e.kind) < 1)
  <2>1. \A e \in steady' : TableOf(e.kind) \in 1..5
    BY <1>2, ComeFromTables
  <2> QED BY <2>1
<1>6. ReaderInv'
  BY <1>1, <1>2, <1>3, <1>4, <1>5 DEF ReaderInv, TimelineIsWhole
<1> QED BY <1>1, <1>2, <1>6 DEF TimelineInv, WasTyped, Doing

\* A table is read.
LEMMA ReadsOnKeeps == ASSUME AnnotationInv, TimelineInv, ReadsOn PROVE TimelineInv'
<1> DEFINE table == Tables[reader.next]
           since == reader.since
           got == [reader.got EXCEPT ![table] = Fetched(table, since)]
<1>1. /\ HasTimes(book) /\ WasTyped /\ reader.pc = "reading"
      /\ DOMAIN reader = {"pc", "since", "next", "got", "entries"}
      /\ reader.next \in 1..5 /\ since \in Int /\ HasTimes(reader.got)
      /\ steady \subseteq Moments(book, since)
      /\ \A e \in steady : TableOf(e.kind) < reader.next => e \in Moments(reader.got, since)
  BY DEF TimelineInv, ReaderInv, ReadsOn
<1>2. /\ UNCHANGED <<minute, book, desk>> /\ steady' = steady \ LeftOut(table)
      /\ reader' = IF reader.next < 5
                   THEN [reader EXCEPT !.next = @ + 1, !.got = got]
                   ELSE [Off EXCEPT !.pc = "shown", !.entries = Merge(got, since)]
  BY DEF ReadsOn, Tables
<1>3. /\ HasTimes(got)
      /\ \A e \in Moments(book, since) \ LeftOut(table) :
            TableOf(e.kind) = reader.next => e \in Moments(got, since)
      /\ \A e \in Moments(reader.got, since) :
            TableOf(e.kind) < reader.next => e \in Moments(got, since)
  BY <1>1, ReadIsWhole
<1> HIDE DEF table, got
<1>4. \A e \in steady : TableOf(e.kind) \in 1..5
  BY <1>1, ComeFromTables
<1>5. \A e \in steady' : TableOf(e.kind) <= reader.next => e \in Moments(got, since)
  <2> TAKE e \in steady'
  <2>1. e \in steady /\ e \notin LeftOut(table) /\ TableOf(e.kind) \in 1..5
    BY <1>2, <1>4
  <2>2. TableOf(e.kind) <= reader.next =>
          TableOf(e.kind) < reader.next \/ TableOf(e.kind) = reader.next
    BY <1>1, <2>1
  <2> QED BY <1>1, <1>3, <2>1, <2>2
<1>6. CASE reader.next < 5
  <2>1. /\ DOMAIN reader' = DOMAIN reader /\ reader'.pc = "reading" /\ reader'.since = since
        /\ reader'.next = reader.next + 1 /\ reader'.got = got
    BY <1>1, <1>2, <1>6
  <2>2. reader'.next \in 1..5
    BY <1>1, <1>6, <2>1
  <2>3. \A e \in steady' : TableOf(e.kind) < reader'.next => e \in Moments(got, since)
    BY <1>1, <1>2, <1>4, <1>5, <2>1
  <2>4. ReaderInv'
    BY <1>1, <1>2, <1>3, <2>1, <2>2, <2>3 DEF ReaderInv, TimelineIsWhole
  <2> QED BY <1>1, <1>2, <2>4 DEF TimelineInv, WasTyped, Doing
<1>7. CASE ~(reader.next < 5)
  <2> DEFINE entries == Merge(got, since)
  <2>1. /\ DOMAIN reader' = {"pc", "since", "next", "got", "entries"} /\ reader'.pc = "shown"
        /\ reader'.entries = entries
    BY <1>2, <1>7 DEF Off
  <2>2. ShowLimit \in Nat
    BY AnnotationAssumption
  <2>3. /\ \A e \in Moments(got, since) :
             \/ e \in ToSet(entries)
             \/ /\ Len(entries) = ShowLimit
                /\ \A i \in DOMAIN entries : entries[i].at >= e.at
        /\ \A i, j \in DOMAIN entries : i < j => entries[i].at >= entries[j].at
    BY <1>3, <2>2, MergeIsWhole
  <2> HIDE DEF entries
  <2>4. \A e \in steady' : e \in Moments(got, since)
    <3> TAKE e \in steady'
    <3>1. TableOf(e.kind) \in 1..5
      BY <1>2, <1>4
    <3>2. TableOf(e.kind) <= reader.next
      BY <1>1, <1>7, <3>1
    <3> QED BY <1>5, <3>2
  <2>5. TimelineIsWhole'
    BY <2>1, <2>3, <2>4 DEF TimelineIsWhole
  <2>6. ReaderInv'
    BY <2>1, <2>5 DEF ReaderInv
  <2> QED BY <1>1, <1>2, <2>6 DEF TimelineInv, WasTyped, Doing
<1> QED BY <1>6, <1>7

\* What is recorded in between.
LEMMA RecordedKeeps ==
    ASSUME AnnotationInv, TimelineInv, reader.pc \in {"off", "reading"}, Recorded,
           steady' = steady \cap Moments(book', reader.since)
    PROVE  TimelineInv'
<1>1. HasTimes(book') /\ WasTyped' /\ reader' = reader
  BY RecordedKeepsTimes
<1>2. ReaderInv
  BY DEF TimelineInv
<1>3. ReaderInv'
  BY <1>1, <1>2 DEF ReaderInv, TimelineIsWhole
<1> QED BY <1>1, <1>3 DEF TimelineInv

\* For any clocks, limits, lines typed and rows (timeline.rs and the doors): the timeline is
\* read table by table while the doors, the loop and the pruner write. A moment that stood
\* from the question to the answer is shown, unless the newer ones fill the page or it was
\* beyond the limit of its table when that was read; and the newest come first.
THEOREM TimelineIsWholeHolds == AnnotationSpec => []TimelineIsWhole
<1>1. AnnotationInv /\ TimelineInv /\ [AnnotationsNext]_annotationVars => TimelineInv'
  <2> SUFFICES ASSUME AnnotationInv, TimelineInv, [AnnotationsNext]_annotationVars
               PROVE  TimelineInv'
    OBVIOUS
  <2>1. CASE UNCHANGED annotationVars
    BY <2>1 DEF annotationVars, TimelineInv, WasTyped, Doing, ReaderInv, TimelineIsWhole
  <2> QED BY <2>1, LookKeeps, ReadsOnKeeps, RecordedKeeps DEF AnnotationsNext
<1>2. TimelineInv => TimelineIsWhole
  BY DEF TimelineInv, ReaderInv
<1> QED BY <1>1, <1>2, TimelineStarts, AnnotationInvHolds, PTL DEF AnnotationSpec

---------------------------------------------------------------------------
(* The connect race.  The addresses come out one at a time, each in its    *)
(* place; while the race runs, those begun began in time for their place.  *)

IsListed(addrs) ==
    /\ Len(addrs) \in Nat /\ DOMAIN addrs = 1..Len(addrs)
    /\ \A i \in DOMAIN addrs : addrs[i].family \in {"v4", "v6"}

\* An address has its place within its family.
LEMMA RoundsCount ==
    ASSUME NEW addrs, IsListed(addrs), NEW i \in DOMAIN addrs
    PROVE  /\ Round(addrs, i) \in Nat
           /\ \A j \in DOMAIN addrs : j < i /\ addrs[j].family = addrs[i].family
                => Round(addrs, j) < Round(addrs, i)
<1> DEFINE upto(k) == {j \in 1..k : addrs[j].family = addrs[k].family}
<1>1. ASSUME NEW k \in DOMAIN addrs
      PROVE  IsFiniteSet(upto(k)) /\ Cardinality(upto(k)) \in Nat
  <2>1. IsFiniteSet(1..k)
    BY FS_Interval DEF IsListed
  <2> QED BY <2>1, FS_Subset, FS_CardinalityType
<1>2. ASSUME NEW j \in DOMAIN addrs, j < i, addrs[j].family = addrs[i].family
      PROVE  Cardinality(upto(j)) < Cardinality(upto(i))
  <2>1. upto(j) \subseteq upto(i) /\ i \in upto(i) /\ i \notin upto(j)
    BY <1>2 DEF IsListed
  <2>2. Cardinality(upto(j)) <= Cardinality(upto(i)) /\ Cardinality(upto(j)) # Cardinality(upto(i))
    BY <1>1, <2>1, FS_Subset
  <2> QED BY <1>1, <2>2
<1> QED BY <1>1, <1>2 DEF Round

\* Two addresses come out one before the other.
LEMMA OneIsBefore ==
    ASSUME NEW addrs, IsListed(addrs), NEW i \in DOMAIN addrs, NEW j \in DOMAIN addrs
    PROVE  /\ i \notin OutBefore(addrs, i)
           /\ i = j \/ i \in OutBefore(addrs, j) \/ j \in OutBefore(addrs, i)
           /\ i \in OutBefore(addrs, j) => OutBefore(addrs, i) \subseteq OutBefore(addrs, j)
<1>1. \A k \in DOMAIN addrs : Round(addrs, k) \in Nat
  BY RoundsCount
<1>2. 1 \in DOMAIN addrs /\ i \in Nat /\ j \in Nat
  BY DEF IsListed
<1>3. addrs[i].family = addrs[j].family /\ Round(addrs, i) = Round(addrs, j) => i = j
  BY <1>1, <1>2, RoundsCount
<1>4. \A k \in DOMAIN addrs : addrs[k].family \in {"v4", "v6"}
  BY DEF IsListed
<1>5. addrs[i].family = addrs[j].family \/ addrs[i].family = addrs[1].family
        \/ addrs[j].family = addrs[1].family
  BY <1>2, <1>4
<1>6. i = j \/ i \in OutBefore(addrs, j) \/ j \in OutBefore(addrs, i)
  BY <1>1, <1>3, <1>5 DEF OutBefore
<1>7. i \notin OutBefore(addrs, i)
  BY <1>1 DEF OutBefore
<1>8. ASSUME i \in OutBefore(addrs, j), NEW k \in OutBefore(addrs, i)
      PROVE  k \in OutBefore(addrs, j)
  BY <1>1, <1>8 DEF OutBefore
<1> QED BY <1>6, <1>7, <1>8

\* Each address has a place of its own, and every place is taken.
LEMMA PlacesOfAddresses ==
    ASSUME NEW addrs, IsListed(addrs)
    PROVE  /\ \A i \in DOMAIN addrs : Cardinality(OutBefore(addrs, i)) \in 0..(Len(addrs) - 1)
           /\ \A i, j \in DOMAIN addrs :
                 Cardinality(OutBefore(addrs, i)) = Cardinality(OutBefore(addrs, j)) => i = j
           /\ \A k \in DOMAIN addrs :
                 /\ Interleaved(addrs)[k] \in DOMAIN addrs
                 /\ Cardinality(OutBefore(addrs, Interleaved(addrs)[k])) = k - 1
           /\ DOMAIN Interleaved(addrs) = DOMAIN addrs
<1> DEFINE n == Len(addrs)
           all == DOMAIN addrs
           rank == [i \in all |-> Cardinality(OutBefore(addrs, i))]
<1>1. n \in Nat /\ all = 1..n /\ IsFiniteSet(all) /\ Cardinality(all) = n
  <2>1. n \in Nat /\ all = 1..n
    BY DEF IsListed
  <2> HIDE DEF n, all
  <2>2. IsFiniteSet(1..n) /\ Cardinality(1..n) = n
    BY <2>1, FS_Interval
  <2> QED BY <2>1, <2>2
<1>2. IsFiniteSet(0..(n - 1)) /\ Cardinality(0..(n - 1)) = n
  <2> HIDE DEF n
  <2>1. 0 \in Int /\ n - 1 \in Int
    BY <1>1
  <2> QED BY <1>1, <2>1, FS_Interval
<1>3. ASSUME NEW i \in all
      PROVE  IsFiniteSet(OutBefore(addrs, i)) /\ rank[i] \in 0..(n - 1)
  <2>1. OutBefore(addrs, i) \subseteq all \ {i}
    BY OneIsBefore DEF OutBefore
  <2> HIDE DEF n, all
  <2>2. IsFiniteSet(all \ {i}) /\ Cardinality(all \ {i}) = n - 1
    BY <1>1, FS_RemoveElement
  <2>3. /\ IsFiniteSet(OutBefore(addrs, i)) /\ Cardinality(OutBefore(addrs, i)) <= n - 1
        /\ Cardinality(OutBefore(addrs, i)) \in Nat
    BY <2>1, <2>2, FS_Subset, FS_CardinalityType
  <2> QED BY <1>1, <2>3
<1>4. ASSUME NEW i \in all, NEW j \in all, i \in OutBefore(addrs, j)
      PROVE  rank[i] < rank[j]
  <2>1. OutBefore(addrs, i) \subseteq OutBefore(addrs, j) /\ i \notin OutBefore(addrs, i)
    BY <1>4, OneIsBefore
  <2>2. /\ Cardinality(OutBefore(addrs, i)) <= Cardinality(OutBefore(addrs, j))
        /\ Cardinality(OutBefore(addrs, i)) # Cardinality(OutBefore(addrs, j))
    BY <1>3, <1>4, <2>1, FS_Subset
  <2>3. rank[i] \in 0..(n - 1) /\ rank[j] \in 0..(n - 1)
    BY <1>3
  <2> QED BY <1>1, <2>2, <2>3
<1>5. \A i, j \in all : rank[i] = rank[j] => i = j
  <2> TAKE i, j \in all
  <2>1. i = j \/ i \in OutBefore(addrs, j) \/ j \in OutBefore(addrs, i)
    BY OneIsBefore
  <2>2. rank[i] \in 0..(n - 1) /\ rank[j] \in 0..(n - 1)
    BY <1>3
  <2> HIDE DEF rank, n
  <2> QED BY <1>1, <1>4, <2>1, <2>2
<1>6. rank \in Injection(all, 0..(n - 1))
  <2>1. rank \in [all -> 0..(n - 1)]
    BY <1>3
  <2> HIDE DEF rank, n, all
  <2> QED BY <1>5, <2>1 DEF Injection, IsInjective
<1>7. \A k \in 0..(n - 1) : \E i \in all : rank[i] = k
  <2>1. rank \in Surjection(all, 0..(n - 1))
    <3> HIDE DEF rank, n, all
    <3> QED BY <1>1, <1>2, <1>6, FS_Injection
  <2> HIDE DEF rank, n, all
  <2> QED BY <2>1 DEF Surjection
<1>8. ASSUME NEW k \in all
      PROVE  /\ Interleaved(addrs)[k] \in all
             /\ Cardinality(OutBefore(addrs, Interleaved(addrs)[k])) = k - 1
  <2>1. k - 1 \in 0..(n - 1)
    BY <1>1
  <2>2. \E i \in all : Cardinality(OutBefore(addrs, i)) = k - 1
    BY <1>7, <2>1
  <2> QED BY <2>2 DEF Interleaved
<1>9. DOMAIN Interleaved(addrs) = DOMAIN addrs
  BY DEF Interleaved
<1> QED BY <1>3, <1>5, <1>8, <1>9

\* Hardly more come out before an address than the alternation puts ahead.
LEMMA AheadIsEnough ==
    ASSUME IsListed(host), NEW i \in DOMAIN host
    PROVE  Ahead(i) \in Nat /\ Cardinality(OutBefore(host, i)) <= Ahead(i)
<1> DEFINE lead == host[i].family = host[1].family
           own == Cardinality(Before(i))
           rounds == IF lead THEN own ELSE own + 1
           rest == Cardinality(OtherFamily(i))
           others == {o \in OtherFamily(i) : Round(host, o) <= rounds}
<1>1. IsFiniteSet(DOMAIN host) /\ DOMAIN host = 1..Len(host) /\ Len(host) \in Nat
  BY FS_Interval DEF IsListed
<1>2. IsFiniteSet(OtherFamily(i)) /\ rest \in Nat
  BY <1>1, FS_Subset, FS_CardinalityType DEF OtherFamily
<1>3. IsFiniteSet(Before(i)) /\ own \in Nat
  <2>1. Before(i) \subseteq DOMAIN host
    BY <1>1 DEF Before
  <2> QED BY <1>1, <2>1, FS_Subset, FS_CardinalityType
<1>4. Round(host, i) = own + 1
  <2>1. {j \in 1..i : host[j].family = host[i].family} = Before(i) \cup {i} /\ i \notin Before(i)
    BY <1>1 DEF Before
  <2> QED BY <1>3, <2>1, FS_AddElement DEF Round
<1>5. \A j \in DOMAIN host : Round(host, j) \in Nat \ {0}
  <2> TAKE j \in DOMAIN host
  <2>1. Round(host, j) \in Nat
    BY RoundsCount
  <2>2. j \in {k \in 1..j : host[k].family = host[j].family} /\ IsFiniteSet(1..j)
    BY <1>1, FS_Interval
  <2>3. IsFiniteSet({k \in 1..j : host[k].family = host[j].family})
    BY <2>2, FS_Subset
  <2>4. Round(host, j) # 0
    BY <2>2, <2>3, FS_EmptySet DEF Round
  <2> QED BY <2>1, <2>4
<1>6. OutBefore(host, i) \subseteq Before(i) \cup others
  <2> SUFFICES ASSUME NEW j \in OutBefore(host, i) PROVE j \in Before(i) \cup others
    OBVIOUS
  <2>1. j \in DOMAIN host /\ j \in Nat /\ i \in Nat /\ Round(host, j) \in Nat
    BY <1>1, <1>5 DEF OutBefore
  <2>2. CASE host[j].family = host[i].family
    <3>1. Round(host, j) < Round(host, i)
      BY <2>2 DEF OutBefore
    <3>2. ~(i < j) /\ i # j
      BY <1>3, <1>4, <2>1, <2>2, <3>1, RoundsCount
    <3>3. j < i
      BY <2>1, <3>2
    <3> QED BY <1>1, <2>1, <2>2, <3>3 DEF Before
  <2>3. CASE host[j].family # host[i].family
    <3>1. j \in OtherFamily(i)
      BY <2>1, <2>3 DEF OtherFamily
    <3>2. Round(host, j) <= rounds
      BY <1>3, <1>4, <2>1 DEF OutBefore
    <3> QED BY <3>1, <3>2
  <2> HIDE DEF others
  <2> QED BY <2>2, <2>3
<1>7. rounds \in Nat /\ IsFiniteSet(1..rounds) /\ Cardinality(1..rounds) = rounds
  <2>1. rounds \in Nat
    BY <1>3
  <2> HIDE DEF rounds
  <2> QED BY <2>1, FS_Interval
<1>8. IsFiniteSet(others) /\ Cardinality(others) <= rest /\ Cardinality(others) <= rounds
  <2> DEFINE round == [j \in others |-> Round(host, j)]
  <2>1. IsFiniteSet(others) /\ Cardinality(others) <= rest
    BY <1>2, FS_Subset
  <2>2. round \in [others -> 1..rounds]
    <3> SUFFICES ASSUME NEW j \in others PROVE Round(host, j) \in 1..rounds
      OBVIOUS
    <3>1. Round(host, j) \in Nat \ {0} /\ Round(host, j) <= rounds
      BY <1>5 DEF OtherFamily
    <3> HIDE DEF rounds
    <3> QED BY <1>7, <3>1
  <2>3. \A j, k \in others : round[j] = round[k] => j = k
    <3> TAKE j, k \in others
    <3>1. /\ j \in DOMAIN host /\ k \in DOMAIN host /\ j \in Nat /\ k \in Nat
          /\ host[j].family = host[k].family
      BY <1>1 DEF OtherFamily, IsListed
    <3>2. Round(host, j) \in Nat /\ Round(host, k) \in Nat
      BY <1>5, <3>1
    <3> QED BY <3>1, <3>2, RoundsCount
  <2>4. round \in Injection(others, 1..rounds)
    <3> HIDE DEF round, others, rounds
    <3> QED BY <2>2, <2>3 DEF Injection, IsInjective
  <2>5. Cardinality(others) <= Cardinality(1..rounds)
    <3> HIDE DEF round, others, rounds
    <3> QED BY <1>7, <2>4, FS_Injection
  <2> QED BY <1>7, <2>1, <2>5
<1>9. Cardinality(OutBefore(host, i)) <= own + Cardinality(others)
  <2> HIDE DEF others
  <2>1. /\ IsFiniteSet(Before(i) \cup others)
        /\ Cardinality(Before(i) \cup others)
             = own + Cardinality(others) - Cardinality(Before(i) \cap others)
    BY <1>3, <1>8, FS_Union
  <2>2. Cardinality(OutBefore(host, i)) <= Cardinality(Before(i) \cup others)
    BY <1>6, <2>1, FS_Subset
  <2>3. /\ Cardinality(Before(i) \cap others) \in Nat
        /\ Cardinality(others) \in Nat
        /\ Cardinality(OutBefore(host, i)) \in Nat
    <3>1. IsFiniteSet(Before(i) \cap others) /\ IsFiniteSet(OutBefore(host, i))
      BY <1>3, <1>6, <2>1, FS_Subset
    <3> QED BY <1>8, <3>1, FS_CardinalityType
  <2> QED BY <1>3, <2>1, <2>2, <2>3
<1>10. Cardinality(others) \in Nat /\ Cardinality(OutBefore(host, i)) \in Nat
  <2>1. IsFiniteSet(OutBefore(host, i))
    BY <1>1, FS_Subset DEF OutBefore
  <2> QED BY <1>8, <2>1, FS_CardinalityType
<1>11. Ahead(i) = own + (IF rounds <= rest THEN rounds ELSE rest)
  BY DEF Ahead
<1> HIDE DEF others, rest, rounds, own
<1> QED BY <1>2, <1>3, <1>7, <1>8, <1>9, <1>10, <1>11

RaceSpec == RaceInit /\ [][RaceNext]_raceVars

Racing == race \in {"turn", "select"}

\* How many addresses have been begun, the place of one, and when the n-th is
\* due at the latest.
Begun == Len(host) - Len(queue)
PlaceOf(i) == Cardinality(OutBefore(host, i)) + 1
Due(n) == resolved + n * AttemptDelay

RaceTypes ==
    /\ host \in Hosts /\ queue \in Seq(DOMAIN host)
    /\ race \in {"lookup", "turn", "select", "connected", "refused", "timed_out", "unresolvable"}
    /\ DOMAIN attempts \subseteq DOMAIN host
    /\ \A i \in DOMAIN attempts : attempts[i] \in Nat
    /\ alone \in Nat /\ elapsed \in 0..ConnectTimeout /\ resolved \in Nat \cup {NotYet}

\* The lookup comes first.
LookupInv ==
    /\ race = "lookup" => resolved = NotYet /\ DOMAIN attempts = {}
    /\ resolved = NotYet => race \in {"lookup", "unresolvable", "timed_out"}

\* The queue holds what comes out after those begun.
QueueInv ==
    resolved # NotYet =>
        /\ Len(queue) <= Len(host)
        /\ \A k \in DOMAIN queue : PlaceOf(queue[k]) = Begun + k

\* An attempt that will be accepted is not given up while the race runs.
KeptInv ==
    Racing => \A i \in DOMAIN host :
        host[i].fate = "accepts" /\ PlaceOf(i) <= Begun => i \in DOMAIN attempts

\* An attempt began by the time its place is due, and runs till its answer.
BegunInTime ==
    Racing => \A i \in DOMAIN attempts :
        /\ elapsed - attempts[i] <= Due(PlaceOf(i) - 1)
        /\ host[i].fate # "silent" => attempts[i] <= host[i].after

\* The next address joins by the time it is due: within what is left of the
\* sleep, or at the top of an empty race.
NextIsInTime ==
    queue # <<>> =>
        /\ race = "select" => elapsed + alone <= Due(Begun)
        /\ race = "turn" => elapsed <= Due(IF DOMAIN attempts = {} THEN Begun ELSE Begun - 1)

\* How it ended says what there was.
EndsInv ==
    resolved # NotYet => \A i \in DOMAIN host : host[i].fate = "accepts" =>
        /\ race # "refused"
        /\ race = "timed_out" => AnswersBy(i) > ConnectTimeout

RaceInv == RaceTypes /\ LookupInv /\ QueueInv /\ KeptInv /\ BegunInTime /\ NextIsInTime /\ EndsInv

\* The hosts of the constants are lists of addresses.
LEMMA HostsAreListed ==
    ASSUME RaceTypes
    PROVE  /\ IsListed(host)
           /\ \A i \in DOMAIN host :
                 /\ host[i].after \in Nat
                 /\ host[i].fate \in {"accepts", "refuses", "silent"}
<1>1. host \in Seq([family : {"v4", "v6"}, fate : {"accepts", "refuses", "silent"}, after : Nat])
  BY ConnectAssumption DEF RaceTypes
<1>2. Len(host) \in Nat /\ DOMAIN host = 1..Len(host)
  BY <1>1
<1>3. ASSUME NEW i \in DOMAIN host
      PROVE  /\ host[i].family \in {"v4", "v6"} /\ host[i].after \in Nat
             /\ host[i].fate \in {"accepts", "refuses", "silent"}
  <2> DEFINE R == [family : {"v4", "v6"}, fate : {"accepts", "refuses", "silent"}, after : Nat]
  <2>1. host[i] \in R
    <3>1. host \in Seq(R)
      BY <1>1
    <3> HIDE DEF R
    <3> QED BY <1>2, <3>1
  <2> QED BY <2>1
<1> QED BY <1>2, <1>3 DEF IsListed

\* The time an address is due grows with its place.
LEMMA DueGrows ==
    ASSUME resolved \in Nat, NEW m \in Int, NEW n \in Int
    PROVE  /\ Due(m) \in Int
           /\ Due(m + 1) = Due(m) + AttemptDelay
           /\ m <= n => Due(m) <= Due(n)
<1> DEFINE d == AttemptDelay
<1>1. d \in Nat
  BY ConnectAssumption
<1>2. m * d \in Int /\ n * d \in Int /\ (m + 1) * d = m * d + d
  BY <1>1
<1>3. ASSUME m <= n PROVE m * d <= n * d
  <2>1. PICK k \in Nat : n = m + k
    <3>1. n - m \in Nat /\ n = m + (n - m)
      BY <1>3
    <3> QED BY <3>1
  <2>2. k * d \in Nat /\ (m + k) * d = m * d + k * d
    BY <1>1, <2>1
  <2> QED BY <1>2, <2>1, <2>2
<1> HIDE DEF d
<1>4. Due(m) = resolved + m * d /\ Due(n) = resolved + n * d /\ Due(m + 1) = resolved + (m + 1) * d
  BY DEF Due, d
<1>5. d = AttemptDelay
  BY DEF d
<1> QED BY <1>1, <1>2, <1>3, <1>4, <1>5

\* Places run from one to the length of the list; nobody shares one.
LEMMA PlacesFit ==
    ASSUME RaceTypes
    PROVE  /\ Len(host) \in Nat /\ Len(queue) \in Nat /\ Begun \in Int
           /\ \A i \in DOMAIN host : PlaceOf(i) \in 1..Len(host)
           /\ \A i, j \in DOMAIN host : PlaceOf(i) = PlaceOf(j) => i = j
<1>1. IsListed(host)
  BY HostsAreListed
<1>2. Len(host) \in Nat /\ Len(queue) \in Nat
  BY <1>1 DEF RaceTypes, IsListed
<1>3. \A i \in DOMAIN host : Cardinality(OutBefore(host, i)) \in 0..(Len(host) - 1)
  BY <1>1, PlacesOfAddresses
<1>4. \A i, j \in DOMAIN host :
         Cardinality(OutBefore(host, i)) = Cardinality(OutBefore(host, j)) => i = j
  BY <1>1, PlacesOfAddresses
<1>5. \A i \in DOMAIN host : PlaceOf(i) \in 1..Len(host)
  BY <1>2, <1>3 DEF PlaceOf
<1>6. ASSUME NEW i \in DOMAIN host, NEW j \in DOMAIN host, PlaceOf(i) = PlaceOf(j)
      PROVE  i = j
  <2>1. Cardinality(OutBefore(host, i)) \in Int /\ Cardinality(OutBefore(host, j)) \in Int
    BY <1>2, <1>3
  <2>2. Cardinality(OutBefore(host, i)) = Cardinality(OutBefore(host, j))
    BY <1>6, <2>1 DEF PlaceOf
  <2> QED BY <1>4, <2>2
<1> QED BY <1>2, <1>5, <1>6 DEF Begun

\* While the race runs, an address that accepts has begun in time, or is still
\* in the queue and not yet overdue.
LEMMA InTime ==
    ASSUME RaceInv, Racing, NEW i \in DOMAIN host, host[i].fate = "accepts"
    PROVE  /\ resolved \in Nat /\ elapsed \in Nat /\ AnswersBy(i) \in Int
           /\ \/ /\ i \in DOMAIN attempts /\ attempts[i] \in Nat /\ attempts[i] <= host[i].after
                 /\ elapsed + (host[i].after - attempts[i]) <= AnswersBy(i)
              \/ /\ queue # <<>> /\ elapsed <= AnswersBy(i)
                 /\ race = "select" => elapsed + alone <= AnswersBy(i)
<1>1. resolved \in Nat /\ elapsed \in Nat /\ alone \in Nat
  BY ConnectAssumption DEF RaceInv, RaceTypes, LookupInv, Racing
<1>2. IsListed(host) /\ host[i].after \in Nat
  BY HostsAreListed DEF RaceInv
<1>3. Ahead(i) \in Nat /\ PlaceOf(i) - 1 <= Ahead(i) /\ PlaceOf(i) \in 1..Len(host) /\ Begun \in Int
  <2>1. PlaceOf(i) \in 1..Len(host) /\ Begun \in Int /\ Len(host) \in Nat
    BY PlacesFit DEF RaceInv
  <2>2. Ahead(i) \in Nat /\ Cardinality(OutBefore(host, i)) <= Ahead(i)
    BY <1>2, AheadIsEnough
  <2>3. Cardinality(OutBefore(host, i)) \in Int
    <3>1. Cardinality(OutBefore(host, i)) \in 0..(Len(host) - 1)
      BY <1>2, PlacesOfAddresses
    <3> QED BY <2>1, <3>1
  <2>4. PlaceOf(i) - 1 = Cardinality(OutBefore(host, i))
    BY <2>3 DEF PlaceOf
  <2> QED BY <2>1, <2>2, <2>4
<1>4. PlaceOf(i) \in Int /\ PlaceOf(i) - 1 \in Int
  BY <1>3
<1>5. /\ Due(PlaceOf(i) - 1) \in Int /\ Due(Ahead(i)) \in Int
      /\ Due(PlaceOf(i) - 1) <= Due(Ahead(i))
  BY <1>1, <1>3, <1>4, DueGrows
<1>6. AnswersBy(i) = Due(Ahead(i)) + host[i].after
  BY DEF AnswersBy, Due
<1>7. CASE PlaceOf(i) <= Begun
  <2>1. i \in DOMAIN attempts
    BY <1>7 DEF RaceInv, KeptInv
  <2>2. attempts[i] \in Nat /\ elapsed - attempts[i] <= Due(PlaceOf(i) - 1)
          /\ attempts[i] <= host[i].after
    BY <2>1 DEF RaceInv, RaceTypes, BegunInTime
  <2> QED BY <1>1, <1>2, <1>5, <1>6, <2>1, <2>2
<1>8. CASE ~(PlaceOf(i) <= Begun)
  <2>1. Begun <= PlaceOf(i) - 1
    BY <1>3, <1>4, <1>8
  <2>2. queue # <<>>
    <3>1. queue = <<>> => Begun = Len(host)
      BY <1>2 DEF Begun, IsListed
    <3> QED BY <1>3, <1>8, <3>1
  <2>3. Due(Begun) \in Int /\ Due(Begun - 1) \in Int /\ Due(Begun) <= Due(PlaceOf(i) - 1)
          /\ Due(Begun - 1) <= Due(Begun)
    <3>1. Begun - 1 \in Int /\ Begun - 1 <= Begun
      BY <1>3
    <3> QED BY <1>1, <1>3, <1>4, <2>1, <3>1, DueGrows
  <2>4. race = "select" => elapsed + alone <= Due(Begun)
    BY <2>2 DEF RaceInv, NextIsInTime
  <2>5. race = "turn" => elapsed <= Due(Begun)
    <3>1. race = "turn" => elapsed <= Due(Begun) \/ elapsed <= Due(Begun - 1)
      BY <2>2 DEF RaceInv, NextIsInTime
    <3> QED BY <1>1, <2>3, <3>1
  <2> QED BY <1>1, <1>2, <1>5, <1>6, <2>2, <2>3, <2>4, <2>5 DEF Racing
<1> QED BY <1>1, <1>2, <1>5, <1>6, <1>7, <1>8

LEMMA RaceImplies == RaceInv => WorkingAddressWins
<1> SUFFICES ASSUME RaceInv, NEW i \in DOMAIN host, host[i].fate = "accepts",
                    resolved # NotYet, AnswersBy(i) <= ConnectTimeout
             PROVE  /\ race \notin {"refused", "timed_out"}
                    /\ race \in {"turn", "select"} => elapsed <= AnswersBy(i)
  BY DEF WorkingAddressWins
<1>1. race \in {"turn", "select"} => elapsed <= AnswersBy(i)
  <2> SUFFICES ASSUME Racing PROVE elapsed <= AnswersBy(i)
    BY DEF Racing
  <2>1. host[i].after \in Nat
    BY HostsAreListed DEF RaceInv
  <2> QED BY <2>1, InTime
<1>2. race # "refused"
  BY DEF RaceInv, EndsInv
<1>3. race # "timed_out"
  <2>1. race = "timed_out" => AnswersBy(i) > ConnectTimeout
    BY DEF RaceInv, EndsInv
  <2>2. ConnectTimeout \in Int /\ AnswersBy(i) \in Int
    <3>1. resolved \in Nat /\ host[i].after \in Nat /\ IsListed(host)
      BY HostsAreListed DEF RaceInv, RaceTypes
    <3>2. Ahead(i) \in Int
      BY <3>1, AheadIsEnough
    <3>3. AnswersBy(i) = Due(Ahead(i)) + host[i].after /\ Due(Ahead(i)) \in Int
      BY <3>1, <3>2, DueGrows DEF AnswersBy, Due
    <3> QED BY <3>1, <3>3, ConnectAssumption
  <2> QED BY <2>1, <2>2
<1> QED BY <1>1, <1>2, <1>3

---------------------------------------------------------------------------
(* The steps of the race. *)

LEMMA RaceStarts == RaceInit => RaceInv
<1> SUFFICES ASSUME RaceInit PROVE RaceInv
  OBVIOUS
<1>1. DOMAIN attempts = {} /\ queue = <<>> /\ race = "lookup" /\ resolved = NotYet
  BY DEF RaceInit
<1>2. RaceTypes
  BY <1>1, ConnectAssumption DEF RaceInit, RaceTypes
<1> QED
  BY <1>1, <1>2 DEF RaceInv, LookupInv, QueueInv, KeptInv, Racing, BegunInTime, NextIsInTime,
                    EndsInv

\* What the places are of does not change.
LEMMA PlacesStand ==
    ASSUME UNCHANGED <<host, resolved>>
    PROVE  /\ \A i : PlaceOf(i)' = PlaceOf(i) /\ AnswersBy(i)' = AnswersBy(i)
           /\ \A n : Due(n)' = Due(n)
<1>1. host' = host /\ resolved' = resolved
  OBVIOUS
<1>2. ASSUME NEW i PROVE PlaceOf(i)' = PlaceOf(i)
  BY <1>1 DEF PlaceOf
<1>3. ASSUME NEW i PROVE AnswersBy(i)' = AnswersBy(i)
  BY <1>1 DEF AnswersBy, Ahead, Before, OtherFamily
<1>4. ASSUME NEW n PROVE Due(n)' = Due(n)
  BY <1>1 DEF Due
<1> QED BY <1>2, <1>3, <1>4

LEMMA LookUpKeeps == ASSUME RaceInv, LookUp PROVE RaceInv'
<1>1. /\ DOMAIN attempts = {} /\ host' = host /\ attempts' = attempts
      /\ alone' = alone /\ elapsed' = elapsed /\ resolved = NotYet
  BY DEF LookUp, RaceInv, LookupInv
<1>2. CASE race' = "unresolvable"
  <2>1. UNCHANGED <<queue, resolved>>
    BY <1>2 DEF LookUp
  <2> QED
    BY <1>1, <1>2, <2>1
    DEF RaceInv, RaceTypes, LookupInv, QueueInv, KeptInv, Racing, BegunInTime, NextIsInTime, EndsInv
<1>3. CASE race' = "turn" /\ queue' = Interleaved(host) /\ resolved' = elapsed
  <2>1. IsListed(host) /\ Len(host) \in Nat
    BY HostsAreListed DEF RaceInv, IsListed
  <2>2. /\ DOMAIN queue' = DOMAIN host /\ queue' \in Seq(DOMAIN host) /\ Len(queue') = Len(host)
        /\ \A k \in DOMAIN host : Cardinality(OutBefore(host, queue'[k])) = k - 1
    <3>1. /\ DOMAIN queue' = 1..Len(host) /\ DOMAIN host = 1..Len(host)
          /\ \A k \in 1..Len(host) : /\ queue'[k] \in DOMAIN host
                                     /\ Cardinality(OutBefore(host, queue'[k])) = k - 1
      BY <1>3, <2>1, PlacesOfAddresses DEF IsListed
    <3>2. queue' = [k \in 1..Len(host) |-> queue'[k]]
      BY <1>3, <2>1 DEF Interleaved, IsListed
    <3>3. queue' \in Seq(DOMAIN host) /\ Len(queue') = Len(host)
      BY <2>1, <3>1, <3>2
    <3> QED BY <3>1, <3>3
  <2>3. elapsed \in Nat /\ resolved' \in Nat /\ resolved' # NotYet
    BY <1>3, ConnectAssumption DEF RaceInv, RaceTypes, NotYet
  <2>4. Begun' = 0
    BY <1>1, <2>1, <2>2 DEF Begun
  <2>5. RaceTypes' /\ LookupInv'
    BY <1>1, <1>3, <2>2, <2>3 DEF RaceInv, RaceTypes, LookupInv
  <2>6. QueueInv'
    <3>1. \A k \in DOMAIN queue' : PlaceOf(queue[k])' = k
      BY <1>1, <2>1, <2>2 DEF PlaceOf, IsListed
    <3> QED BY <2>1, <2>2, <2>4, <1>1, <3>1 DEF QueueInv, IsListed
  <2>7. KeptInv' /\ BegunInTime'
    <3>1. ASSUME NEW i \in DOMAIN host PROVE PlaceOf(i)' \in Nat \ {0}
      <4>1. PlaceOf(i) \in 1..Len(host)
        BY PlacesFit DEF RaceInv
      <4>2. PlaceOf(i)' = PlaceOf(i)
        BY <1>1 DEF PlaceOf
      <4> QED BY <2>1, <4>1, <4>2
    <3> QED BY <1>1, <2>4, <3>1 DEF KeptInv, BegunInTime
  <2>8. NextIsInTime'
    <3>1. Due(0)' = resolved'
      <4>1. 0 * AttemptDelay = 0
        BY ConnectAssumption
      <4> QED BY <2>3, <4>1 DEF Due
    <3> QED BY <1>1, <1>3, <2>3, <2>4, <3>1 DEF NextIsInTime
  <2>9. EndsInv'
    BY <1>3 DEF EndsInv
  <2> QED BY <2>5, <2>6, <2>7, <2>8, <2>9 DEF RaceInv
<1> QED BY <1>2, <1>3 DEF LookUp

\* The next of the queue joins: whatever keeps what was kept, the new attempt
\* begins by the time its place is due.
LEMMA NextJoins ==
    ASSUME RaceInv, Racing, queue # <<>>, elapsed <= Due(Begun), Racing',
           UNCHANGED <<host, elapsed, resolved>>, queue' = Tail(queue), alone' \in Nat,
           NEW running, DOMAIN running \subseteq DOMAIN attempts,
           \A i \in DOMAIN running : running[i] = attempts[i],
           \A i \in DOMAIN attempts : host[i].fate = "accepts" => i \in DOMAIN running,
           attempts' = [i \in DOMAIN running \cup {Head(queue)} |->
                           IF i = Head(queue) THEN 0 ELSE running[i]]
    PROVE  /\ RaceTypes' /\ LookupInv' /\ QueueInv' /\ KeptInv' /\ BegunInTime' /\ EndsInv'
           /\ Begun' = Begun + 1 /\ Begun \in Int /\ DOMAIN attempts' # {} /\ elapsed \in Int
<1> DEFINE next == Head(queue)
<1>1. /\ resolved \in Nat /\ elapsed \in Nat /\ resolved # NotYet
      /\ RaceTypes /\ IsListed(host)
  BY ConnectAssumption, HostsAreListed DEF RaceInv, RaceTypes, LookupInv, Racing
<1>2. /\ queue \in Seq(DOMAIN host) /\ queue' \in Seq(DOMAIN host) /\ next \in DOMAIN host
      /\ next = queue[1] /\ 1 \in DOMAIN queue
      /\ Len(queue) \in Nat /\ Len(queue') = Len(queue) - 1
      /\ DOMAIN queue = 1..Len(queue) /\ DOMAIN queue' = 1..(Len(queue) - 1)
      /\ \A k \in DOMAIN queue' : queue'[k] = queue[k + 1]
  BY <1>1 DEF RaceTypes
<1>3. /\ Len(host) \in Nat /\ Begun \in Int /\ Begun' = Begun + 1
      /\ \A i \in DOMAIN host : PlaceOf(i) \in 1..Len(host)
      /\ \A i, j \in DOMAIN host : PlaceOf(i) = PlaceOf(j) => i = j
  BY <1>1, <1>2, PlacesFit DEF Begun
<1>4. /\ \A i : PlaceOf(i)' = PlaceOf(i) /\ AnswersBy(i)' = AnswersBy(i)
      /\ \A n : Due(n)' = Due(n)
  BY PlacesStand
<1>5. PlaceOf(next) = Begun + 1
  BY <1>1, <1>2 DEF RaceInv, QueueInv
<1>6. /\ DOMAIN attempts' = DOMAIN running \cup {next}
      /\ attempts'[next] = 0
      /\ \A i \in DOMAIN running : i # next => attempts'[i] = attempts[i]
  OBVIOUS
<1> HIDE DEF next
<1>7. RaceTypes'
  BY <1>1, <1>2, <1>6 DEF RaceTypes, Racing
<1>8. LookupInv' /\ EndsInv'
  BY <1>1 DEF LookupInv, EndsInv, Racing
<1>9. QueueInv'
  <2>1. ASSUME NEW k \in DOMAIN queue' PROVE PlaceOf(queue[k])' = Begun' + k
    <3>1. k \in Nat /\ k + 1 \in DOMAIN queue /\ queue'[k] = queue[k + 1]
      BY <1>2
    <3>2. PlaceOf(queue[k + 1]) = Begun + (k + 1)
      BY <1>1, <3>1 DEF RaceInv, QueueInv
    <3>3. PlaceOf(queue[k])' = PlaceOf(queue'[k])
      BY DEF PlaceOf
    <3> QED BY <1>3, <3>1, <3>2, <3>3
  <2>2. Len(queue') <= Len(host')
    BY <1>1, <1>2, <1>3 DEF RaceInv, QueueInv
  <2> QED BY <2>1, <2>2 DEF QueueInv
<1>10. KeptInv'
  <2> SUFFICES ASSUME NEW i \in DOMAIN host, host[i].fate = "accepts", PlaceOf(i) <= Begun + 1
               PROVE  i \in DOMAIN attempts'
    BY <1>3, <1>4 DEF KeptInv
  <2>1. PlaceOf(i) <= Begun \/ PlaceOf(i) = Begun + 1
    BY <1>3
  <2>2. PlaceOf(i) <= Begun => i \in DOMAIN attempts
    BY DEF RaceInv, KeptInv
  <2> QED BY <1>2, <1>3, <1>5, <1>6, <2>1, <2>2
<1>11. BegunInTime'
  <2> SUFFICES ASSUME NEW i \in DOMAIN attempts'
               PROVE  /\ elapsed - attempts'[i] <= Due(PlaceOf(i) - 1)
                      /\ host[i].fate # "silent" => attempts'[i] <= host[i].after
    BY <1>4, Zenon DEF BegunInTime
  <2>1. CASE i = next
    <3>1. PlaceOf(i) - 1 = Begun /\ host[i].after \in Nat
      BY <1>1, <1>2, <1>3, <1>5, <2>1, HostsAreListed
    <3> QED BY <1>1, <1>6, <2>1, <3>1
  <2>2. CASE i # next
    <3>1. i \in DOMAIN attempts /\ attempts'[i] = attempts[i]
      BY <1>6, <2>2
    <3> QED BY <3>1 DEF RaceInv, BegunInTime
  <2> QED BY <2>1, <2>2
<1> QED BY <1>1, <1>3, <1>6, <1>7, <1>8, <1>9, <1>10, <1>11

\* With the queue empty, an attempt that does not count may end.
LEMMA OneEnds ==
    ASSUME RaceInv, Racing, queue = <<>>, Racing', race' = "turn" \/ DOMAIN attempts' # {},
           UNCHANGED <<host, queue, elapsed, resolved>>, alone' \in Nat,
           DOMAIN attempts' \subseteq DOMAIN attempts,
           \A i \in DOMAIN attempts' : attempts'[i] = attempts[i],
           \A i \in DOMAIN attempts : host[i].fate = "accepts" => i \in DOMAIN attempts'
    PROVE  RaceInv'
<1>1. /\ resolved # NotYet /\ RaceTypes
      /\ \A i : PlaceOf(i)' = PlaceOf(i) /\ \A n : Due(n)' = Due(n)
  BY PlacesStand DEF RaceInv, LookupInv, Racing
<1>2. RaceTypes' /\ LookupInv' /\ EndsInv' /\ NextIsInTime'
  BY <1>1 DEF RaceTypes, LookupInv, EndsInv, NextIsInTime, Racing
<1>3. QueueInv' /\ Begun' = Begun
  BY <1>1 DEF QueueInv, RaceInv, Begun
<1>4. KeptInv'
  BY <1>1, <1>3 DEF KeptInv, RaceInv
<1>5. BegunInTime'
  BY <1>1 DEF BegunInTime, RaceInv
<1> QED BY <1>2, <1>3, <1>4, <1>5 DEF RaceInv

\* The top of the loop.
LEMMA TurnKeeps == ASSUME RaceInv, Turn PROVE RaceInv'
<1>1. /\ race = "turn" /\ Racing /\ UNCHANGED <<host, elapsed, resolved>>
      /\ alone' = AttemptDelay /\ AttemptDelay \in Nat
  BY ConnectAssumption DEF Turn, Racing
<1>2. /\ resolved \in Nat /\ elapsed \in Nat /\ resolved # NotYet /\ RaceTypes /\ Begun \in Int
      /\ queue \in Seq(DOMAIN host)
  BY <1>1, ConnectAssumption, PlacesFit DEF RaceInv, RaceTypes, LookupInv
<1>3. /\ \A i : PlaceOf(i)' = PlaceOf(i) /\ AnswersBy(i)' = AnswersBy(i)
      /\ \A n : Due(n)' = Due(n)
  BY <1>1, PlacesStand
<1>4. CASE DOMAIN attempts # {}
  <2>1. race' = "select" /\ UNCHANGED <<queue, attempts>>
    BY <1>4 DEF Turn
  <2>2. Begun' = Begun /\ Racing'
    BY <1>1, <2>1 DEF Begun, Racing
  <2>3. RaceTypes' /\ LookupInv' /\ QueueInv' /\ EndsInv'
    BY <1>1, <1>2, <1>3, <2>1, <2>2
    DEF RaceInv, RaceTypes, LookupInv, QueueInv, EndsInv
  <2>4. KeptInv' /\ BegunInTime'
    BY <1>1, <1>3, <2>1, <2>2 DEF RaceInv, KeptInv, BegunInTime
  <2>5. NextIsInTime'
    <3> SUFFICES ASSUME queue # <<>> PROVE elapsed + AttemptDelay <= Due(Begun)
      BY <1>1, <1>3, <2>1, <2>2 DEF NextIsInTime
    <3>1. elapsed <= Due(Begun - 1)
      BY <1>1, <1>4 DEF RaceInv, NextIsInTime
    <3>2. Begun - 1 \in Int /\ (Begun - 1) + 1 = Begun
      BY <1>2
    <3>3. Due(Begun - 1) \in Int /\ Due((Begun - 1) + 1) = Due(Begun - 1) + AttemptDelay
      BY <1>2, <3>2, DueGrows
    <3> QED BY <1>1, <1>2, <3>1, <3>2, <3>3
  <2> QED BY <2>3, <2>4, <2>5 DEF RaceInv
<1>5. CASE DOMAIN attempts = {} /\ queue # <<>>
  <2>1. race' = "select" /\ Racing' /\ queue' = Tail(queue) /\ attempts' = Joined(attempts)
    BY <1>5 DEF Turn, Shortened, Racing
  <2>2. elapsed <= Due(Begun)
    BY <1>1, <1>5 DEF RaceInv, NextIsInTime
  <2>3. attempts' = [i \in DOMAIN attempts \cup {Head(queue)} |->
                        IF i = Head(queue) THEN 0 ELSE attempts[i]]
    BY <1>5, <2>1 DEF Joined
  <2>4. /\ RaceTypes' /\ LookupInv' /\ QueueInv' /\ KeptInv' /\ BegunInTime' /\ EndsInv'
        /\ Begun' = Begun + 1
    BY <1>1, <1>5, <2>1, <2>2, <2>3, NextJoins
  <2>5. NextIsInTime'
    <3>1. Due(Begun + 1) = Due(Begun) + AttemptDelay /\ Due(Begun) \in Int
      BY <1>2, DueGrows
    <3>2. elapsed + AttemptDelay <= Due(Begun + 1)
      BY <1>1, <1>2, <2>2, <3>1
    <3> QED BY <1>1, <1>3, <2>1, <2>4, <3>2 DEF NextIsInTime
  <2> QED BY <2>4, <2>5 DEF RaceInv
<1>6. CASE DOMAIN attempts = {} /\ queue = <<>>
  <2>1. race' = "refused" /\ queue' = queue /\ attempts' = attempts
    BY <1>6 DEF Turn, Shortened, Joined
  <2>2. ASSUME NEW i \in DOMAIN host, host[i].fate = "accepts" PROVE FALSE
    <3>1. Begun = Len(host) /\ PlaceOf(i) \in 1..Len(host)
      BY <1>2, <1>6, PlacesFit DEF Begun
    <3>2. PlaceOf(i) <= Begun
      BY <1>2, <3>1
    <3> QED BY <1>1, <1>6, <2>2, <3>2 DEF RaceInv, KeptInv
  <2>3. Begun' = Begun
    BY <1>1, <2>1 DEF Begun
  <2>4. EndsInv'
    BY <1>1, <2>2 DEF EndsInv
  <2>5. RaceTypes' /\ LookupInv' /\ QueueInv'
    BY <1>1, <1>2, <1>3, <2>1, <2>3 DEF RaceInv, RaceTypes, LookupInv, QueueInv
  <2>6. KeptInv' /\ BegunInTime' /\ NextIsInTime'
    BY <1>6, <2>1 DEF KeptInv, BegunInTime, NextIsInTime, Racing
  <2> QED BY <2>4, <2>5, <2>6 DEF RaceInv
<1> QED BY <1>4, <1>5, <1>6

\* An answer that the sleep or a refusal makes way for.
LEMMA MadeWay ==
    ASSUME RaceInv, race = "select", race' = "turn", UNCHANGED <<host, alone, elapsed, resolved>>,
           queue' = Shortened, NEW running, attempts' = Joined(running),
           DOMAIN running \subseteq DOMAIN attempts,
           \A i \in DOMAIN running : running[i] = attempts[i],
           \A i \in DOMAIN attempts : host[i].fate = "accepts" => i \in DOMAIN running
    PROVE  RaceInv'
<1>1. /\ Racing /\ Racing' /\ alone \in Nat /\ alone' \in Nat
      /\ resolved \in Nat /\ elapsed \in Nat /\ RaceTypes
  BY ConnectAssumption DEF RaceInv, RaceTypes, LookupInv, Racing
<1>2. CASE queue = <<>>
  <2>1. queue' = queue /\ attempts' = running
    BY <1>2 DEF Shortened, Joined
  <2> QED BY <1>1, <1>2, <2>1, OneEnds
<1>3. CASE queue # <<>>
  <2>1. queue' = Tail(queue)
        /\ attempts' = [i \in DOMAIN running \cup {Head(queue)} |->
                           IF i = Head(queue) THEN 0 ELSE running[i]]
    BY <1>3 DEF Shortened, Joined
  <2>2. Begun \in Int /\ Due(Begun) \in Int
    <3>1. Begun \in Int
      BY <1>1, PlacesFit
    <3> QED BY <1>1, <3>1, DueGrows
  <2>3. elapsed <= Due(Begun)
    <3>1. elapsed + alone <= Due(Begun)
      BY <1>3 DEF RaceInv, NextIsInTime
    <3> QED BY <1>1, <2>2, <3>1
  <2>4. /\ RaceTypes' /\ LookupInv' /\ QueueInv' /\ KeptInv' /\ BegunInTime' /\ EndsInv'
        /\ Begun' = Begun + 1 /\ DOMAIN attempts' # {}
    BY <1>1, <1>3, <2>1, <2>3, NextJoins
  <2>5. Begun' - 1 = Begun /\ Due(Begun)' = Due(Begun')
    BY <2>2, <2>4 DEF Due
  <2>6. NextIsInTime'
    <3>1. \A n : Due(n)' = Due(n)
      BY PlacesStand
    <3> QED BY <2>3, <2>4, <2>5, <3>1 DEF NextIsInTime
  <2> QED BY <2>4, <2>6 DEF RaceInv
<1> QED BY <1>2, <1>3

LEMMA RefusedKeeps == ASSUME RaceInv, NEW i \in DOMAIN attempts, Refused(i) PROVE RaceInv'
<1>1. /\ race = "select" /\ race' = "turn" /\ UNCHANGED <<host, alone, elapsed, resolved>>
      /\ queue' = Shortened /\ attempts' = Joined(Without(i)) /\ host[i].fate = "refuses"
  BY DEF Refused
<1>2. /\ DOMAIN Without(i) = DOMAIN attempts \ {i}
      /\ \A j \in DOMAIN Without(i) : Without(i)[j] = attempts[j]
  BY DEF Without
<1>3. \A j \in DOMAIN attempts : host[j].fate = "accepts" => j \in DOMAIN Without(i)
  BY <1>1, <1>2
<1> QED BY <1>1, <1>2, <1>3, MadeWay

LEMMA SleepEndsKeeps == ASSUME RaceInv, SleepEnds PROVE RaceInv'
  BY MadeWay DEF SleepEnds

LEMMA AcceptedKeeps == ASSUME RaceInv, NEW i \in DOMAIN attempts, Accepted(i) PROVE RaceInv'
<1>1. /\ race = "select" /\ race' = "connected" /\ attempts' = <<>>
      /\ UNCHANGED <<host, queue, alone, elapsed, resolved>>
  BY DEF Accepted
<1>2. \A j : PlaceOf(j)' = PlaceOf(j) /\ Begun' = Begun /\ DOMAIN attempts' = {}
  BY <1>1, PlacesStand DEF Begun
<1>3. RaceTypes' /\ LookupInv' /\ QueueInv' /\ EndsInv'
  BY <1>1, <1>2 DEF RaceInv, RaceTypes, LookupInv, QueueInv, EndsInv
<1>4. KeptInv' /\ BegunInTime' /\ NextIsInTime'
  BY <1>1 DEF KeptInv, BegunInTime, NextIsInTime, Racing
<1> QED BY <1>3, <1>4 DEF RaceInv

\* When the timeout is polled no answer is due and no address may join: what
\* accepts was not due yet.
LEMMA TimesOutKeeps == ASSUME RaceInv, TimesOut PROVE RaceInv'
<1>1. /\ elapsed = ConnectTimeout /\ race' = "timed_out" /\ attempts' = <<>>
      /\ UNCHANGED <<host, queue, alone, elapsed, resolved>>
      /\ race = "lookup" \/ (race = "select" /\ Waiting)
  BY DEF TimesOut
<1>2. /\ \A j : PlaceOf(j)' = PlaceOf(j) /\ AnswersBy(j)' = AnswersBy(j)
      /\ Begun' = Begun /\ DOMAIN attempts' = {}
  BY <1>1, PlacesStand DEF Begun
<1>3. RaceTypes' /\ LookupInv' /\ QueueInv'
  BY <1>1, <1>2 DEF RaceInv, RaceTypes, LookupInv, QueueInv
<1>4. KeptInv' /\ BegunInTime' /\ NextIsInTime'
  BY <1>1 DEF KeptInv, BegunInTime, NextIsInTime, Racing
<1>5. EndsInv'
  <2> SUFFICES ASSUME resolved # NotYet, NEW i \in DOMAIN host, host[i].fate = "accepts"
               PROVE  AnswersBy(i) > ConnectTimeout
    BY <1>1, <1>2 DEF EndsInv
  <2>1. race = "select" /\ Waiting /\ Racing
    BY <1>1 DEF RaceInv, LookupInv, Racing
  <2>2. AnswersBy(i) \in Int /\ ConnectTimeout \in Int /\ alone \in Nat /\ host[i].after \in Nat
    BY <2>1, InTime, ConnectAssumption, HostsAreListed DEF RaceInv, RaceTypes
  <2>3. CASE /\ i \in DOMAIN attempts /\ attempts[i] \in Nat /\ attempts[i] <= host[i].after
             /\ elapsed + (host[i].after - attempts[i]) <= AnswersBy(i)
    <3>1. attempts[i] # host[i].after
      BY <2>1, <2>3 DEF Waiting, AnswerDue, Answered
    <3> QED BY <1>1, <2>2, <2>3, <3>1
  <2>4. CASE queue # <<>> /\ elapsed + alone <= AnswersBy(i)
    <3>1. alone > 0
      BY <2>1, <2>4 DEF Waiting
    <3> QED BY <1>1, <2>2, <2>4, <3>1
  <2> QED BY <2>1, <2>3, <2>4, InTime
<1> QED BY <1>3, <1>4, <1>5 DEF RaceInv

\* Time passes when nothing is due: no sleep before a next address is over, no
\* attempt has its answer.
LEMMA RaceWaitsKeeps == ASSUME RaceInv, RaceWaits PROVE RaceInv'
<1>1. /\ elapsed < ConnectTimeout /\ elapsed' = elapsed + 1
      /\ race = "lookup" \/ (race = "select" /\ Waiting)
      /\ DOMAIN attempts' = DOMAIN attempts
      /\ \A i \in DOMAIN attempts : attempts'[i] = attempts[i] + 1
      /\ alone' = IF alone = 0 THEN 0 ELSE alone - 1
      /\ UNCHANGED <<host, race, queue, resolved>>
  BY DEF RaceWaits
<1>2. /\ \A j : PlaceOf(j)' = PlaceOf(j) /\ AnswersBy(j)' = AnswersBy(j)
      /\ \A n : Due(n)' = Due(n)
      /\ Begun' = Begun
  BY <1>1, PlacesStand DEF Begun
<1>3. elapsed \in Nat /\ alone \in Nat /\ ConnectTimeout \in Nat /\ RaceTypes
  BY ConnectAssumption DEF RaceInv, RaceTypes
<1>4. RaceTypes'
  <2>1. elapsed' \in 0..ConnectTimeout /\ alone' \in Nat
    BY <1>1, <1>3 DEF RaceTypes
  <2>2. \A i \in DOMAIN attempts' : attempts'[i] \in Nat
    BY <1>1, <1>3 DEF RaceTypes
  <2> QED BY <1>1, <1>3, <2>1, <2>2 DEF RaceTypes
<1>5. LookupInv' /\ QueueInv' /\ EndsInv' /\ KeptInv'
  BY <1>1, <1>2 DEF RaceInv, LookupInv, QueueInv, EndsInv, KeptInv, Racing
<1>6. BegunInTime'
  <2> SUFFICES ASSUME Racing, NEW i \in DOMAIN attempts
               PROVE  /\ elapsed' - attempts'[i] <= Due(PlaceOf(i) - 1)
                      /\ host[i].fate # "silent" => attempts'[i] <= host[i].after
    BY <1>1, <1>2 DEF BegunInTime, Racing
  <2>1. /\ attempts[i] \in Nat /\ elapsed - attempts[i] <= Due(PlaceOf(i) - 1)
        /\ host[i].fate # "silent" => attempts[i] <= host[i].after
        /\ host[i].after \in Nat
    BY <1>3, HostsAreListed DEF RaceInv, RaceTypes, BegunInTime
  <2>2. host[i].fate # "silent" => attempts[i] # host[i].after
    BY <1>1 DEF Waiting, AnswerDue, Answered, Racing
  <2> QED BY <1>1, <1>3, <2>1, <2>2
<1>7. NextIsInTime'
  <2> SUFFICES ASSUME queue # <<>>, race = "select" PROVE elapsed' + alone' <= Due(Begun)
    BY <1>1, <1>2 DEF NextIsInTime
  <2>1. alone > 0 /\ elapsed + alone <= Due(Begun)
    BY <1>1 DEF Waiting, RaceInv, NextIsInTime
  <2> QED BY <1>1, <1>3, <2>1
<1> QED BY <1>4, <1>5, <1>6, <1>7 DEF RaceInv

LEMMA RaceSteps == ASSUME RaceInv, [RaceNext]_raceVars PROVE RaceInv'
<1>1. CASE UNCHANGED raceVars
  BY <1>1 DEF raceVars, RaceInv, RaceTypes, LookupInv, QueueInv, KeptInv, BegunInTime, NextIsInTime,
              EndsInv, Racing, Begun, PlaceOf, Due, AnswersBy, Ahead, Before, OtherFamily
<1>2. CASE RaceNext
  BY <1>2, LookUpKeeps, TurnKeeps, SleepEndsKeeps, TimesOutKeeps, RaceWaitsKeeps, AcceptedKeeps,
     RefusedKeeps DEF RaceNext
<1> QED BY <1>1, <1>2

\* For any hosts, delay and timeout (connect.rs): once the name is resolved, an address
\* that accepts is connected to after at most one delay for each address ahead of it in
\* the alternation of the families; only a timeout shorter than that can end the race
\* without a connection.
THEOREM WorkingAddressWinsHolds == RaceSpec => []WorkingAddressWins
<1>1. RaceInit => RaceInv
  BY RaceStarts
<1>2. RaceInv /\ [RaceNext]_raceVars => RaceInv'
  BY RaceSteps
<1>3. RaceInv => WorkingAddressWins
  BY RaceImplies
<1> QED BY <1>1, <1>2, <1>3, PTL DEF RaceSpec
=============================================================================
