-------------------------- MODULE AlertPathProofs --------------------------
(***************************************************************************)
(* Who hears of an outage and of its end, for any monitors, dependencies,  *)
(* window and memory, and any protocol of messages the loops may follow.   *)
(***************************************************************************)
EXTENDS AlertPath, FiniteSetTheorems, TLAPS

---------------------------------------------------------------------------
(* Least and greatest members *)

\* A nonempty family of subsets of a finite set has a minimal member.
LEMMA MinimalSubset ==
    ASSUME NEW X, IsFiniteSet(X), NEW T \in SUBSET (SUBSET X), T # {}
    PROVE  \E s \in T : \A t \in T : t \subseteq s => t = s
  <1>1. IsWellFoundedOn(StrictSubsetOrdering(X), SUBSET X)
    BY FS_StrictSubsetOrderingWellFounded, FS_FiniteSubsetsOfFinite
  <1>2. \E s \in T : \A t \in T : <<t, s>> \notin StrictSubsetOrdering(X)
    BY <1>1, WFMin
  <1>3. \A s, t \in T : t \subseteq s /\ t # s => <<t, s>> \in StrictSubsetOrdering(X)
    BY DEF StrictSubsetOrdering
  <1>. QED BY <1>2, <1>3

LEMMA GreatestExists ==
    ASSUME NEW S, \A x \in S : x \in Int, IsFiniteSet(S), S # {}
    PROVE  \E x \in S : \A y \in S : x >= y
  <1>. DEFINE above(k) == {x \in S : k <= x}
              T == {above(k) : k \in S}
  <1>1. T \in SUBSET (SUBSET S) /\ T # {} /\ IsFiniteSet(S)
    OBVIOUS
  <1>2. \E s \in T : \A t \in T : t \subseteq s => t = s
    <2>. HIDE DEF T, above
    <2>. QED BY <1>1, MinimalSubset
  <1>3. PICK k \in S : \A t \in T : t \subseteq above(k) => t = above(k)
    BY <1>2
  <1>4. ASSUME NEW y \in S, y > k PROVE FALSE
    <2>1. above(y) \in T
      OBVIOUS
    <2>2. k \in Int /\ y \in Int /\ k <= k /\ ~(y <= k) /\ \A x \in S : x \in Int
      BY <1>4
    <2>3. above(y) \subseteq above(k)
      <3>. SUFFICES ASSUME NEW x \in S, y <= x PROVE k <= x
        OBVIOUS
      <3>. QED BY <2>2
    <2>4. k \in above(k) /\ k \notin above(y)
      BY <2>2
    <2>. HIDE DEF T
    <2>. QED BY <2>1, <2>3, <2>4, <1>3
  <1>. QED BY <1>3, <1>4

LEMMA LeastExists ==
    ASSUME NEW S, \A x \in S : x \in Int, IsFiniteSet(S), S # {}
    PROVE  \E x \in S : \A y \in S : x <= y
  <1>. DEFINE below(k) == {x \in S : x <= k}
              T == {below(k) : k \in S}
  <1>1. T \in SUBSET (SUBSET S) /\ T # {} /\ IsFiniteSet(S)
    OBVIOUS
  <1>2. \E s \in T : \A t \in T : t \subseteq s => t = s
    <2>. HIDE DEF T, below
    <2>. QED BY <1>1, MinimalSubset
  <1>3. PICK k \in S : \A t \in T : t \subseteq below(k) => t = below(k)
    BY <1>2
  <1>4. ASSUME NEW y \in S, y < k PROVE FALSE
    <2>1. below(y) \in T
      OBVIOUS
    <2>2. k \in Int /\ y \in Int /\ k <= k /\ ~(k <= y) /\ \A x \in S : x \in Int
      BY <1>4
    <2>3. below(y) \subseteq below(k)
      <3>. SUFFICES ASSUME NEW x \in S, x <= y PROVE x <= k
        OBVIOUS
      <3>. QED BY <2>2
    <2>4. k \in below(k) /\ k \notin below(y)
      BY <2>2
    <2>. HIDE DEF T
    <2>. QED BY <2>1, <2>3, <2>4, <1>3
  <1>. QED BY <1>3, <1>4

---------------------------------------------------------------------------
(* Queues *)

Ids(queue) == {queue[i].id : i \in DOMAIN queue}
Once(queue) == \A i, j \in DOMAIN queue : queue[i].id = queue[j].id => i = j

LEMMA SwapRemoveIs ==
    ASSUME NEW S, NEW s \in Seq(S), NEW i \in DOMAIN s
    PROVE  /\ SwapRemove(s, i) \in Seq(S)
           /\ DOMAIN SwapRemove(s, i) = 1 .. Len(s) - 1
           /\ \A k \in 1 .. Len(s) - 1 :
                 SwapRemove(s, i)[k] = IF k = i THEN s[Len(s)] ELSE s[k]
  <1>. DEFINE t == [s EXCEPT ![i] = s[Len(s)]]
  <1>1. Len(s) \in Nat /\ i \in 1..Len(s) /\ Len(s) >= 1 /\ s[Len(s)] \in S /\ DOMAIN s = 1..Len(s)
    OBVIOUS
  <1>2. t \in Seq(S) /\ Len(t) = Len(s) /\ \A k \in 1..Len(s) : t[k] = IF k = i THEN s[Len(s)] ELSE s[k]
    BY <1>1
  <1>. HIDE DEF t
  <1>3. SwapRemove(s, i) = SubSeq(t, 1, Len(s) - 1)
    BY DEF SwapRemove, t
  <1>. QED BY <1>1, <1>2, <1>3

LEMMA SwapRemoveIds ==
    ASSUME NEW s \in Seq(Pending), NEW i \in DOMAIN s
    PROVE  /\ SwapRemove(s, i) \in Seq(Pending)
           /\ Ids(SwapRemove(s, i)) \subseteq Ids(s)
           /\ Ids(s) \ {s[i].id} \subseteq Ids(SwapRemove(s, i))
           /\ Once(s) => Once(SwapRemove(s, i)) /\ s[i].id \notin Ids(SwapRemove(s, i))
  <1>. DEFINE r == SwapRemove(s, i)
  <1>1. /\ r \in Seq(Pending) /\ DOMAIN r = 1 .. Len(s) - 1
        /\ \A k \in 1 .. Len(s) - 1 : r[k] = IF k = i THEN s[Len(s)] ELSE s[k]
    BY SwapRemoveIs
  <1>2. Len(s) \in Nat /\ i \in 1..Len(s) /\ DOMAIN s = 1..Len(s)
    OBVIOUS
  <1>. HIDE DEF r
  <1>3. Ids(r) \subseteq Ids(s)
    BY <1>1, <1>2 DEF Ids
  <1>4. ASSUME Once(s) PROVE Once(r) /\ s[i].id \notin Ids(r)
    <2>1. Once(r)
      BY <1>1, <1>2, <1>4 DEF Once
    <2>2. s[i].id \notin Ids(r)
      BY <1>1, <1>2, <1>4 DEF Once, Ids
    <2>. QED BY <2>1, <2>2
  <1>5. ASSUME NEW k \in 1..Len(s), k # i PROVE s[k].id \in Ids(r)
    <2>1. CASE k < Len(s)
      BY <2>1, <1>1, <1>2, <1>5 DEF Ids
    <2>2. CASE k = Len(s)
      <3>1. i \in 1 .. Len(s) - 1
        BY <2>2, <1>2, <1>5
      <3>. QED BY <3>1, <2>2, <1>1 DEF Ids
    <2>3. k < Len(s) \/ k = Len(s)
      <3>1. \A n \in Nat : \A j \in 1..n : j < n \/ j = n
        OBVIOUS
      <3>. QED BY <3>1, <1>2
    <2>. QED BY <2>1, <2>2, <2>3
  <1>6. Ids(s) \ {s[i].id} \subseteq Ids(r)
    BY <1>2, <1>5 DEF Ids
  <1>. QED BY <1>1, <1>3, <1>4, <1>6 DEF r

LEMMA AppendIds ==
    ASSUME NEW P, NEW s \in Seq(P), NEW e \in P
    PROVE  /\ Append(s, e) \in Seq(P)
           /\ Ids(Append(s, e)) = Ids(s) \cup {e.id}
           /\ Once(s) /\ e.id \notin Ids(s) => Once(Append(s, e))
  <1>. DEFINE r == Append(s, e)
  <1>1. /\ r \in Seq(P) /\ Len(s) \in Nat /\ DOMAIN r = 1 .. Len(s) + 1 /\ DOMAIN s = 1..Len(s)
        /\ \A k \in 1..Len(s) : r[k] = s[k]
        /\ r[Len(s) + 1] = e
    OBVIOUS
  <1>. HIDE DEF r
  <1>2. ASSUME Once(s), e.id \notin Ids(s) PROVE Once(r)
    <2>1. \A k \in 1..Len(s) : s[k].id # e.id
      BY <1>1, <1>2 DEF Ids
    <2>. QED BY <1>1, <1>2, <2>1 DEF Once
  <1>3. Ids(r) = Ids(s) \cup {e.id}
    <2>1. \A k \in DOMAIN r : r[k].id \in Ids(s) \cup {e.id}
      BY <1>1 DEF Ids
    <2>2. \A k \in DOMAIN s : s[k].id \in Ids(r)
      BY <1>1 DEF Ids
    <2>3. e.id \in Ids(r)
      <3>1. Len(s) + 1 \in DOMAIN r
        BY <1>1
      <3>. QED BY <3>1, <1>1 DEF Ids
    <2>. QED BY <2>1, <2>2, <2>3 DEF Ids
  <1>. QED BY <1>1, <1>2, <1>3 DEF r

LEMMA QueuedIs == \A c : Queued(c) = Ids(c.pending)
  BY DEF Queued, Ids

\* Some alert is the first to release when any has expired.
LEMMA FirstExpiredIs ==
    ASSUME NEW q \in Seq(Pending), Expired(q) # {}
    PROVE  FirstExpired(q) \in DOMAIN q
  <1>1. /\ Expired(q) \subseteq 1..Len(q) /\ Len(q) \in Nat /\ DOMAIN q = 1..Len(q)
        /\ \A i \in DOMAIN q : q[i].wait \in Int
    <2>1. Len(q) \in Nat /\ DOMAIN q = 1..Len(q) /\ \A i \in DOMAIN q : q[i] \in Pending
      OBVIOUS
    <2>2. Expired(q) \subseteq DOMAIN q
      BY DEF Expired
    <2>. QED BY <2>1, <2>2 DEF Pending
  <1>2. IsFiniteSet(Expired(q))
    <2>1. IsFiniteSet(1..Len(q))
      BY <1>1, FS_Interval
    <2>. QED BY <2>1, <1>1, FS_Subset
  <1>. DEFINE waits == {q[i].wait : i \in Expired(q)}
  <1>3. IsFiniteSet(waits) /\ waits \in SUBSET Int /\ waits # {}
    <2>1. IsFiniteSet(waits)
      <3>. DEFINE f == [i \in Expired(q) |-> q[i].wait]
      <3>1. waits = {f[i] : i \in Expired(q)} /\ DOMAIN f = Expired(q)
        OBVIOUS
      <3>2. f \in Surjection(Expired(q), waits)
        BY <3>1 DEF Surjection, Range
      <3>. QED BY <3>2, <1>2, FS_Surjection
    <2>2. waits \subseteq Int
      BY <1>1
    <2>. QED BY <2>1, <2>2
  <1>4. PICK w \in waits : \A v \in waits : w <= v
    <2>. HIDE DEF waits
    <2>. QED BY <1>3, LeastExists
  <1>. DEFINE firsts == {i \in Expired(q) : q[i].wait = w}
  <1>5. firsts \in SUBSET Int /\ IsFiniteSet(firsts) /\ firsts # {}
    <2>1. IsFiniteSet(firsts)
      BY <1>2, FS_Subset
    <2>. QED BY <2>1, <1>1, <1>4
  <1>6. PICK i \in firsts : \A j \in firsts : i <= j
    <2>. HIDE DEF firsts
    <2>. QED BY <1>5, LeastExists
  <1>7. \A j \in Expired(q) : q[i].wait < q[j].wait \/ (q[i].wait = q[j].wait /\ i <= j)
    <2>. SUFFICES ASSUME NEW j \in Expired(q)
                  PROVE  q[i].wait < q[j].wait \/ (q[i].wait = q[j].wait /\ i <= j)
      OBVIOUS
    <2>1. q[j].wait \in Int /\ q[i].wait = w /\ w \in Int /\ w <= q[j].wait
      BY <1>1, <1>3, <1>4
    <2>2. CASE w = q[j].wait
      BY <2>1, <2>2, <1>6
    <2>3. CASE w # q[j].wait
      BY <2>1, <2>3
    <2>. QED BY <2>2, <2>3
  <1>8. FirstExpired(q) \in Expired(q)
    <2>. HIDE DEF firsts, waits
    <2>1. i \in Expired(q)
      BY <1>6 DEF firsts
    <2>. QED BY <2>1, <1>7 DEF FirstExpired
  <1>. QED BY <1>1, <1>8

---------------------------------------------------------------------------
(* A loop with a bound: a recursive function is there, and keeps a set *)

\* What holds of 0 and goes on to the next holds up to N.
LEMMA UpTo ==
    ASSUME NEW N \in Nat, NEW good, 0 \in good, \A n \in 1..N : n - 1 \in good => n \in good
    PROVE  0..N \subseteq good
  <1>. SUFFICES ASSUME NEW k \in 0..N, k \notin good PROVE FALSE
    OBVIOUS
  <1>. DEFINE bad == {n \in 0..N : n \notin good}
  <1>1. IsFiniteSet(bad)
    <2>1. IsFiniteSet(0..N) /\ bad \subseteq 0..N
      BY FS_Interval
    <2>. QED BY <2>1, FS_Subset
  <1>2. (\A n \in bad : n \in Int) /\ bad # {}
    OBVIOUS
  <1>3. PICK least \in bad : \A n \in bad : least <= n
    <2>. HIDE DEF bad
    <2>. QED BY <1>1, <1>2, LeastExists
  <1>4. least \in 1..N /\ least - 1 \in 0..N /\ ~(least <= least - 1)
    BY <1>3
  <1>5. least - 1 \in good
    BY <1>3, <1>4
  <1>. QED BY <1>3, <1>4, <1>5

\* A function on 0..N is there whose values each come of the one before.
LEMMA LoopExists ==
    ASSUME NEW N \in Nat, NEW Y, NEW first \in Y, NEW turn \in [Y -> Y]
    PROVE  \E f \in [0..N -> Y] : f[0] = first /\ \A n \in 1..N : f[n] = turn[f[n - 1]]
  <1>. DEFINE Partial(k) ==
                \E f \in [0..k -> Y] : f[0] = first /\ \A n \in 1..k : f[n] = turn[f[n - 1]]
              good == {k \in 0..N : Partial(k)}
  <1>1. Partial(0)
    <2>. DEFINE f == [n \in 0..0 |-> first]
    <2>1. f \in [0..0 -> Y] /\ f[0] = first /\ \A n \in 1..0 : f[n] = turn[f[n - 1]]
      OBVIOUS
    <2>. HIDE DEF f
    <2>. QED BY <2>1
  <1>2. ASSUME NEW k \in 1..N, Partial(k - 1) PROVE Partial(k)
    <2>1. PICK f \in [0..(k - 1) -> Y] : f[0] = first /\ \A n \in 1..(k - 1) : f[n] = turn[f[n - 1]]
      BY <1>2
    <2>. DEFINE g == [n \in 0..k |-> IF n = k THEN turn[f[k - 1]] ELSE f[n]]
    <2>2. f[k - 1] \in Y
      OBVIOUS
    <2>3. g \in [0..k -> Y]
      <3>. SUFFICES ASSUME NEW n \in 0..k PROVE g[n] \in Y
        OBVIOUS
      <3>1. n # k => n \in 0..(k - 1)
        OBVIOUS
      <3>. QED BY <2>2, <3>1
    <2>4. g[0] = first
      BY <2>1
    <2>5. ASSUME NEW n \in 1..k PROVE g[n] = turn[g[n - 1]]
      <3>1. CASE n = k
        <4>1. k - 1 \in 0..k /\ k - 1 # k /\ k \in 0..k
          OBVIOUS
        <4>. QED BY <4>1, <3>1
      <3>2. CASE n # k
        <4>1. n \in 1..(k - 1) /\ n - 1 \in 0..k /\ n - 1 # k /\ n \in 0..k
          BY <3>2
        <4>. QED BY <4>1, <3>2, <2>1
      <3>. QED BY <3>1, <3>2
    <2>. HIDE DEF g
    <2>. QED BY <2>3, <2>4, <2>5
  <1>3. Partial(N)
    <2>. HIDE DEF Partial
    <2>1. 0 \in good
      BY <1>1
    <2>2. \A n \in 1..N : n - 1 \in good => n \in good
      BY <1>2
    <2>3. N \in good
      <3>. HIDE DEF good
      <3>. QED BY <2>1, <2>2, UpTo
    <2>. QED BY <2>3
  <1>. QED BY <1>3

---------------------------------------------------------------------------
(* A flush *)

Machines ==
    [pending : Seq(Pending), covered : [Monitors -> 0..CauseMemory],
     suppressed : SUBSET Monitors, quiet : [Monitors -> {"none", "announced", "confirmed"}]]

Yields == [state : Machines, out : Seq(Notification)]

\* A monitor is queued once, and queued or folded.
Tidy(c) == Once(c.pending) /\ Ids(c.pending) \cap c.suppressed = {}

\* Who was queued is queued still, was folded, or is told to the usual channels.
Shares(c, y) ==
    /\ Tidy(y.state) /\ Once(y.out)
    /\ Ids(y.out) \cap (Ids(y.state.pending) \cup y.state.suppressed) = {}
    /\ c.suppressed \subseteq y.state.suppressed
    /\ Ids(y.state.pending) \cup y.state.suppressed \cup Ids(y.out)
         = Ids(c.pending) \cup c.suppressed

\* What the turns of a flush that began with c keep.
Released(c) ==
    {y \in Yields :
        /\ y.state.quiet = c.quiet
        /\ Ids(y.state.pending) \cup Ids(y.out) \subseteq Ids(c.pending)
        /\ \A i \in DOMAIN y.out : y.out[i].kind = "down" /\ y.out[i].to = {"usual"}
        /\ Tidy(c) => Shares(c, y)}

Turn(y) == IF Expired(y.state.pending) = {} THEN y ELSE ReleaseFirst(y)

LEMMA MaxIsThere ==
    ASSUME NEW S, \A x \in S : x \in Int, IsFiniteSet(S), S # {}
    PROVE  Max(S) \in S
  BY GreatestExists DEF Max

\* The alert that waits for its upstreams is an alert, with a deadline.
LEMMA RequeueIs ==
    ASSUME NEW q \in Seq(Pending), NEW alert \in Pending, NEW I \in SUBSET DOMAIN q
    PROVE  /\ Requeue(alert, {q[i].wait : i \in I}) \in Pending
           /\ Requeue(alert, {q[i].wait : i \in I}).id = alert.id
  <1>. DEFINE waits == {q[i].wait : i \in I}
  <1>1. \A i \in I : q[i].wait \in Int
    <2>1. \A i \in I : q[i] \in Pending
      OBVIOUS
    <2>. QED BY <2>1 DEF Pending
  <1>2. IsFiniteSet(waits)
    <2>1. IsFiniteSet(1..Len(q)) /\ I \subseteq 1..Len(q)
      BY FS_Interval
    <2>2. IsFiniteSet(I)
      BY <2>1, FS_Subset
    <2>. DEFINE f == [i \in I |-> q[i].wait]
    <2>3. f \in Surjection(I, waits)
      BY DEF Surjection
    <2>. QED BY <2>2, <2>3, FS_Surjection
  <1>3. IsFiniteSet(waits \cup {0})
    BY <1>2, FS_AddElement
  <1>4. (\A x \in waits \cup {0} : x \in Int) /\ waits \cup {0} # {}
    BY <1>1
  <1>5. Max(waits \cup {0}) \in Int
    <2>. HIDE DEF waits
    <2>. QED BY <1>3, <1>4, MaxIsThere
  <1>. DEFINE later == Max(waits \cup {0}) + 1
  <1>6. later \in Int
    <2>. HIDE DEF waits
    <2>. QED BY <1>5
  <1>7. Requeue(alert, waits) = [alert EXCEPT !.requeued = TRUE, !.wait = later]
    BY DEF Requeue
  <1>. HIDE DEF waits, later
  <1>8. Requeue(alert, waits) \in Pending /\ Requeue(alert, waits).id = alert.id
    BY <1>6, <1>7 DEF Pending
  <1>. QED BY <1>8 DEF waits

LEMMA MarkSentIs ==
    ASSUME NEW c \in Machines, NEW m \in Monitors
    PROVE  /\ MarkSent(c, m) \in Machines
           /\ MarkSent(c, m).pending = c.pending /\ MarkSent(c, m).quiet = c.quiet
           /\ MarkSent(c, m).suppressed = c.suppressed \ {m}
  <1>. DEFINE memories == 0..CauseMemory
              queues == Seq(Pending)
              routes == [Monitors -> {"none", "announced", "confirmed"}]
  <1>1. CauseMemory \in memories
    BY CoalescerAssumption
  <1>2. c \in [pending : queues, covered : [Monitors -> memories],
                suppressed : SUBSET Monitors, quiet : routes]
    BY DEF Machines
  <1>. HIDE DEF memories, queues, routes
  <1>3. MarkSent(c, m) \in [pending : queues, covered : [Monitors -> memories],
                          suppressed : SUBSET Monitors, quiet : routes]
    BY <1>1, <1>2 DEF MarkSent
  <1>4. /\ MarkSent(c, m).pending = c.pending /\ MarkSent(c, m).quiet = c.quiet
        /\ MarkSent(c, m).suppressed = c.suppressed \ {m}
    BY <1>2 DEF MarkSent
  <1>. QED BY <1>3, <1>4 DEF Machines, memories, queues, routes

LEMMA FoldAlertIs ==
    ASSUME NEW c \in Machines, NEW m \in Monitors
    PROVE  /\ FoldAlert(c, m) \in Machines
           /\ FoldAlert(c, m).pending = c.pending /\ FoldAlert(c, m).quiet = c.quiet
           /\ FoldAlert(c, m).suppressed = c.suppressed \cup {m}
  <1>. DEFINE memories == 0..CauseMemory
              queues == Seq(Pending)
              routes == [Monitors -> {"none", "announced", "confirmed"}]
  <1>1. CauseMemory \in memories
    BY CoalescerAssumption
  <1>2. c \in [pending : queues, covered : [Monitors -> memories],
                suppressed : SUBSET Monitors, quiet : routes]
    BY DEF Machines
  <1>. HIDE DEF memories, queues, routes
  <1>3. FoldAlert(c, m) \in [pending : queues, covered : [Monitors -> memories],
                          suppressed : SUBSET Monitors, quiet : routes]
    BY <1>1, <1>2 DEF FoldAlert
  <1>4. /\ FoldAlert(c, m).pending = c.pending /\ FoldAlert(c, m).quiet = c.quiet
        /\ FoldAlert(c, m).suppressed = c.suppressed \cup {m}
    BY <1>2 DEF FoldAlert
  <1>. QED BY <1>3, <1>4 DEF Machines, memories, queues, routes

UsualDown(m) == [kind |-> "down", id |-> m, to |-> {"usual"}]

LEMMA NotifyIs ==
    ASSUME NEW out \in Seq(Notification), NEW m \in Monitors
    PROVE  /\ UsualDown(m) \in Notification
           /\ out \o Notify("down", m, {"usual"}) = Append(out, UsualDown(m))
  <1>1. UsualDown(m) \in Notification
    <2>1. {"usual"} \in (SUBSET Audiences) \ {{}}
      BY DEF Audiences
    <2>. QED BY <2>1 DEF UsualDown, Notification
  <1>2. Notify("down", m, {"usual"}) = <<UsualDown(m)>>
    BY DEF Notify, UsualDown
  <1>3. \A e \in Notification : out \o <<e>> = Append(out, e)
    OBVIOUS
  <1>. QED BY <1>1, <1>2, <1>3

LEMMA TurnKeeps ==
    ASSUME NEW c \in Machines, NEW y \in Released(c)
    PROVE  Turn(y) \in Released(c)
  <1>. DEFINE q == y.state.pending
              i == FirstExpired(q)
              alert == q[i]
              m == alert.id
              rest == SwapRemove(q, i)
              d == [y.state EXCEPT !.pending = rest]
              held == {j \in DOMAIN rest : rest[j].id \in Upstreams[m]}
              waits == {rest[j].wait : j \in held}
              later == Requeue(alert, waits)
  <1>1. /\ y \in Yields /\ y.state \in Machines /\ q \in Seq(Pending)
        /\ y.state.suppressed \in SUBSET Monitors /\ y.out \in Seq(Notification)
    BY DEF Released, Yields, Machines
  <1>2. CASE Expired(q) = {}
    BY <1>2 DEF Turn
  <1>3. CASE Expired(q) # {}
    <2>1. i \in DOMAIN q
      BY <1>1, <1>3, FirstExpiredIs
    <2>2. alert \in Pending /\ m \in Monitors /\ m \in Ids(q)
      <3>1. alert \in Pending
        BY <1>1, <2>1
      <3>. HIDE DEF i
      <3>. QED BY <3>1, <2>1 DEF Pending, Ids
    <2>3. /\ rest \in Seq(Pending) /\ Ids(rest) \subseteq Ids(q) /\ Ids(q) \ {m} \subseteq Ids(rest)
          /\ Once(q) => Once(rest) /\ m \notin Ids(rest)
      BY <1>1, <2>1, SwapRemoveIds
    <2>. HIDE DEF q, i, alert, m, rest
    <2>4. /\ d \in Machines /\ d.pending = rest /\ d.suppressed = y.state.suppressed
          /\ d.quiet = y.state.quiet
      BY <1>1, <2>3 DEF Machines
    <2>5. /\ y.state.quiet = c.quiet
          /\ Ids(q) \cup Ids(y.out) \subseteq Ids(c.pending)
          /\ \A k \in DOMAIN y.out : y.out[k].kind = "down" /\ y.out[k].to = {"usual"}
          /\ Tidy(c) => /\ Once(q) /\ Ids(q) \cap y.state.suppressed = {} /\ Once(y.out)
                        /\ Ids(y.out) \cap (Ids(q) \cup y.state.suppressed) = {}
                        /\ c.suppressed \subseteq y.state.suppressed
                        /\ Ids(q) \cup y.state.suppressed \cup Ids(y.out)
                             = Ids(c.pending) \cup c.suppressed
      BY DEF Released, Shares, Tidy, q
    <2>6. Turn(y) = IF CoveredUpstream(d, m)
                    THEN [y EXCEPT !.state = FoldAlert(d, m)]
                    ELSE IF waits # {} /\ ~alert.requeued
                         THEN [y EXCEPT !.state = [d EXCEPT !.pending = Append(@, later)]]
                         ELSE Yield(MarkSent(d, m), y.out \o Notify("down", m, {"usual"}))
      BY <1>3 DEF Turn, ReleaseFirst, q, i, alert, m, rest
    <2>. HIDE DEF d, held, waits, later
    <2>7. ASSUME NEW z \in Yields, z.state.quiet = y.state.quiet, z.out = y.out,
                 \/ /\ Ids(z.state.pending) = Ids(rest) /\ (Once(rest) => Once(z.state.pending))
                    /\ z.state.suppressed = y.state.suppressed \cup {m}
                 \/ /\ Ids(z.state.pending) = Ids(rest) \cup {m}
                    /\ Once(rest) /\ m \notin Ids(rest) => Once(z.state.pending)
                    /\ z.state.suppressed = y.state.suppressed
          PROVE  z \in Released(c)
      <3>1. Ids(z.state.pending) \cup Ids(z.out) \subseteq Ids(c.pending)
        BY <2>2, <2>3, <2>5, <2>7
      <3>2. ASSUME Tidy(c) PROVE Shares(c, z)
        <4>1. Once(z.state.pending) /\ Once(z.out)
          BY <2>3, <2>5, <2>7, <3>2
        <4>2. /\ Ids(z.state.pending) \cap z.state.suppressed = {}
              /\ Ids(z.out) \cap (Ids(z.state.pending) \cup z.state.suppressed) = {}
          BY <2>2, <2>3, <2>5, <2>7, <3>2
        <4>3. /\ c.suppressed \subseteq z.state.suppressed
              /\ Ids(z.state.pending) \cup z.state.suppressed \cup Ids(z.out)
                   = Ids(c.pending) \cup c.suppressed
          BY <2>2, <2>3, <2>5, <2>7, <3>2
        <4>. QED BY <4>1, <4>2, <4>3 DEF Shares, Tidy
      <3>. QED BY <2>5, <2>7, <3>1, <3>2 DEF Released
    <2>8. CASE CoveredUpstream(d, m)
      <3>. DEFINE z == [y EXCEPT !.state = FoldAlert(d, m)]
      <3>1. z \in Yields /\ z.state = FoldAlert(d, m) /\ z.out = y.out
        BY <1>1, <2>2, <2>4, FoldAlertIs DEF Yields
      <3>2. z.state.pending = rest /\ z.state.quiet = y.state.quiet
            /\ z.state.suppressed = y.state.suppressed \cup {m}
        BY <3>1, <2>2, <2>4, FoldAlertIs
      <3>3. Turn(y) = z
        BY <2>6, <2>8
      <3>. HIDE DEF z
      <3>. QED BY <3>1, <3>2, <3>3, <2>7
    <2>9. CASE ~CoveredUpstream(d, m) /\ waits # {} /\ ~alert.requeued
      <3>. DEFINE e == [d EXCEPT !.pending = Append(rest, later)]
                  z == [y EXCEPT !.state = e]
      <3>1. later \in Pending /\ later.id = m
        <4>1. held \in SUBSET DOMAIN rest
          BY DEF held
        <4>. QED BY <4>1, <2>2, <2>3, RequeueIs DEF later, waits, m
      <3>2. /\ Append(rest, later) \in Seq(Pending) /\ Ids(Append(rest, later)) = Ids(rest) \cup {m}
            /\ Once(rest) /\ m \notin Ids(rest) => Once(Append(rest, later))
        BY <3>1, <2>3, AppendIds
      <3>3. /\ e \in Machines /\ e.pending = Append(rest, later)
            /\ e.suppressed = y.state.suppressed /\ e.quiet = y.state.quiet
        BY <3>2, <2>4 DEF Machines
      <3>4. Turn(y) = z
        BY <2>6, <2>9, <2>4
      <3>. HIDE DEF e
      <3>5. z \in Yields /\ z.state = e /\ z.out = y.out
        BY <1>1, <3>3 DEF Yields
      <3>. HIDE DEF z
      <3>. QED BY <3>2, <3>3, <3>4, <3>5, <2>7
    <2>10. CASE ~CoveredUpstream(d, m) /\ ~(waits # {} /\ ~alert.requeued)
      <3>. DEFINE n == UsualDown(m)
                  out == Append(y.out, n)
                  z == Yield(MarkSent(d, m), out)
      <3>1. n \in Notification /\ n.id = m /\ n.kind = "down" /\ n.to = {"usual"}
        BY <1>1, <2>2, NotifyIs DEF UsualDown
      <3>2. Turn(y) = z
        BY <2>6, <2>10, <1>1, <2>2, NotifyIs
      <3>. HIDE DEF n
      <3>3. /\ out \in Seq(Notification) /\ Ids(out) = Ids(y.out) \cup {m}
            /\ Once(y.out) /\ m \notin Ids(y.out) => Once(out)
        BY <3>1, <1>1, AppendIds
      <3>4. \A k \in DOMAIN out : out[k].kind = "down" /\ out[k].to = {"usual"}
        <4>1. \A k \in DOMAIN out : out[k] = n \/ (k \in DOMAIN y.out /\ out[k] = y.out[k])
          BY <1>1, <3>1
        <4>. HIDE DEF out
        <4>. QED BY <4>1, <3>1, <2>5
      <3>. HIDE DEF out
      <3>5. z \in Yields /\ z.state = MarkSent(d, m) /\ z.out = out
        BY <3>3, <2>2, <2>4, MarkSentIs DEF Yields, Yield
      <3>6. /\ z.state.pending = rest /\ z.state.quiet = y.state.quiet
            /\ z.state.suppressed = y.state.suppressed \ {m}
        BY <3>5, <2>2, <2>4, MarkSentIs
      <3>. HIDE DEF z
      <3>7. Ids(z.state.pending) \cup Ids(z.out) \subseteq Ids(c.pending)
        BY <3>3, <3>5, <3>6, <2>2, <2>3, <2>5
      <3>8. ASSUME Tidy(c) PROVE Shares(c, z)
        <4>1. Once(z.state.pending) /\ Once(z.out)
          BY <2>2, <2>3, <2>5, <3>3, <3>5, <3>6, <3>8
        <4>2. /\ Ids(z.state.pending) \cap z.state.suppressed = {}
              /\ Ids(z.out) \cap (Ids(z.state.pending) \cup z.state.suppressed) = {}
          BY <2>2, <2>3, <2>5, <3>3, <3>5, <3>6, <3>8
        <4>3. /\ c.suppressed \subseteq z.state.suppressed
              /\ Ids(z.state.pending) \cup z.state.suppressed \cup Ids(z.out)
                   = Ids(c.pending) \cup c.suppressed
          BY <2>2, <2>3, <2>5, <3>3, <3>5, <3>6, <3>8
        <4>. QED BY <4>1, <4>2, <4>3 DEF Shares, Tidy
      <3>9. z \in Released(c)
        BY <2>5, <3>4, <3>5, <3>6, <3>7, <3>8 DEF Released
      <3>. QED BY <3>2, <3>9
    <2>. QED BY <2>8, <2>9, <2>10
  <1>. QED BY <1>2, <1>3

LEMMA FlushIs ==
    ASSUME NEW c \in Machines
    PROVE  Flush(c) \in Released(c)
  <1>. DEFINE N == Len(c.pending)
              Y == Released(c)
              start == Yield(c, <<>>)
              turn == [y \in Y |-> Turn(y)]
              body(f) == [n \in 0..N |-> IF n = 0 THEN start
                             ELSE IF Expired(f[n - 1].state.pending) = {} THEN f[n - 1]
                                  ELSE ReleaseFirst(f[n - 1])]
              released[n \in 0..N] ==
                 IF n = 0 THEN start
                 ELSE LET y == released[n - 1]
                      IN  IF Expired(y.state.pending) = {} THEN y ELSE ReleaseFirst(y)
  <1>1. N \in Nat
    BY DEF Machines
  <1>2. start \in Y
    <2>1. start \in Yields /\ start.state = c /\ start.out = <<>>
      BY DEF Yields, Yield
    <2>2. Ids(<<>>) = {} /\ Once(<<>>) /\ DOMAIN <<>> = {}
      BY DEF Ids, Once
    <2>3. Tidy(c) => Shares(c, start)
      BY <2>1, <2>2 DEF Tidy, Shares
    <2>. QED BY <2>1, <2>2, <2>3 DEF Released
  <1>3. turn \in [Y -> Y]
    BY TurnKeeps
  <1>4. PICK f \in [0..N -> Y] : f[0] = start /\ \A n \in 1..N : f[n] = turn[f[n - 1]]
    <2>. HIDE DEF N, Y, start, turn
    <2>. QED BY <1>1, <1>2, <1>3, LoopExists
  <1>5. f = body(f)
    <2>1. ASSUME NEW n \in 0..N PROVE f[n] = body(f)[n]
      <3>1. CASE n = 0
        BY <3>1, <1>4
      <3>2. CASE n # 0
        <4>1. n \in 1..N /\ n - 1 \in 0..N
          BY <1>1, <3>2
        <4>2. f[n - 1] \in Y /\ f[n] = turn[f[n - 1]]
          BY <4>1, <1>4
        <4>3. f[n] = Turn(f[n - 1])
          BY <4>2
        <4>. QED BY <3>2, <4>3 DEF Turn
      <3>. QED BY <3>1, <3>2
    <2>2. f = [n \in 0..N |-> f[n]]
      BY <1>4
    <2>. QED BY <2>1, <2>2
  <1>6. released = body(released)
    <2>. HIDE DEF start
    <2>. QED BY <1>5 DEF released
  <1>7. Flush(c) = released[N]
    BY DEF Flush
  <1>. QED
    <2>. HIDE DEF released
    <2>. DEFINE good == {n \in 0..N : released[n] \in Y}
    <2>1. 0 \in good
      BY <1>1, <1>2, <1>6
    <2>2. \A n \in 1..N : n - 1 \in good => n \in good
      <3>. SUFFICES ASSUME NEW n \in 1..N, released[n - 1] \in Y PROVE released[n] \in Y
        BY <1>1
      <3>1. n \in 0..N /\ n # 0
        BY <1>1
      <3>2. released[n] = Turn(released[n - 1])
        BY <3>1, <1>6 DEF Turn
      <3>. QED BY <3>2, TurnKeeps
    <2>3. 0..N \subseteq good
      <3>. HIDE DEF good, N
      <3>. QED BY <1>1, <2>1, <2>2, UpTo
    <2>4. N \in 0..N
      BY <1>1
    <2>. QED BY <2>3, <2>4, <1>7

---------------------------------------------------------------------------
(* What is known of a monitor *)

Held(c) == Ids(c.pending) \cup c.suppressed

Says(n, kind, m, audience) == n.kind = kind /\ n.id = m /\ audience \in n.to

\* Who will have heard that m is down once the outbox is empty.
Told(out, h, m) ==
    {a \in Audiences :
        /\ a \in h[m] \/ \E i \in DOMAIN out : Says(out[i], "down", m, a)
        /\ ~\E i \in DOMAIN out : Says(out[i], "recovered", m, a)}

\* What the coalescer, its outbox and the channels hold of m when the messages
\* handled so far leave m at the entry s.
Known(c, out, h, m, s) ==
    /\ s \in {"unknown", "healthy", "local", "down"}
    /\ s = "unknown" => /\ c.quiet[m] = "none" /\ m \notin Held(c) /\ m \notin Ids(out)
                        /\ h[m] \in LeftAnnounced
    /\ s = "healthy" => c.quiet[m] = "none" /\ m \notin Held(c) /\ Told(out, h, m) = {}
    /\ s = "local" => /\ c.quiet[m] = "announced" /\ m \notin Held(c)
                      /\ Told(out, h, m) = QuietAudience
    /\ s = "down" => /\ c.quiet[m] \in {"none", "confirmed"}
                     /\ Told(out, h, m) = (IF c.quiet[m] = "none" THEN {} ELSE QuietAudience)
                                           \cup (IF m \in Held(c) THEN {} ELSE {"usual"})

\* What is on its way is news: a down to those who have not heard, a recovery to
\* those who have.
IsNews(out, h) ==
    /\ Once(out)
    /\ \A i \in DOMAIN out :
          /\ out[i].kind = "down" => out[i].to \cap h[out[i].id] = {}
          /\ out[i].kind = "recovered" => out[i].to = h[out[i].id]

Hearings == [Monitors -> SUBSET Audiences]

LEMMA KnownStays ==
    ASSUME NEW c, NEW c2, NEW out, NEW out2, NEW h, NEW h2, NEW m, NEW s,
           Known(c, out, h, m, s), c2.quiet[m] = c.quiet[m],
           \/ (m \in Held(c2) <=> m \in Held(c)) /\ Told(out2, h2, m) = Told(out, h, m)
           \/ /\ m \in Held(c) /\ m \notin Held(c2)
              /\ Told(out2, h2, m) = Told(out, h, m) \cup {"usual"},
           m \notin Ids(out) /\ m \notin Held(c) => m \notin Ids(out2) /\ h2[m] = h[m]
    PROVE  Known(c2, out2, h2, m, s)
  <1>. USE DEF Known
  <1>1. CASE s = "unknown"
    BY <1>1
  <1>2. CASE s = "healthy"
    BY <1>2
  <1>3. CASE s = "local"
    BY <1>3
  <1>4. CASE s = "down"
    BY <1>4
  <1>. QED BY <1>1, <1>2, <1>3, <1>4

\* With nothing on its way, who heard is who will have.
LEMMA NothingSaid ==
    ASSUME NEW h \in Hearings, NEW out, NEW m \in Monitors, m \notin Ids(out)
    PROVE  Told(out, h, m) = h[m]
  BY DEF Told, Says, Ids, Hearings

\* A notification that starts an empty outbox.
LEMMA NotifyTells ==
    ASSUME NEW h \in Hearings, NEW kind \in {"down", "recovered"}, NEW m \in Monitors,
           NEW to \in SUBSET Audiences
    PROVE  LET out == Notify(kind, m, to)
           IN  /\ out \in Seq(Notification) /\ Once(out) /\ Ids(out) \subseteq {m}
               /\ Told(out, h, m) = IF kind = "down" THEN h[m] \cup to ELSE h[m] \ to
               /\ kind = "down" /\ to \cap h[m] = {} => IsNews(out, h)
               /\ kind = "recovered" /\ to = h[m] => IsNews(out, h)
  <1>. DEFINE out == Notify(kind, m, to)
              n == [kind |-> kind, id |-> m, to |-> to]
  <1>0. h[m] \subseteq Audiences
    BY DEF Hearings
  <1>1. CASE to = {}
    <2>1. out = <<>> /\ DOMAIN out = {}
      BY <1>1 DEF Notify
    <2>. HIDE DEF out
    <2>2. out \in Seq(Notification) /\ Once(out) /\ Ids(out) = {}
      BY <2>1 DEF Once, Ids
    <2>3. Told(out, h, m) = h[m]
      BY <2>2, NothingSaid
    <2>4. IsNews(out, h)
      BY <2>1, <2>2 DEF IsNews
    <2>. QED BY <1>1, <2>2, <2>3, <2>4 DEF out
  <1>2. CASE to # {}
    <2>1. n \in Notification /\ n.kind = kind /\ n.id = m /\ n.to = to
      BY <1>2 DEF Notification
    <2>2. out = <<n>>
      BY <1>2 DEF Notify
    <2>. HIDE DEF n
    <2>3. out \in Seq(Notification) /\ DOMAIN out = {1} /\ out[1] = n
      BY <2>1, <2>2
    <2>. HIDE DEF out
    <2>4. Once(out) /\ Ids(out) = {m}
      BY <2>1, <2>3 DEF Once, Ids
    <2>5. Told(out, h, m) = IF kind = "down" THEN h[m] \cup to ELSE h[m] \ to
      BY <1>0, <2>1, <2>3 DEF Told, Says
    <2>6. /\ kind = "down" /\ to \cap h[m] = {} => IsNews(out, h)
          /\ kind = "recovered" /\ to = h[m] => IsNews(out, h)
      BY <2>1, <2>3, <2>4 DEF IsNews
    <2>. QED BY <2>3, <2>4, <2>5, <2>6 DEF out
  <1>. QED BY <1>1, <1>2

---------------------------------------------------------------------------
(* A flush, a dispatch and a second leave what is known *)

QuietIsNotUsual == "usual" \notin QuietAudience /\ QuietAudience \in SUBSET Audiences

LEMMA QuietApart == QuietIsNotUsual
  BY DEF QuietIsNotUsual, QuietAudience, Audiences

LEMMA FlushKeeps ==
    ASSUME NEW c \in Machines, Tidy(c), NEW y \in Released(c), NEW h \in Hearings,
           \A m \in Monitors : \E s : Known(c, <<>>, h, m, s)
    PROVE  /\ Tidy(y.state) /\ IsNews(y.out, h)
           /\ \A m \in Monitors : \A s : Known(c, <<>>, h, m, s) => Known(y.state, y.out, h, m, s)
  <1>1. /\ y.state.quiet = c.quiet /\ Ids(y.out) \subseteq Ids(c.pending) /\ Shares(c, y)
        /\ \A i \in DOMAIN y.out : y.out[i].kind = "down" /\ y.out[i].to = {"usual"}
        /\ y.out \in Seq(Notification)
    BY DEF Released, Yields
  <1>2. Ids(<<>>) = {}
    BY DEF Ids
  <1>3. ASSUME NEW m \in Monitors, m \in Ids(c.pending) PROVE "usual" \notin h[m]
    <2>1. PICK s : Known(c, <<>>, h, m, s)
      OBVIOUS
    <2>2. m \in Held(c)
      BY <1>3 DEF Held
    <2>3. Told(<<>>, h, m) = h[m]
      BY <1>2, NothingSaid
    <2>. QED BY <2>1, <2>2, <2>3, QuietApart DEF Known, QuietIsNotUsual
  <1>4. \A i \in DOMAIN y.out : y.out[i].id \in Ids(y.out) /\ y.out[i].id \in Monitors
    <2>1. \A i \in DOMAIN y.out : y.out[i] \in Notification
      BY <1>1
    <2>. QED BY <2>1 DEF Ids, Notification
  <1>5. IsNews(y.out, h)
    BY <1>1, <1>3, <1>4 DEF IsNews, Shares
  <1>6. ASSUME NEW m \in Monitors, NEW s, Known(c, <<>>, h, m, s)
        PROVE  Known(y.state, y.out, h, m, s)
    <2>1. Told(<<>>, h, m) = h[m] /\ h[m] \in SUBSET Audiences
      BY <1>2, NothingSaid DEF Hearings
    <2>2. CASE m \in Ids(y.out)
      <3>1. m \in Held(c) /\ m \notin Held(y.state)
        BY <2>2, <1>1 DEF Held, Shares
      <3>2. Told(y.out, h, m) = h[m] \cup {"usual"}
        BY <1>1, <2>1, <2>2 DEF Told, Says, Ids, Audiences
      <3>. QED BY <3>1, <3>2, <1>1, <1>6, <2>1, KnownStays
    <2>3. CASE m \notin Ids(y.out)
      <3>1. m \in Held(y.state) <=> m \in Held(c)
        BY <2>3, <1>1 DEF Held, Shares
      <3>2. Told(y.out, h, m) = h[m]
        BY <2>3, NothingSaid
      <3>. QED BY <3>1, <3>2, <1>1, <1>6, <2>1, <2>3, KnownStays
    <2>. QED BY <2>2, <2>3
  <1>. QED BY <1>1, <1>5, <1>6 DEF Shares

Hear(h, n) ==
    [h EXCEPT ![n.id] = IF n.kind = "down" THEN @ \union n.to ELSE @ \ n.to]

LEMMA DispatchKeeps ==
    ASSUME NEW h \in Hearings, NEW out \in Seq(Notification), out # <<>>, IsNews(out, h)
    PROVE  /\ Hear(h, Head(out)) \in Hearings
           /\ Tail(out) \in Seq(Notification) /\ IsNews(Tail(out), Hear(h, Head(out)))
           /\ \A m \in Monitors :
                 /\ Told(Tail(out), Hear(h, Head(out)), m) = Told(out, h, m)
                 /\ m \notin Ids(out) => m \notin Ids(Tail(out)) /\ Hear(h, Head(out))[m] = h[m]
  <1>. DEFINE n == out[1]
              rest == Tail(out)
              g == Hear(h, n)
  <1>1. /\ Len(out) \in Nat /\ Len(out) >= 1 /\ DOMAIN out = 1..Len(out) /\ Head(out) = n
        /\ rest \in Seq(Notification) /\ DOMAIN rest = 1..(Len(out) - 1)
        /\ \A i \in 1..(Len(out) - 1) : rest[i] = out[i + 1] /\ i + 1 \in 1..Len(out) /\ i + 1 # 1
        /\ \A i \in 1..Len(out) : i # 1 => i - 1 \in 1..(Len(out) - 1) /\ rest[i - 1] = out[i]
        /\ 1 \in 1..Len(out)
    OBVIOUS
  <1>2. \A i \in 1..Len(out) : out[i] \in Notification
    BY <1>1
  <1>3. n.id \in Monitors /\ n.kind \in {"down", "recovered"} /\ n.to \in SUBSET Audiences
    BY <1>1, <1>2 DEF Notification
  <1>. HIDE DEF n, rest
  <1>4. /\ g \in Hearings /\ \A m \in Monitors : m # n.id => g[m] = h[m]
        /\ g[n.id] = IF n.kind = "down" THEN h[n.id] \cup n.to ELSE h[n.id] \ n.to
    BY <1>3 DEF Hear, Hearings
  <1>. HIDE DEF g
  <1>5. \A i \in 1..(Len(out) - 1) : rest[i].id # n.id /\ rest[i].id \in Monitors
    <2>1. \A i \in 1..(Len(out) - 1) : out[i + 1].id # out[1].id
      BY <1>1 DEF IsNews, Once
    <2>2. \A i \in 1..(Len(out) - 1) : out[i + 1].id \in Monitors
      BY <1>1, <1>2 DEF Notification
    <2>. QED BY <1>1, <2>1, <2>2 DEF n
  <1>6. IsNews(rest, g)
    <2>1. Once(rest)
      <3>. SUFFICES ASSUME NEW i \in 1..(Len(out) - 1), NEW j \in 1..(Len(out) - 1),
                           rest[i].id = rest[j].id
                    PROVE  i = j
        BY <1>1 DEF Once
      <3>1. i + 1 = j + 1
        BY <1>1 DEF IsNews, Once
      <3>. QED BY <3>1
    <2>2. ASSUME NEW i \in 1..(Len(out) - 1)
          PROVE  /\ rest[i].kind = "down" => rest[i].to \cap g[rest[i].id] = {}
                 /\ rest[i].kind = "recovered" => rest[i].to = g[rest[i].id]
      <3>1. rest[i] = out[i + 1] /\ i + 1 \in DOMAIN out
        BY <1>1
      <3>2. /\ rest[i].kind = "down" => rest[i].to \cap h[rest[i].id] = {}
            /\ rest[i].kind = "recovered" => rest[i].to = h[rest[i].id]
        BY <3>1 DEF IsNews
      <3>3. g[rest[i].id] = h[rest[i].id]
        BY <1>4, <1>5
      <3>. QED BY <3>2, <3>3
    <2>. QED BY <2>1, <2>2, <1>1 DEF IsNews
  <1>7. ASSUME NEW m \in Monitors PROVE Told(rest, g, m) = Told(out, h, m)
    <2>1. CASE m = n.id
      <3>1. \A i \in 1..Len(out) : out[i].id = m => i = 1
        BY <2>1, <1>1 DEF IsNews, Once, n
      <3>2. m \notin Ids(rest)
        BY <1>1, <1>5, <2>1 DEF Ids
      <3>3. Told(rest, g, m) = g[m]
        BY <3>2, <1>4, NothingSaid
      <3>4. Told(out, h, m) = IF n.kind = "down" THEN h[m] \cup n.to ELSE h[m] \ n.to
        <4>1. \A k, a : (\E i \in DOMAIN out : Says(out[i], k, m, a)) <=> n.kind = k /\ a \in n.to
          BY <3>1, <1>1, <2>1 DEF Says, n
        <4>2. h[m] \in SUBSET Audiences
          BY DEF Hearings
        <4>. QED BY <4>1, <4>2, <1>3 DEF Told
      <3>. QED BY <3>3, <3>4, <1>4, <2>1
    <2>2. CASE m # n.id
      <3>1. \A k, a : (\E i \in DOMAIN out : Says(out[i], k, m, a))
                       <=> (\E i \in DOMAIN rest : Says(rest[i], k, m, a))
        <4>. SUFFICES ASSUME NEW k, NEW a
                      PROVE  (\E i \in DOMAIN out : Says(out[i], k, m, a))
                               <=> (\E i \in DOMAIN rest : Says(rest[i], k, m, a))
          OBVIOUS
        <4>1. ASSUME NEW i \in DOMAIN out, Says(out[i], k, m, a)
              PROVE  \E j \in DOMAIN rest : Says(rest[j], k, m, a)
          <5>1. i # 1
            BY <4>1, <2>2 DEF Says, n
          <5>2. i - 1 \in DOMAIN rest /\ rest[i - 1] = out[i]
            BY <5>1, <1>1
          <5>. QED BY <5>2, <4>1
        <4>2. ASSUME NEW j \in DOMAIN rest, Says(rest[j], k, m, a)
              PROVE  \E i \in DOMAIN out : Says(out[i], k, m, a)
          <5>1. j + 1 \in DOMAIN out /\ rest[j] = out[j + 1]
            BY <1>1
          <5>. QED BY <5>1, <4>2
        <4>. QED BY <4>1, <4>2
      <3>. QED BY <3>1, <2>2, <1>4 DEF Told
    <2>. QED BY <2>1, <2>2
  <1>8. ASSUME NEW m \in Monitors, m \notin Ids(out) PROVE m \notin Ids(rest) /\ g[m] = h[m]
    <2>1. m # n.id
      BY <1>1, <1>8 DEF Ids, n
    <2>2. m \notin Ids(rest)
      BY <1>1, <1>8 DEF Ids
    <2>. QED BY <2>1, <2>2, <1>4
  <1>. QED BY <1>1, <1>4, <1>6, <1>7, <1>8 DEF rest, g

---------------------------------------------------------------------------
(* A message handled *)

Announced == {"unknown", "healthy", "local", "down"}

\* The entry a message is sent from, as far as the messages tell (a degradation
\* goes past them), and the one it leads to.
Before(degrades, msg) ==
    CASE msg.kind = "resumed" -> {"unknown"}
      [] msg.kind # "resumed" /\ degrades -> Announced \ {"unknown"}
      [] msg.kind = "down" /\ ~degrades ->
            IF msg.local_only THEN {"healthy"} ELSE {"healthy", "local"}
      [] msg.kind = "recovered" /\ ~degrades -> {"local", "down"}

After(msg) ==
    CASE msg.kind = "down" -> IF msg.local_only THEN "local" ELSE "down"
      [] msg.kind = "recovered" -> "healthy"
      [] msg.kind = "resumed" -> IF msg.confirmed THEN "down" ELSE "local"

\* Whom the outage a task resumes from was told to.
Left(msg) == IF msg.confirmed THEN Audiences ELSE {"quiet"}

Quiets == {"none", "announced", "confirmed"}

LEMMA RoutedIs ==
    ASSUME NEW c \in Machines, NEW m \in Monitors, NEW v \in Quiets
    PROVE  /\ [c EXCEPT !.quiet[m] = v] \in Machines
           /\ [c EXCEPT !.quiet[m] = v].pending = c.pending
           /\ [c EXCEPT !.quiet[m] = v].suppressed = c.suppressed
           /\ [c EXCEPT !.quiet[m] = v].quiet = [c.quiet EXCEPT ![m] = v]
  <1>. DEFINE memories == [Monitors -> 0..CauseMemory]
              queues == Seq(Pending)
              values == Quiets
              d == [c EXCEPT !.quiet[m] = v]
  <1>1. c \in [pending : queues, covered : memories,
                suppressed : SUBSET Monitors, quiet : [Monitors -> values]]
    BY DEF Machines, Quiets
  <1>2. v \in values
    OBVIOUS
  <1>. HIDE DEF memories, queues, values
  <1>3. /\ d \in [pending : queues, covered : memories,
                  suppressed : SUBSET Monitors, quiet : [Monitors -> values]]
        /\ d.pending = c.pending /\ d.suppressed = c.suppressed
        /\ d.quiet = [c.quiet EXCEPT ![m] = v]
    BY <1>1, <1>2
  <1>. QED BY <1>3 DEF Machines, memories, queues, values, Quiets

LEMMA ConfirmQuietIs ==
    ASSUME NEW c \in Machines, NEW m \in Monitors
    PROVE  /\ ConfirmQuiet(c, m) \in Machines
           /\ ConfirmQuiet(c, m).pending = c.pending
           /\ ConfirmQuiet(c, m).suppressed = c.suppressed
           /\ ConfirmQuiet(c, m).quiet
                = [c.quiet EXCEPT ![m] = IF c.quiet[m] = "none" THEN "none" ELSE "confirmed"]
  <1>. DEFINE v == IF c.quiet[m] = "none" THEN "none" ELSE "confirmed"
  <1>1. v \in Quiets
    BY DEF Quiets
  <1>2. ConfirmQuiet(c, m) = [c EXCEPT !.quiet[m] = v]
    BY DEF ConfirmQuiet
  <1>. HIDE DEF v
  <1>3. /\ ConfirmQuiet(c, m) \in Machines
        /\ ConfirmQuiet(c, m).pending = c.pending
        /\ ConfirmQuiet(c, m).suppressed = c.suppressed
        /\ ConfirmQuiet(c, m).quiet = [c.quiet EXCEPT ![m] = v]
    BY <1>1, <1>2, RoutedIs
  <1>. QED BY <1>3 DEF v

LEMMA EnqueueIs ==
    ASSUME NEW c \in Machines, NEW m \in Monitors
    PROVE  /\ Enqueue(c, m) \in Machines
           /\ Ids(Enqueue(c, m).pending) = Ids(c.pending) \cup {m}
           /\ Once(c.pending) /\ m \notin Ids(c.pending) => Once(Enqueue(c, m).pending)
           /\ Enqueue(c, m).suppressed = c.suppressed /\ Enqueue(c, m).quiet = c.quiet
  <1>. DEFINE e == [id |-> m, wait |-> Window, requeued |-> FALSE]
  <1>1. e \in Pending /\ e.id = m
    BY CoalescerAssumption DEF Pending
  <1>2. Enqueue(c, m) = [c EXCEPT !.pending = Append(c.pending, e)]
    BY DEF Enqueue
  <1>. HIDE DEF e
  <1>3. c.pending \in Seq(Pending)
    BY DEF Machines
  <1>4. /\ Append(c.pending, e) \in Seq(Pending)
        /\ Ids(Append(c.pending, e)) = Ids(c.pending) \cup {m}
        /\ Once(c.pending) /\ m \notin Ids(c.pending) => Once(Append(c.pending, e))
    BY <1>1, <1>3, AppendIds
  <1>. QED BY <1>2, <1>4 DEF Machines

\* Min of a set of positions is one of them.
LEMMA MinIsThere ==
    ASSUME NEW S, \A x \in S : x \in Int, IsFiniteSet(S), S # {}
    PROVE  Min(S) \in S
  BY LeastExists DEF Min

LEMMA DroppedIs ==
    ASSUME NEW q \in Seq(Pending), NEW m
    PROVE  /\ Dropped(q, m) \in Seq(Pending) /\ Ids(Dropped(q, m)) \subseteq Ids(q)
           /\ Ids(q) \ {m} \subseteq Ids(Dropped(q, m))
           /\ Once(q) => Once(Dropped(q, m)) /\ m \notin Ids(Dropped(q, m))
  <1>. DEFINE positions == {i \in DOMAIN q : q[i].id = m}
  <1>1. CASE positions = {}
    BY <1>1 DEF Dropped, Ids
  <1>2. CASE positions # {}
    <2>1. IsFiniteSet(1..Len(q)) /\ positions \subseteq 1..Len(q)
      BY FS_Interval
    <2>2. IsFiniteSet(positions) /\ \A i \in positions : i \in Int
      BY <2>1, FS_Subset
    <2>3. Min(positions) \in positions
      <3>. HIDE DEF positions
      <3>. QED BY <1>2, <2>2, MinIsThere
    <2>4. PICK i \in DOMAIN q : q[i].id = m /\ Dropped(q, m) = SwapRemove(q, i)
      BY <1>2, <2>3 DEF Dropped
    <2>. QED BY <2>4, SwapRemoveIds
  <1>. QED BY <1>1, <1>2

\* A message of m leaves what is known of the others.
LEMMA OthersStay ==
    ASSUME NEW h \in Hearings, NEW c, NEW d, NEW out, NEW m, Ids(out) \subseteq {m},
           NEW n \in Monitors, n # m, d.quiet[n] = c.quiet[n],
           n \in Held(d) <=> n \in Held(c), NEW s, Known(c, <<>>, h, n, s)
    PROVE  Known(d, out, h, n, s)
  <1>1. Told(<<>>, h, n) = h[n] /\ Told(out, h, n) = h[n] /\ n \notin Ids(out)
    BY NothingSaid DEF Ids
  <1>. QED BY <1>1, KnownStays

\* The machine after a message of m, by what it says of m.
Handled(c, d, m) ==
    /\ d \in Machines /\ Tidy(d)
    /\ \A n \in Monitors : n # m => /\ d.quiet[n] = c.quiet[n]
                                    /\ n \in Held(d) <=> n \in Held(c)

LEMMA DownIsHandled ==
    ASSUME NEW c \in Machines, Tidy(c), NEW m \in Monitors, NEW local \in BOOLEAN, m \notin Held(c)
    PROVE  LET y == OnDown(c, m, local)
           IN  /\ Handled(c, y.state, m)
               /\ local => /\ y.out = Notify("down", m, QuietAudience)
                           /\ y.state.quiet[m] = "announced" /\ m \notin Held(y.state)
               /\ ~local =>
                    /\ y.state.quiet[m] = IF c.quiet[m] = "none" THEN "none" ELSE "confirmed"
                    /\ \/ y.out = Notify("down", m, {"usual"}) /\ m \notin Held(y.state)
                       \/ y.out = Notify("down", m, {}) /\ m \in Held(y.state)
  <1>. DEFINE y == OnDown(c, m, local)
              k == ConfirmQuiet(c, m)
  <1>0. Notify("down", m, {}) = <<>>
    BY DEF Notify
  <1>1. CASE local
    <2>. DEFINE d == [c EXCEPT !.quiet[m] = "announced"]
    <2>1. y = Yield(d, Notify("down", m, QuietAudience))
      BY <1>1 DEF OnDown
    <2>2. /\ d \in Machines /\ d.pending = c.pending /\ d.suppressed = c.suppressed
          /\ d.quiet = [c.quiet EXCEPT ![m] = "announced"]
      BY RoutedIs DEF Quiets
    <2>. HIDE DEF d
    <2>3. d.quiet[m] = "announced" /\ \A n \in Monitors : n # m => d.quiet[n] = c.quiet[n]
      BY <2>2 DEF Machines
    <2>4. Handled(c, d, m) /\ m \notin Held(d)
      BY <2>2, <2>3 DEF Handled, Tidy, Held
    <2>5. y.state = d /\ y.out = Notify("down", m, QuietAudience)
      BY <2>1 DEF Yield
    <2>. HIDE DEF y
    <2>6. /\ Handled(c, y.state, m) /\ y.out = Notify("down", m, QuietAudience)
          /\ y.state.quiet[m] = "announced" /\ m \notin Held(y.state)
      BY <2>3, <2>4, <2>5
    <2>. QED BY <1>1, <2>6 DEF y
  <1>2. CASE ~local
    <2>1. /\ k \in Machines /\ k.pending = c.pending /\ k.suppressed = c.suppressed
          /\ k.quiet = [c.quiet EXCEPT ![m] = IF c.quiet[m] = "none" THEN "none" ELSE "confirmed"]
      BY ConfirmQuietIs
    <2>2. /\ k.quiet[m] = IF c.quiet[m] = "none" THEN "none" ELSE "confirmed"
          /\ \A n \in Monitors : n # m => k.quiet[n] = c.quiet[n]
      BY <2>1 DEF Machines
    <2>. HIDE DEF k
    <2>3. CASE GoesAtOnce(m)
      <3>1. y = Yield(MarkSent(k, m), Notify("down", m, {"usual"}))
        BY <1>2, <2>3 DEF OnDown, k
      <3>2. /\ MarkSent(k, m) \in Machines
            /\ MarkSent(k, m).pending = c.pending /\ MarkSent(k, m).quiet = k.quiet
            /\ MarkSent(k, m).suppressed = c.suppressed \ {m}
        BY <2>1, MarkSentIs
      <3>3. Handled(c, MarkSent(k, m), m) /\ m \notin Held(MarkSent(k, m))
        BY <2>2, <3>2 DEF Handled, Tidy, Held
      <3>. QED BY <1>2, <2>2, <3>1, <3>2, <3>3 DEF Yield
    <2>4. CASE ~GoesAtOnce(m) /\ CoveredUpstream(k, m)
      <3>1. y = Yield(FoldAlert(k, m), <<>>)
        BY <1>2, <2>4 DEF OnDown, k
      <3>2. /\ FoldAlert(k, m) \in Machines
            /\ FoldAlert(k, m).pending = c.pending /\ FoldAlert(k, m).quiet = k.quiet
            /\ FoldAlert(k, m).suppressed = c.suppressed \cup {m}
        BY <2>1, FoldAlertIs
      <3>3. Handled(c, FoldAlert(k, m), m) /\ m \in Held(FoldAlert(k, m))
        BY <2>2, <3>2 DEF Handled, Tidy, Held
      <3>. QED BY <1>0, <1>2, <2>2, <3>1, <3>2, <3>3 DEF Yield
    <2>5. CASE ~GoesAtOnce(m) /\ ~CoveredUpstream(k, m)
      <3>1. y = Yield(Enqueue(k, m), <<>>)
        BY <1>2, <2>5 DEF OnDown, k
      <3>2. /\ Enqueue(k, m) \in Machines /\ Ids(Enqueue(k, m).pending) = Ids(c.pending) \cup {m}
            /\ Once(c.pending) /\ m \notin Ids(c.pending) => Once(Enqueue(k, m).pending)
            /\ Enqueue(k, m).suppressed = c.suppressed /\ Enqueue(k, m).quiet = k.quiet
        BY <2>1, EnqueueIs
      <3>3. Handled(c, Enqueue(k, m), m) /\ m \in Held(Enqueue(k, m))
        BY <2>2, <3>2 DEF Handled, Tidy, Held
      <3>. QED BY <1>0, <1>2, <2>2, <3>1, <3>2, <3>3 DEF Yield
    <2>. QED BY <2>3, <2>4, <2>5
  <1>. QED BY <1>1, <1>2

LEMMA RecoveryIsHandled ==
    ASSUME NEW c \in Machines, Tidy(c), NEW m \in Monitors
    PROVE  LET y == OnRecovered(c, m)
           IN  /\ Handled(c, y.state, m) /\ y.state.quiet[m] = "none" /\ m \notin Held(y.state)
               /\ y.out = Notify("recovered", m, Recipients(c, m))
  <1>. DEFINE q == Dropped(c.pending, m)
              S == IF m \in Ids(c.pending) THEN c.suppressed ELSE c.suppressed \ {m}
              d == [c EXCEPT !.covered[m] = 0, !.quiet[m] = "none", !.pending = q, !.suppressed = S]
              memories == 0..CauseMemory
              queues == Seq(Pending)
              values == Quiets
  <1>1. OnRecovered(c, m) = Yield(d, Notify("recovered", m, Recipients(c, m)))
    BY QueuedIs DEF OnRecovered, Uncovered
  <1>2. /\ q \in queues /\ Ids(q) \subseteq Ids(c.pending) /\ Ids(c.pending) \ {m} \subseteq Ids(q)
        /\ Once(q) /\ m \notin Ids(q)
    BY DroppedIs DEF Machines, Tidy
  <1>3. S \in SUBSET Monitors /\ S = c.suppressed \ {m}
    BY DEF Tidy, Machines
  <1>4. c \in [pending : queues, covered : [Monitors -> memories],
                suppressed : SUBSET Monitors, quiet : [Monitors -> values]]
    BY DEF Machines, Quiets
  <1>5. 0 \in memories /\ "none" \in values
    BY CoalescerAssumption DEF Quiets
  <1>. HIDE DEF q, S, memories, queues, values
  <1>6. /\ d \in [pending : queues, covered : [Monitors -> memories],
                  suppressed : SUBSET Monitors, quiet : [Monitors -> values]]
        /\ d.pending = q /\ d.suppressed = S /\ d.quiet = [c.quiet EXCEPT ![m] = "none"]
    BY <1>2, <1>3, <1>4, <1>5
  <1>7. d \in Machines
    BY <1>6 DEF Machines, memories, queues, values, Quiets
  <1>8. d.quiet[m] = "none" /\ \A n \in Monitors : n # m => d.quiet[n] = c.quiet[n]
    BY <1>4, <1>6
  <1>. HIDE DEF d
  <1>9. Handled(c, d, m) /\ m \notin Held(d)
    BY <1>2, <1>3, <1>6, <1>7, <1>8 DEF Handled, Tidy, Held
  <1>. QED BY <1>1, <1>8, <1>9 DEF Yield

LEMMA ResumeIsHandled ==
    ASSUME NEW c \in Machines, Tidy(c), NEW m \in Monitors, NEW confirmed \in BOOLEAN
    PROVE  LET y == OnResumed(c, m, confirmed)
           IN  /\ Handled(c, y.state, m) /\ Held(y.state) = Held(c)
               /\ y.state.quiet[m] = (IF confirmed THEN "confirmed" ELSE "announced")
               /\ y.out = <<>>
  <1>. DEFINE v == IF confirmed THEN "confirmed" ELSE "announced"
              d == [c EXCEPT !.quiet[m] = v]
  <1>1. OnResumed(c, m, confirmed) = Yield(d, <<>>)
    BY DEF OnResumed
  <1>2. v \in Quiets
    BY DEF Quiets
  <1>. HIDE DEF v
  <1>3. /\ d \in Machines /\ d.pending = c.pending /\ d.suppressed = c.suppressed
        /\ d.quiet = [c.quiet EXCEPT ![m] = v]
    BY <1>2, RoutedIs
  <1>. HIDE DEF d
  <1>4. d.quiet[m] = v /\ \A n \in Monitors : n # m => d.quiet[n] = c.quiet[n]
    BY <1>3 DEF Machines
  <1>5. Handled(c, d, m) /\ Held(d) = Held(c)
    BY <1>3, <1>4 DEF Handled, Tidy, Held
  <1>. QED BY <1>1, <1>4, <1>5 DEF Yield, v

LEMMA MessageIs ==
    ASSUME NEW msg \in AlertMsg
    PROVE  /\ msg.id \in Monitors /\ msg.kind \in {"down", "recovered", "resumed"}
           /\ msg.kind = "down" => msg.local_only \in BOOLEAN
           /\ msg.kind = "resumed" => msg.confirmed \in BOOLEAN
  BY DEF AlertMsg

\* What Handle does to what is known: m moves on to the entry the message leads to,
\* and what is sent is news.
LEMMA HandleKeeps ==
    ASSUME NEW c \in Machines, Tidy(c), NEW h \in Hearings, NEW msg \in AlertMsg,
           NEW s \in Before(FALSE, msg), Known(c, <<>>, h, msg.id, s),
           msg.kind = "resumed" => h[msg.id] = Left(msg)
    PROVE  LET y == Handle(c, msg)
           IN  /\ y.state \in Machines /\ Tidy(y.state)
               /\ y.out \in Seq(Notification) /\ IsNews(y.out, h)
               /\ Known(y.state, y.out, h, msg.id, After(msg))
               /\ \A n \in Monitors : \A r :
                     n # msg.id /\ Known(c, <<>>, h, n, r) => Known(y.state, y.out, h, n, r)
  <1>. DEFINE m == msg.id
              y == Handle(c, msg)
  <1>1. m \in Monitors /\ msg.kind \in {"down", "recovered", "resumed"}
    BY MessageIs
  <1>2. Told(<<>>, h, m) = h[m] /\ h[m] \in SUBSET Audiences
    BY <1>1, NothingSaid DEF Ids, Hearings
  <1>3. QuietIsNotUsual
    BY QuietApart
  <1>4. ASSUME NEW z, Handled(c, z.state, m), Ids(z.out) \subseteq {m}
        PROVE  \A n \in Monitors : \A r :
                  n # m /\ Known(c, <<>>, h, n, r) => Known(z.state, z.out, h, n, r)
    <2>. SUFFICES ASSUME NEW n \in Monitors, NEW r, n # m, Known(c, <<>>, h, n, r)
                  PROVE  Known(z.state, z.out, h, n, r)
      OBVIOUS
    <2>. HIDE DEF m, y
    <2>1. z.state.quiet[n] = c.quiet[n] /\ (n \in Held(z.state) <=> n \in Held(c))
      BY <1>4 DEF Handled
    <2>. QED BY <1>4, <2>1, OthersStay
  <1>. HIDE DEF m
  <1>5. CASE msg.kind = "down" /\ msg.local_only
    <2>1. /\ y = OnDown(c, m, msg.local_only) /\ After(msg) = "local" /\ s = "healthy"
          /\ msg.local_only \in BOOLEAN
      BY <1>5, MessageIs DEF Handle, After, Before, m
    <2>2. m \notin Held(c) /\ h[m] = {}
      BY <1>2, <2>1 DEF Known, m
    <2>3. /\ Handled(c, y.state, m) /\ y.out = Notify("down", m, QuietAudience)
          /\ y.state.quiet[m] = "announced" /\ m \notin Held(y.state)
      <3>. PICK local \in BOOLEAN : local = msg.local_only
        BY <2>1
      <3>. HIDE DEF y
      <3>1. local /\ y = OnDown(c, m, local)
        BY <1>5, <2>1
      <3>. QED BY <1>1, <2>2, <3>1, DownIsHandled
    <2>4. /\ y.out \in Seq(Notification) /\ Ids(y.out) \subseteq {m} /\ IsNews(y.out, h)
          /\ Told(y.out, h, m) = h[m] \cup QuietAudience
      <3>1. QuietAudience \in SUBSET Audiences /\ QuietAudience \cap h[m] = {}
        BY <1>3, <2>2 DEF QuietIsNotUsual
      <3>. QED BY <1>1, <2>3, <3>1, NotifyTells
    <2>5. Known(y.state, y.out, h, m, After(msg))
      BY <2>1, <2>2, <2>3, <2>4 DEF Known
    <2>. QED BY <1>4, <2>3, <2>4, <2>5 DEF Handled, m
  <1>6. CASE msg.kind = "down" /\ ~msg.local_only
    <2>1. y = OnDown(c, m, FALSE) /\ After(msg) = "down" /\ s \in {"healthy", "local"}
      <3>1. msg.local_only = FALSE
        BY <1>6, MessageIs
      <3>. QED BY <1>6, <3>1 DEF Handle, After, Before, m
    <2>2. /\ m \notin Held(c) /\ "usual" \notin h[m] /\ c.quiet[m] \in {"none", "announced"}
          /\ h[m] = IF c.quiet[m] = "none" THEN {} ELSE QuietAudience
      BY <1>2, <1>3, <2>1 DEF Known, QuietIsNotUsual, m
    <2>3. /\ Handled(c, y.state, m)
          /\ y.state.quiet[m] = IF c.quiet[m] = "none" THEN "none" ELSE "confirmed"
          /\ \/ y.out = Notify("down", m, {"usual"}) /\ m \notin Held(y.state)
             \/ y.out = Notify("down", m, {}) /\ m \in Held(y.state)
      BY <1>1, <2>1, <2>2, DownIsHandled
    <2>4. PICK to \in SUBSET Audiences :
            /\ y.out = Notify("down", m, to) /\ to = IF m \in Held(y.state) THEN {} ELSE {"usual"}
      BY <2>3 DEF Audiences
    <2>5. /\ y.out \in Seq(Notification) /\ Ids(y.out) \subseteq {m} /\ IsNews(y.out, h)
          /\ Told(y.out, h, m) = h[m] \cup to
      <3>1. to \cap h[m] = {}
        BY <2>2, <2>4
      <3>. QED BY <1>1, <2>4, <3>1, NotifyTells
    <2>6. Known(y.state, y.out, h, m, After(msg))
      BY <2>1, <2>2, <2>3, <2>4, <2>5 DEF Known
    <2>. QED BY <1>4, <2>3, <2>5, <2>6 DEF Handled, m
  <1>7. CASE msg.kind = "recovered"
    <2>1. y = OnRecovered(c, m) /\ After(msg) = "healthy" /\ s \in {"local", "down"}
      BY <1>7 DEF Handle, After, Before, m
    <2>2. Recipients(c, m) = h[m]
      BY <1>2, <2>1, QueuedIs DEF Recipients, Known, Held, m
    <2>3. /\ Handled(c, y.state, m) /\ y.state.quiet[m] = "none" /\ m \notin Held(y.state)
          /\ y.out = Notify("recovered", m, h[m])
      BY <1>1, <2>1, <2>2, RecoveryIsHandled
    <2>4. /\ y.out \in Seq(Notification) /\ Ids(y.out) \subseteq {m} /\ IsNews(y.out, h)
          /\ Told(y.out, h, m) = h[m] \ h[m]
      BY <1>1, <1>2, <2>3, NotifyTells
    <2>5. Known(y.state, y.out, h, m, After(msg))
      BY <2>1, <2>3, <2>4 DEF Known
    <2>. QED BY <1>4, <2>3, <2>4, <2>5 DEF Handled, m
  <1>8. CASE msg.kind = "resumed"
    <2>1. /\ y = OnResumed(c, m, msg.confirmed) /\ After(msg) = (IF msg.confirmed THEN "down" ELSE "local")
          /\ s = "unknown" /\ msg.confirmed \in BOOLEAN
      BY <1>8, MessageIs DEF Handle, After, Before, m
    <2>2. m \notin Held(c) /\ h[m] \in LeftAnnounced /\ h[m] = Left(msg)
      BY <1>8, <2>1 DEF Known, m
    <2>3. QuietAudience = {"quiet"}
      BY <2>2 DEF LeftAnnounced, Left, QuietAudience, Audiences
    <2>4. /\ Handled(c, y.state, m) /\ Held(y.state) = Held(c) /\ y.out = <<>>
          /\ y.state.quiet[m] = (IF msg.confirmed THEN "confirmed" ELSE "announced")
      BY <1>1, <2>1, ResumeIsHandled
    <2>5. /\ y.out \in Seq(Notification) /\ Ids(y.out) = {} /\ IsNews(y.out, h)
      BY <2>4 DEF Ids, IsNews, Once
    <2>6. Told(y.out, h, m) = h[m]
      BY <1>1, <2>5, NothingSaid
    <2>7. Known(y.state, y.out, h, m, After(msg))
      BY <2>1, <2>2, <2>3, <2>4, <2>6 DEF Known, Left, Audiences
    <2>. QED BY <1>4, <2>4, <2>5, <2>7 DEF Handled, m
  <1>. QED BY <1>1, <1>5, <1>6, <1>7, <1>8

\* A second changes no one's place.
Later(c) ==
    [c EXCEPT !.pending = Nearer(@), !.covered = [m \in Monitors |-> Less(@[m])]]

LEMMA SecondKeeps ==
    ASSUME NEW c \in Machines
    PROVE  /\ Later(c) \in Machines /\ Later(c).quiet = c.quiet
           /\ Later(c).suppressed = c.suppressed
           /\ Ids(Later(c).pending) = Ids(c.pending)
           /\ Once(c.pending) => Once(Later(c).pending)
  <1>. DEFINE q == Nearer(c.pending)
              v == [m \in Monitors |-> Less(c.covered[m])]
  <1>1. c.pending \in Seq(Pending) /\ c.covered \in [Monitors -> 0..CauseMemory]
    BY DEF Machines
  <1>2. \A i \in DOMAIN c.pending :
            [c.pending[i] EXCEPT !.wait = @ - 1] \in Pending
            /\ [c.pending[i] EXCEPT !.wait = @ - 1].id = c.pending[i].id
    <2>1. \A p \in Pending : [p EXCEPT !.wait = @ - 1] \in Pending /\ [p EXCEPT !.wait = @ - 1].id = p.id
      BY DEF Pending
    <2>. QED BY <1>1, <2>1
  <1>3. q \in Seq(Pending)
    <2>1. q = [i \in DOMAIN c.pending |-> [c.pending[i] EXCEPT !.wait = @ - 1]]
      BY DEF Nearer
    <2>2. Len(c.pending) \in Nat /\ DOMAIN c.pending = 1..Len(c.pending)
      BY <1>1
    <2>3. q \in [1..Len(c.pending) -> Pending]
      BY <1>2, <2>1, <2>2
    <2>. QED BY <2>2, <2>3
  <1>4. v \in [Monitors -> 0..CauseMemory]
    BY <1>1, CoalescerAssumption DEF Less
  <1>5. DOMAIN q = DOMAIN c.pending /\ \A i \in DOMAIN q : q[i].id = c.pending[i].id
    BY <1>2 DEF Nearer
  <1>. DEFINE memories == [Monitors -> 0..CauseMemory]
              queues == Seq(Pending)
              values == [Monitors -> Quiets]
              d == [c EXCEPT !.pending = q, !.covered = v]
  <1>6. /\ c \in [pending : queues, covered : memories, suppressed : SUBSET Monitors, quiet : values]
        /\ q \in queues /\ v \in memories
    BY <1>3, <1>4 DEF Machines, Quiets
  <1>7. Later(c) = d
    BY DEF Later
  <1>. HIDE DEF q, v, memories, queues, values
  <1>9. /\ d \in [pending : queues, covered : memories, suppressed : SUBSET Monitors, quiet : values]
        /\ d.pending = q /\ d.quiet = c.quiet /\ d.suppressed = c.suppressed
    BY <1>6
  <1>10. d \in Machines
    BY <1>9 DEF Machines, memories, queues, values, Quiets
  <1>8. Ids(q) = Ids(c.pending) /\ (Once(c.pending) => Once(q))
    BY <1>5 DEF Ids, Once
  <1>. QED BY <1>7, <1>8, <1>9, <1>10

---------------------------------------------------------------------------
(* The messages on their way *)

\* The entries m goes through as the messages are handled; a task that resumes
\* does it from the outage its audiences were left with.
Course(b, e, box, h, m) ==
    /\ e \in [0..Len(box) -> Announced]
    /\ \A i \in DOMAIN box :
          /\ box[i].id # m => e[i] = e[i - 1]
          /\ box[i].id = m => /\ e[i - 1] \in Before(b, box[i]) /\ e[i] = After(box[i])
                              /\ box[i].kind = "resumed" => h[m] = Left(box[i])

LEMMA AfterIs ==
    ASSUME NEW msg \in AlertMsg, NEW b \in BOOLEAN
    PROVE  /\ After(msg) \in Announced \ {"unknown"} /\ Before(b, msg) \subseteq Announced
           /\ msg.kind = "resumed" => Before(b, msg) = {"unknown"}
  BY MessageIs DEF After, Before, Announced

\* A monitor not yet resumed has no message on its way before that.
LEMMA UnknownFromTheStart ==
    ASSUME NEW b \in BOOLEAN, NEW box \in Seq(AlertMsg),
           NEW h, NEW m, NEW e, Course(b, e, box, h, m),
           NEW k \in 0..Len(box), e[k] = "unknown"
    PROVE  \A i \in 0..k : e[i] = "unknown"
  <1>. DEFINE S == {i \in 0..k : e[i] # "unknown"}
  <1>1. k \in Nat /\ Len(box) \in Nat /\ k <= Len(box) /\ DOMAIN box = 1..Len(box)
    OBVIOUS
  <1>. SUFFICES ASSUME S # {} PROVE FALSE
    OBVIOUS
  <1>2. IsFiniteSet(S) /\ \A x \in S : x \in Int
    <2>1. IsFiniteSet(0..k)
      BY <1>1, FS_Interval
    <2>. QED BY <2>1, FS_Subset, <1>1
  <1>3. PICK i \in S : \A j \in S : j <= i
    <2>. HIDE DEF S
    <2>. QED BY <1>2, GreatestExists
  <1>4. i \in 0..k /\ i # k /\ e[i] # "unknown"
    OBVIOUS
  <1>5. i + 1 \in 0..k /\ i + 1 \in 1..Len(box) /\ i + 1 - 1 = i /\ ~(i + 1 <= i)
    BY <1>1, <1>4
  <1>6. e[i + 1] = "unknown"
    BY <1>3, <1>5
  <1>7. /\ box[i + 1] \in AlertMsg
        /\ e[i + 1] = e[i] \/ e[i + 1] = After(box[i + 1])
    <2>. PICK j \in DOMAIN box : j = i + 1 /\ j - 1 = i
      BY <1>1, <1>5
    <2>1. box[j] \in AlertMsg /\ (e[j] = e[j - 1] \/ e[j] = After(box[j]))
      BY DEF Course
    <2>. QED BY <2>1
  <1>. QED BY <1>4, <1>6, <1>7, AfterIs

\* A monitor without a message stays at its entry.
LEMMA NoMessageNoMove ==
    ASSUME NEW b \in BOOLEAN, NEW box \in Seq(AlertMsg),
           NEW h, NEW m, NEW e, Course(b, e, box, h, m),
           \A i \in DOMAIN box : box[i].id # m
    PROVE  e[0] = e[Len(box)]
  <1>. DEFINE S == {i \in 0..Len(box) : e[i] # e[0]}
  <1>1. Len(box) \in Nat /\ DOMAIN box = 1..Len(box)
    OBVIOUS
  <1>. SUFFICES ASSUME S # {} PROVE FALSE
    BY <1>1
  <1>2. IsFiniteSet(S) /\ \A x \in S : x \in Int
    <2>1. IsFiniteSet(0..Len(box))
      BY <1>1, FS_Interval
    <2>. QED BY <2>1, FS_Subset, <1>1
  <1>3. PICK i \in S : \A j \in S : i <= j
    <2>. HIDE DEF S
    <2>. QED BY <1>2, LeastExists
  <1>4. i \in 0..Len(box) /\ i # 0 /\ e[i] # e[0]
    OBVIOUS
  <1>5. i - 1 \in 0..Len(box) /\ i \in 1..Len(box) /\ ~(i <= i - 1)
    BY <1>1, <1>4
  <1>6. e[i - 1] = e[0]
    BY <1>3, <1>5
  <1>. QED BY <1>1, <1>4, <1>5, <1>6 DEF Course

LEMMA CourseTail ==
    ASSUME NEW b \in BOOLEAN, NEW box \in Seq(AlertMsg),
           box # <<>>, NEW h, NEW m, NEW e, Course(b, e, box, h, m)
    PROVE  \E f : Course(b, f, Tail(box), h, m) /\ f[0] = e[1] /\ f[Len(Tail(box))] = e[Len(box)]
  <1>. DEFINE rest == Tail(box)
              f == [i \in 0..(Len(box) - 1) |-> e[i + 1]]
  <1>1. /\ Len(box) \in Nat /\ Len(box) >= 1 /\ DOMAIN box = 1..Len(box)
        /\ DOMAIN rest = 1..(Len(box) - 1) /\ Len(rest) = Len(box) - 1
        /\ \A i \in 1..(Len(box) - 1) : /\ rest[i] = box[i + 1] /\ i + 1 \in 1..Len(box)
                                        /\ i - 1 \in 0..(Len(box) - 1) /\ i \in 0..(Len(box) - 1)
                                        /\ i - 1 + 1 = i /\ i + 1 - 1 = i
        /\ \A i \in 0..(Len(box) - 1) : i + 1 \in 0..Len(box)
        /\ 0 \in 0..(Len(box) - 1) /\ Len(box) - 1 \in 0..(Len(box) - 1)
        /\ Len(box) - 1 + 1 = Len(box) /\ 0 + 1 = 1
    OBVIOUS
  <1>2. f \in [0..(Len(box) - 1) -> Announced]
    BY <1>1 DEF Course
  <1>3. \A i \in 1..(Len(box) - 1) : f[i] = e[i + 1] /\ f[i - 1] = e[i]
    BY <1>1
  <1>4. f[0] = e[1] /\ f[Len(box) - 1] = e[Len(box)]
    BY <1>1
  <1>. HIDE DEF f, rest
  <1>5. Course(b, f, rest, h, m)
    <2>1. ASSUME NEW i \in 1..(Len(box) - 1)
          PROVE  /\ rest[i].id # m => f[i] = f[i - 1]
                 /\ rest[i].id = m => /\ f[i - 1] \in Before(b, rest[i]) /\ f[i] = After(rest[i])
                                      /\ rest[i].kind = "resumed" => h[m] = Left(rest[i])
      <3>1. i + 1 \in DOMAIN box /\ i + 1 - 1 = i /\ rest[i] = box[i + 1]
        BY <1>1
      <3>2. /\ box[i + 1].id # m => e[i + 1] = e[i]
            /\ box[i + 1].id = m => /\ e[i] \in Before(b, box[i + 1]) /\ e[i + 1] = After(box[i + 1])
                                    /\ box[i + 1].kind = "resumed" => h[m] = Left(box[i + 1])
        BY <3>1 DEF Course
      <3>. QED BY <3>1, <3>2, <1>3
    <2>. QED BY <2>1, <1>1, <1>2 DEF Course
  <1>. QED BY <1>1, <1>4, <1>5 DEF rest

LEMMA CourseAppend ==
    ASSUME NEW b \in BOOLEAN, NEW box \in Seq(AlertMsg),
           NEW h, NEW m, NEW e, Course(b, e, box, h, m),
           NEW msg \in AlertMsg, NEW v \in Announced,
           msg.id # m => v = e[Len(box)],
           msg.id = m => /\ e[Len(box)] \in Before(b, msg) /\ v = After(msg)
                         /\ msg.kind = "resumed" => h[m] = Left(msg)
    PROVE  \E f : /\ Course(b, f, Append(box, msg), h, m) /\ f[0] = e[0]
                  /\ f[Len(Append(box, msg))] = v
  <1>. DEFINE more == Append(box, msg)
              N == Len(box)
              f == [i \in 0..(N + 1) |-> IF i = N + 1 THEN v ELSE e[i]]
  <1>1. /\ N \in Nat /\ DOMAIN box = 1..N /\ DOMAIN more = 1..(N + 1) /\ Len(more) = N + 1
        /\ \A i \in 1..N : more[i] = box[i]
        /\ more[N + 1] = msg
    OBVIOUS
  <1>. HIDE DEF more, N
  <1>2. e \in [0..N -> Announced]
    BY DEF Course, N
  <1>3. /\ \A i \in 0..(N + 1) : i # N + 1 => i \in 0..N
        /\ \A i \in 0..N : i \in 0..(N + 1) /\ i # N + 1
        /\ N + 1 \in 0..(N + 1) /\ 0 \in 0..N /\ N \in 0..N /\ N + 1 - 1 = N
        /\ \A i \in 1..(N + 1) : i # N + 1 => i \in 1..N
        /\ \A i \in 1..N : i \in 0..N /\ i - 1 \in 0..N
    BY <1>1
  <1>4. f \in [0..(N + 1) -> Announced]
    BY <1>2, <1>3
  <1>5. f[N + 1] = v /\ \A i \in 0..N : f[i] = e[i]
    BY <1>3
  <1>. HIDE DEF f
  <1>6. Course(b, f, more, h, m)
    <2>1. ASSUME NEW i \in 1..(N + 1)
          PROVE  /\ more[i].id # m => f[i] = f[i - 1]
                 /\ more[i].id = m => /\ f[i - 1] \in Before(b, more[i]) /\ f[i] = After(more[i])
                                      /\ more[i].kind = "resumed" => h[m] = Left(more[i])
      <3>1. CASE i = N + 1
        BY <3>1, <1>1, <1>3, <1>5 DEF N
      <3>2. CASE i # N + 1
        <4>1. i \in 1..N /\ f[i] = e[i] /\ f[i - 1] = e[i - 1] /\ more[i] = box[i]
          BY <3>2, <1>1, <1>3, <1>5
        <4>2. /\ box[i].id # m => e[i] = e[i - 1]
              /\ box[i].id = m => /\ e[i - 1] \in Before(b, box[i]) /\ e[i] = After(box[i])
                                  /\ box[i].kind = "resumed" => h[m] = Left(box[i])
          BY <4>1, <1>1 DEF Course
        <4>. QED BY <4>1, <4>2
      <3>. QED BY <3>1, <3>2
    <2>. QED BY <2>1, <1>1, <1>4 DEF Course
  <1>. QED BY <1>1, <1>3, <1>5, <1>6 DEF more, N

\* What is heard meanwhile does not touch a task that has yet to resume.
LEMMA CourseHeard ==
    ASSUME NEW b \in BOOLEAN, NEW box \in Seq(AlertMsg),
           NEW h, NEW g, NEW m, NEW e, Course(b, e, box, h, m),
           e[0] = "unknown" => g[m] = h[m]
    PROVE  Course(b, e, box, g, m)
  <1>1. ASSUME NEW i \in DOMAIN box, box[i].id = m, box[i].kind = "resumed"
        PROVE  g[m] = Left(box[i])
    <2>1. /\ Len(box) \in Nat /\ i - 1 \in 0..Len(box) /\ 0 \in 0..(i - 1) /\ box[i] \in AlertMsg
      OBVIOUS
    <2>2. e[i - 1] = "unknown" /\ h[m] = Left(box[i])
      BY <1>1, <2>1, AfterIs DEF Course
    <2>3. e[0] = "unknown"
      BY <2>1, <2>2, UnknownFromTheStart
    <2>. QED BY <2>2, <2>3
  <1>. QED BY <1>1 DEF Course

---------------------------------------------------------------------------
(* The invariant *)

RoutesTypeOK ==
    /\ inbox \in Seq(AlertMsg)
    /\ ledger \in [Monitors -> Announced]
    /\ coalescer \in Machines
    /\ outbox \in Seq(Notification)
    /\ heard \in Hearings

\* What is known of m is the entry its messages start from, and they lead to what
\* it was last announced as.
Follows(m) ==
    \E e \in [0..Len(inbox) -> Announced] :
        /\ Course(FALSE, e, inbox, heard, m)
        /\ Known(coalescer, outbox, heard, m, e[0])
        /\ e[Len(inbox)] = ledger[m]

RoutesInv ==
    /\ RoutesTypeOK
    /\ Tidy(coalescer)
    /\ IsNews(outbox, heard)
    /\ \A m \in Monitors : Follows(m)

\* Nobody was told of a monitor that has yet to resume: its channels are as they
\* were left.
LEMMA LeftBehind ==
    ASSUME NEW m \in Monitors, RoutesInv, ledger[m] = "unknown"
    PROVE  /\ Known(coalescer, outbox, heard, m, "unknown")
           /\ \A i \in DOMAIN inbox : inbox[i].id # m
  <1>. USE DEF RoutesInv, RoutesTypeOK
  <1>1. PICK e \in [0..Len(inbox) -> Announced] :
           /\ Course(FALSE, e, inbox, heard, m)
           /\ Known(coalescer, outbox, heard, m, e[0])
           /\ e[Len(inbox)] = ledger[m]
    BY DEF Follows
  <1>2. Len(inbox) \in Nat /\ Len(inbox) \in 0..Len(inbox) /\ 0 \in 0..Len(inbox)
        /\ \A i \in DOMAIN inbox : i \in 0..Len(inbox) /\ inbox[i] \in AlertMsg
    OBVIOUS
  <1>3. \A i \in 0..Len(inbox) : e[i] = "unknown"
    BY <1>1, <1>2, UnknownFromTheStart
  <1>. QED BY <1>1, <1>2, <1>3, AfterIs DEF Course

\* A message sent with its entry.
LEMMA SendKeeps ==
    ASSUME RoutesInv, NEW msg \in AlertMsg, NEW m \in Monitors, msg.id = m,
           Send(msg), Enter(m, After(msg)), UNCHANGED coalescerVars,
           ledger[m] \in Before(FALSE, msg), msg.kind = "resumed" => heard[m] = Left(msg)
    PROVE  RoutesInv'
  <1>. USE DEF coalescerVars
  <1>1. RoutesTypeOK'
    <2>1. After(msg) \in Announced
      BY AfterIs
    <2>. QED BY <2>1 DEF RoutesInv, RoutesTypeOK, Send, Enter
  <1>2. ASSUME NEW n \in Monitors PROVE Follows(n)'
    <2>0. inbox \in Seq(AlertMsg) /\ ledger \in [Monitors -> Announced]
      BY DEF RoutesInv, RoutesTypeOK
    <2>1. PICK e \in [0..Len(inbox) -> Announced] :
             /\ Course(FALSE, e, inbox, heard, n)
             /\ Known(coalescer, outbox, heard, n, e[0])
             /\ e[Len(inbox)] = ledger[n]
      BY DEF RoutesInv, Follows
    <2>2. /\ ledger'[n] \in Announced
          /\ n # m => ledger'[n] = ledger[n]
          /\ n = m => ledger'[n] = After(msg)
      BY <1>1, <2>0 DEF RoutesTypeOK, Enter
    <2>3. PICK f : /\ Course(FALSE, f, Append(inbox, msg), heard, n) /\ f[0] = e[0]
                   /\ f[Len(Append(inbox, msg))] = ledger'[n]
      BY <2>0, <2>1, <2>2, CourseAppend
    <2>4. /\ inbox' = Append(inbox, msg) /\ heard' = heard
          /\ coalescer' = coalescer /\ outbox' = outbox
      BY DEF Send
    <2>5. f \in [0..Len(inbox') -> Announced]
      BY <2>3, <2>4 DEF Course
    <2>. QED BY <2>1, <2>3, <2>4, <2>5 DEF Follows
  <1>. QED BY <1>1, <1>2 DEF RoutesInv

\* A task that resumes with nothing to say to the coalescer.
LEMMA SilentResumeKeeps ==
    ASSUME RoutesInv, NEW m \in Monitors, NEW entry \in {"healthy", "down"},
           ledger[m] = "unknown", Enter(m, entry), UNCHANGED inbox, UNCHANGED coalescerVars,
           heard[m] = IF entry = "healthy" THEN {} ELSE {"usual"}
    PROVE  RoutesInv'
  <1>. USE DEF coalescerVars
  <1>0. /\ inbox \in Seq(AlertMsg) /\ ledger \in [Monitors -> Announced] /\ heard \in Hearings
        /\ Len(inbox) \in Nat /\ Len(inbox) \in 0..Len(inbox) /\ 0 \in 0..Len(inbox)
    BY DEF RoutesInv, RoutesTypeOK
  <1>1. RoutesTypeOK'
    BY DEF RoutesInv, RoutesTypeOK, Enter, Announced
  <1>2. Follows(m)'
    <2>1. /\ Known(coalescer, outbox, heard, m, "unknown")
          /\ \A i \in DOMAIN inbox : inbox[i].id # m
      BY LeftBehind
    <2>2. Known(coalescer, outbox, heard, m, entry)
      <3>1. Told(outbox, heard, m) = heard[m]
        BY <1>0, <2>1, NothingSaid DEF Known
      <3>. QED BY <2>1, <3>1 DEF Known
    <2>. DEFINE e == [i \in 0..Len(inbox) |-> entry]
    <2>3. Course(FALSE, e, inbox, heard, m)
      <3>1. \A i \in DOMAIN inbox : i \in 0..Len(inbox) /\ i - 1 \in 0..Len(inbox)
        BY <1>0
      <3>. QED BY <2>1, <3>1 DEF Course, Announced
    <2>4. e[0] = entry /\ e[Len(inbox)] = entry /\ e \in [0..Len(inbox) -> Announced]
      BY <1>0 DEF Announced
    <2>. HIDE DEF e
    <2>5. ledger'[m] = entry
      BY <1>0 DEF Enter
    <2>. QED BY <2>2, <2>3, <2>4, <2>5 DEF Follows
  <1>3. ASSUME NEW n \in Monitors, n # m PROVE Follows(n)'
    <2>1. ledger'[n] = ledger[n]
      BY <1>0, <1>3 DEF Enter
    <2>2. Follows(n)
      BY DEF RoutesInv
    <2>. QED BY <2>1, <2>2 DEF Follows
  <1>. QED BY <1>1, <1>2, <1>3 DEF RoutesInv

\* What a task's step is to the coalescer: it resumes in silence, sends a message
\* with its entry, or announces a degradation past it.
LEMMA AnnouncesIs ==
    ASSUME NEW m \in Monitors, Announces(m),
           inbox \in Seq(AlertMsg), ledger \in [Monitors -> Entries]
    PROVE  /\ UNCHANGED coalescerVars
           /\ \/ \E entry \in {"healthy", "down"} :
                    /\ ledger[m] = "unknown" /\ Enter(m, entry) /\ UNCHANGED inbox
                    /\ heard[m] = IF entry = "healthy" THEN {} ELSE {"usual"}
              \/ \E msg \in AlertMsg :
                    /\ msg.id = m /\ Send(msg) /\ Enter(m, After(msg))
                    /\ ledger[m] = "unknown" <=> msg.kind = "resumed"
                    /\ msg.kind = "resumed" => heard[m] = Left(msg)
                    /\ ledger[m] # "degraded" => ledger[m] \in Before(FALSE, msg)
              \/ AnnounceDegraded(m)
  <1>0. UNCHANGED coalescerVars
    BY DEF Announces
  <1>. DEFINE Silent == \E entry \in {"healthy", "down"} :
                 /\ ledger[m] = "unknown" /\ Enter(m, entry) /\ UNCHANGED inbox
                 /\ heard[m] = IF entry = "healthy" THEN {} ELSE {"usual"}
              Sends(msg) ==
                 /\ msg.id = m /\ Send(msg) /\ Enter(m, After(msg))
                 /\ ledger[m] = "unknown" <=> msg.kind = "resumed"
                 /\ msg.kind = "resumed" => heard[m] = Left(msg)
                 /\ ledger[m] # "degraded" => ledger[m] \in Before(FALSE, msg)
  <1>1. CASE Resume(m) /\ Resumed(m) = heard[m]
    <2>0. ledger[m] = "unknown"
      BY <1>1 DEF Resume
    <2>1. CASE \E entry \in {"healthy", "down"} : Enter(m, entry) /\ UNCHANGED inbox
      <3>1. PICK entry \in {"healthy", "down"} : Enter(m, entry) /\ UNCHANGED inbox
        BY <2>1
      <3>2. ledger'[m] = entry
        BY <3>1 DEF Enter
      <3>3. heard[m] = IF entry = "healthy" THEN {} ELSE {"usual"}
        BY <1>1, <3>1, <3>2 DEF Resumed
      <3>. QED BY <1>0, <2>0, <3>1, <3>3
    <2>2. ASSUME NEW confirmed \in BOOLEAN,
                 Enter(m, IF confirmed THEN "down" ELSE "local"),
                 Send(ResumedLocalOnly(m, confirmed))
          PROVE  \E msg \in AlertMsg : Sends(msg)
      <3>. DEFINE msg == ResumedLocalOnly(m, confirmed)
      <3>1. /\ msg \in AlertMsg /\ msg.id = m /\ msg.kind = "resumed" /\ Before(FALSE, msg) = {"unknown"}
            /\ After(msg) = (IF confirmed THEN "down" ELSE "local")
            /\ Left(msg) = IF confirmed THEN Audiences ELSE {"quiet"}
        BY DEF ResumedLocalOnly, AlertMsg, Before, After, Left
      <3>. HIDE DEF msg
      <3>2. inbox' = Append(inbox, msg)
        BY <2>2 DEF Send, msg
      <3>3. inbox' # inbox
        <4>1. Len(inbox') = Len(inbox) + 1 /\ Len(inbox) \in Nat
          BY <3>1, <3>2
        <4>. QED BY <4>1
      <3>4. ledger'[m] = (IF confirmed THEN "down" ELSE "local")
        BY <2>2 DEF Enter
      <3>5. heard[m] = Left(msg)
        BY <1>1, <3>1, <3>3, <3>4 DEF Resumed
      <3>. QED BY <2>0, <2>2, <3>1, <3>2, <3>5 DEF Send
    <2>3. \/ \E entry \in {"healthy", "down"} : Enter(m, entry) /\ UNCHANGED inbox
          \/ Enter(m, "down") /\ Send(ResumedLocalOnly(m, TRUE))
          \/ Enter(m, "local") /\ Send(ResumedLocalOnly(m, FALSE))
      BY <1>1 DEF Resume
    <2>. QED BY <1>0, <2>1, <2>2, <2>3
  <1>2. ASSUME NEW local \in BOOLEAN, ledger[m] # "unknown",
               ledger[m] \in (IF local THEN {"healthy", "degraded"}
                                        ELSE {"healthy", "local", "degraded"}),
               Enter(m, IF local THEN "local" ELSE "down"), Send(Down(m, local))
        PROVE  \E msg \in AlertMsg : Sends(msg)
    <2>. DEFINE msg == Down(m, local)
    <2>1. /\ msg \in AlertMsg /\ msg.id = m /\ msg.kind # "resumed"
          /\ Before(FALSE, msg) = (IF local THEN {"healthy"} ELSE {"healthy", "local"})
          /\ After(msg) = (IF local THEN "local" ELSE "down")
      BY DEF Down, AlertMsg, Before, After
    <2>. HIDE DEF msg
    <2>2. Send(msg)
      BY <1>2 DEF msg
    <2>. QED BY <1>2, <2>1, <2>2
  <1>3. CASE AnnounceDown(m)
    <2>1. PICK local \in BOOLEAN : Enter(m, IF local THEN "local" ELSE "down") /\ Send(Down(m, local))
      BY <1>3 DEF AnnounceDown
    <2>2. ledger[m] \in {"healthy", "degraded"}
      BY <1>3 DEF AnnounceDown
    <2>3. \E msg \in AlertMsg : Sends(msg)
      BY <1>2, <2>1, <2>2
    <2>. QED BY <1>0, <2>3
  <1>4. CASE ConfirmLocal(m)
    <2>1. \E msg \in AlertMsg : Sends(msg)
      BY <1>2, <1>4 DEF ConfirmLocal
    <2>. QED BY <1>0, <2>1
  <1>5. CASE AnnounceRecovery(m)
    <2>. DEFINE msg == Recovered(m)
    <2>1. /\ msg \in AlertMsg /\ msg.id = m /\ msg.kind # "resumed"
          /\ Before(FALSE, msg) = {"local", "down"} /\ After(msg) = "healthy"
      BY DEF Recovered, AlertMsg, Before, After
    <2>. HIDE DEF msg
    <2>2. Send(msg) /\ Enter(m, After(msg)) /\ ledger[m] \in {"local", "down", "degraded"}
      BY <1>5, <2>1 DEF AnnounceRecovery, msg
    <2>3. Sends(msg)
      BY <2>1, <2>2
    <2>. QED BY <1>0, <2>1, <2>3
  <1>. QED BY <1>0, <1>1, <1>3, <1>4, <1>5 DEF Announces

LEMMA AnnouncesKeeps ==
    ASSUME RoutesInv, ~AlertOnDegraded, NEW m \in Monitors, Announces(m)
    PROVE  RoutesInv'
  <1>1. /\ inbox \in Seq(AlertMsg) /\ ledger \in [Monitors -> Entries] /\ ledger[m] # "degraded"
        /\ ~AnnounceDegraded(m)
    BY DEF RoutesInv, RoutesTypeOK, Announced, Entries, AnnounceDegraded
  <1>. QED BY <1>1, AnnouncesIs, SilentResumeKeeps, SendKeeps

LEMMA ReceiveKeeps ==
    ASSUME RoutesInv, Receive, UNCHANGED ledger
    PROVE  RoutesInv'
  <1>. DEFINE msg == Head(inbox)
              y == Handle(coalescer, msg)
  <1>1. /\ inbox \in Seq(AlertMsg) /\ inbox # <<>> /\ outbox = <<>> /\ inbox' = Tail(inbox)
        /\ coalescer \in Machines /\ Tidy(coalescer) /\ heard \in Hearings /\ heard' = heard
        /\ ledger \in [Monitors -> Announced] /\ ledger' = ledger
        /\ coalescer' = y.state /\ outbox' = y.out
    BY DEF RoutesInv, RoutesTypeOK, Receive, Selecting, Dispatching
  <1>2. /\ msg \in AlertMsg /\ msg = inbox[1] /\ 1 \in DOMAIN inbox /\ Tail(inbox) \in Seq(AlertMsg)
        /\ 1 - 1 = 0 /\ 0 \in 0..Len(inbox)
    BY <1>1
  <1>3. \A n \in Monitors : Follows(n)
    BY DEF RoutesInv
  <1>. HIDE DEF msg, y
  <1>4. PICK e \in [0..Len(inbox) -> Announced] :
           /\ Course(FALSE, e, inbox, heard, msg.id)
           /\ Known(coalescer, <<>>, heard, msg.id, e[0])
    BY <1>1, <1>2, <1>3, MessageIs DEF Follows
  <1>5. e[0] \in Before(FALSE, msg) /\ (msg.kind = "resumed" => heard[msg.id] = Left(msg))
    BY <1>2, <1>4 DEF Course
  <1>6. /\ y.state \in Machines /\ Tidy(y.state)
        /\ y.out \in Seq(Notification) /\ IsNews(y.out, heard)
        /\ Known(y.state, y.out, heard, msg.id, After(msg))
        /\ \A n \in Monitors : \A r :
              n # msg.id /\ Known(coalescer, <<>>, heard, n, r) => Known(y.state, y.out, heard, n, r)
    BY <1>1, <1>2, <1>4, <1>5, HandleKeeps DEF y
  <1>7. ASSUME NEW n \in Monitors PROVE Follows(n)'
    <2>1. PICK d \in [0..Len(inbox) -> Announced] :
             /\ Course(FALSE, d, inbox, heard, n)
             /\ Known(coalescer, <<>>, heard, n, d[0])
             /\ d[Len(inbox)] = ledger[n]
      BY <1>1, <1>3 DEF Follows
    <2>2. PICK f : /\ Course(FALSE, f, Tail(inbox), heard, n) /\ f[0] = d[1]
                   /\ f[Len(Tail(inbox))] = d[Len(inbox)]
      <3>1. /\ FALSE \in BOOLEAN /\ inbox \in Seq(AlertMsg) /\ inbox # <<>>
            /\ Course(FALSE, d, inbox, heard, n)
        BY <1>1, <2>1
      <3>. QED BY <3>1, CourseTail
    <2>3. /\ n # msg.id => d[1] = d[0]
          /\ n = msg.id => d[1] = After(msg)
      BY <1>2, <2>1 DEF Course
    <2>4. Known(y.state, y.out, heard, n, f[0])
      BY <1>6, <2>1, <2>2, <2>3
    <2>5. f \in [0..Len(Tail(inbox)) -> Announced]
      BY <2>2 DEF Course
    <2>. QED BY <1>1, <2>1, <2>2, <2>4, <2>5 DEF Follows
  <1>. QED BY <1>1, <1>2, <1>6, <1>7 DEF RoutesInv, RoutesTypeOK

LEMMA FlushingKeeps ==
    ASSUME RoutesInv, outbox = <<>>, coalescer' = Flush(coalescer).state,
           outbox' = Flush(coalescer).out, UNCHANGED <<inbox, heard, ledger>>
    PROVE  RoutesInv'
  <1>. DEFINE y == Flush(coalescer)
  <1>1. coalescer \in Machines /\ Tidy(coalescer) /\ heard \in Hearings
    BY DEF RoutesInv, RoutesTypeOK
  <1>2. \A m \in Monitors : \E e \in [0..Len(inbox) -> Announced] :
           /\ Course(FALSE, e, inbox, heard, m)
           /\ Known(coalescer, <<>>, heard, m, e[0])
           /\ e[Len(inbox)] = ledger[m]
    BY DEF RoutesInv, Follows
  <1>3. y \in Released(coalescer)
    BY <1>1, FlushIs
  <1>4. y.state \in Machines /\ y.out \in Seq(Notification)
    BY <1>3 DEF Released, Yields
  <1>5. coalescer' = y.state /\ outbox' = y.out
    OBVIOUS
  <1>. HIDE DEF y
  <1>6. /\ Tidy(y.state) /\ IsNews(y.out, heard)
        /\ \A m \in Monitors : \A s :
              Known(coalescer, <<>>, heard, m, s) => Known(y.state, y.out, heard, m, s)
    <2>1. \A m \in Monitors : \E s : Known(coalescer, <<>>, heard, m, s)
      BY <1>2
    <2>. QED BY <1>1, <1>3, <2>1, FlushKeeps
  <1>7. ASSUME NEW m \in Monitors PROVE Follows(m)'
    BY <1>2, <1>5, <1>6 DEF Follows
  <1>. QED BY <1>4, <1>5, <1>6, <1>7 DEF RoutesInv, RoutesTypeOK

LEMMA DispatchingKeeps ==
    ASSUME RoutesInv, Dispatch, UNCHANGED ledger
    PROVE  RoutesInv'
  <1>1. /\ inbox \in Seq(AlertMsg) /\ heard \in Hearings /\ outbox \in Seq(Notification)
        /\ outbox # <<>> /\ IsNews(outbox, heard) /\ outbox' = Tail(outbox)
        /\ heard' = Hear(heard, Head(outbox))
        /\ UNCHANGED <<coalescer, inbox, ledger>>
    BY DEF RoutesInv, RoutesTypeOK, Dispatch, Hear
  <1>2. /\ heard' \in Hearings /\ outbox' \in Seq(Notification) /\ IsNews(outbox', heard')
        /\ \A m \in Monitors :
              /\ Told(outbox', heard', m) = Told(outbox, heard, m)
              /\ m \notin Ids(outbox) => m \notin Ids(outbox') /\ heard'[m] = heard[m]
    BY <1>1, DispatchKeeps
  <1>3. ASSUME NEW m \in Monitors PROVE Follows(m)'
    <2>1. PICK e \in [0..Len(inbox) -> Announced] :
             /\ Course(FALSE, e, inbox, heard, m)
             /\ Known(coalescer, outbox, heard, m, e[0])
             /\ e[Len(inbox)] = ledger[m]
      BY DEF RoutesInv, Follows
    <2>2. Known(coalescer, outbox', heard', m, e[0])
      BY <1>2, <2>1, KnownStays
    <2>3. e[0] = "unknown" => heard'[m] = heard[m]
      BY <1>2, <2>1 DEF Known
    <2>4. Course(FALSE, e, inbox, heard', m)
      BY <1>1, <2>1, <2>3, CourseHeard
    <2>. QED BY <1>1, <2>1, <2>2, <2>4 DEF Follows
  <1>. QED BY <1>1, <1>2, <1>3 DEF RoutesInv, RoutesTypeOK

LEMMA AdvanceKeeps ==
    ASSUME RoutesInv, Advances
    PROVE  RoutesInv'
  <1>1. /\ coalescer \in Machines /\ coalescer' = Later(coalescer)
        /\ UNCHANGED <<inbox, outbox, heard, ledger>>
    BY DEF RoutesInv, RoutesTypeOK, Advances, Advance, Later
  <1>2. /\ coalescer' \in Machines /\ coalescer'.quiet = coalescer.quiet
        /\ Held(coalescer') = Held(coalescer)
        /\ Tidy(coalescer) => Tidy(coalescer')
    BY <1>1, SecondKeeps DEF Held, Tidy
  <1>3. ASSUME NEW m \in Monitors PROVE Follows(m)'
    <2>1. PICK e \in [0..Len(inbox) -> Announced] :
             /\ Course(FALSE, e, inbox, heard, m)
             /\ Known(coalescer, outbox, heard, m, e[0])
             /\ e[Len(inbox)] = ledger[m]
      BY DEF RoutesInv, Follows
    <2>2. Known(coalescer', outbox, heard, m, e[0])
      BY <1>2, <2>1, KnownStays
    <2>. QED BY <1>1, <2>1, <2>2 DEF Follows
  <1>. QED BY <1>1, <1>2, <1>3 DEF RoutesInv, RoutesTypeOK

LEMMA RoutesStart == PathInit => RoutesInv
  <1>. SUFFICES ASSUME PathInit PROVE RoutesInv
    OBVIOUS
  <1>1. /\ inbox = <<>> /\ outbox = <<>> /\ ledger = [m \in Monitors |-> "unknown"]
        /\ heard \in [Monitors -> LeftAnnounced] /\ coalescer = NewCoalescer
    BY DEF PathInit, LedgerInit, CoalescerInit
  <1>2. LeftAnnounced \in SUBSET (SUBSET Audiences)
    BY DEF LeftAnnounced, Audiences
  <1>3. /\ coalescer \in Machines /\ coalescer.pending = <<>> /\ coalescer.suppressed = {}
        /\ \A m \in Monitors : coalescer.quiet[m] = "none"
    BY <1>1, CoalescerAssumption DEF NewCoalescer, Machines
  <1>4. RoutesTypeOK
    BY <1>1, <1>2, <1>3 DEF RoutesTypeOK, Announced, Hearings
  <1>5. Tidy(coalescer) /\ IsNews(outbox, heard)
    BY <1>1, <1>3 DEF Tidy, IsNews, Once, Ids
  <1>6. ASSUME NEW m \in Monitors PROVE Follows(m)
    <2>. DEFINE e == [i \in 0..0 |-> "unknown"]
    <2>1. Len(inbox) = 0 /\ DOMAIN inbox = {} /\ 0 \in 0..0
      BY <1>1
    <2>2. e \in [0..Len(inbox) -> Announced] /\ e[0] = "unknown"
      BY <2>1 DEF Announced
    <2>. HIDE DEF e
    <2>3. Course(FALSE, e, inbox, heard, m)
      BY <2>1, <2>2 DEF Course
    <2>4. heard[m] \in LeftAnnounced /\ ledger[m] = "unknown"
      BY <1>1
    <2>5. Known(coalescer, outbox, heard, m, "unknown")
      BY <1>1, <1>3, <2>4 DEF Known, Held, Ids
    <2>. QED BY <2>1, <2>2, <2>3, <2>4, <2>5 DEF Follows
  <1>. QED BY <1>4, <1>5, <1>6 DEF RoutesInv

LEMMA RoutesStep == ~AlertOnDegraded /\ RoutesInv /\ [PathNext]_pathVars => RoutesInv'
  <1>. SUFFICES ASSUME ~AlertOnDegraded, RoutesInv, [PathNext]_pathVars PROVE RoutesInv'
    OBVIOUS
  <1>1. CASE \E m \in Monitors : Announces(m)
    BY <1>1, AnnouncesKeeps
  <1>2. CASE Drives
    <2>1. CASE Receive
      BY <1>2, <2>1, ReceiveKeeps DEF Drives
    <2>2. CASE Release \/ Wake
      <3>1. /\ outbox = <<>> /\ coalescer' = Flush(coalescer).state
            /\ outbox' = Flush(coalescer).out /\ UNCHANGED <<inbox, heard, ledger>>
        BY <1>2, <2>2 DEF Drives, Release, Wake, Selecting, Dispatching
      <3>. QED BY <3>1, FlushingKeeps
    <2>3. CASE Dispatch
      BY <1>2, <2>3, DispatchingKeeps DEF Drives
    <2>. QED BY <1>2, <2>1, <2>2, <2>3 DEF Drives, Drive
  <1>3. CASE Advances
    BY <1>3, AdvanceKeeps
  <1>4. CASE UNCHANGED pathVars
    BY <1>4 DEF pathVars, ledgerVars, coalescerVars, RoutesInv, RoutesTypeOK, Follows
  <1>. QED BY <1>1, <1>2, <1>3, <1>4 DEF PathNext

\* What the audiences have heard, will hear and are owed follows what was announced.
THEOREM RoutesInvariant ==
    ASSUME ~AlertOnDegraded
    PROVE  PathSpec => []RoutesInv
  <1>1. RoutesInv /\ [PathNext]_pathVars => RoutesInv'
    BY RoutesStep
  <1>. QED BY <1>1, RoutesStart, PTL DEF PathSpec

\* What leaves the outbox is news.
LEMMA HeadIsNews ==
    ASSUME RoutesInv, outbox # <<>>
    PROVE  /\ Head(outbox).kind = "down" => Head(outbox).to \cap heard[Head(outbox).id] = {}
           /\ Head(outbox).kind = "recovered" => Head(outbox).to = heard[Head(outbox).id]
  <1>1. outbox \in Seq(Notification) /\ IsNews(outbox, heard)
    BY DEF RoutesInv, RoutesTypeOK
  <1>2. Head(outbox) = outbox[1] /\ 1 \in DOMAIN outbox
    BY <1>1
  <1>. QED BY <1>1, <1>2 DEF IsNews

\* `Recipients` of coalesce.rs: a recovery goes to whoever heard of the outage it
\* ends, no more and no fewer, however the down was queued, folded or confirmed.
THEOREM RecoveryGoesToWhoeverHeard ==
    ASSUME ~AlertOnDegraded
    PROVE  PathSpec => RecoveryReachesWhoeverHeard
  <1>1. RoutesInv =>
          [outbox # <<>> /\ outbox' = Tail(outbox) /\ Head(outbox).kind = "recovered"
              => Head(outbox).to = heard[Head(outbox).id]]_pathVars
    BY HeadIsNews
  <1>2. PathSpec => []RoutesInv
    BY RoutesInvariant
  <1>. QED BY <1>1, <1>2, PTL DEF RecoveryReachesWhoeverHeard

\* "One notification per incident": no audience is told twice of one outage.
THEOREM OutagesAreToldOnce ==
    ASSUME ~AlertOnDegraded
    PROVE  PathSpec => OneDownPerOutage
  <1>1. RoutesInv =>
          [outbox # <<>> /\ outbox' = Tail(outbox) /\ Head(outbox).kind = "down"
              => Head(outbox).to \intersect heard[Head(outbox).id] = {}]_pathVars
    BY HeadIsNews
  <1>2. PathSpec => []RoutesInv
    BY RoutesInvariant
  <1>. QED BY <1>1, <1>2, PTL DEF OneDownPerOutage

\* Once nothing about a monitor is queued or on its way, its audiences have heard
\* exactly what was decided.
THEOREM SettledOutagesAreHeard ==
    ASSUME ~AlertOnDegraded
    PROVE  PathSpec => []SettledIsHeard
  <1>1. RoutesInv => SettledIsHeard
    <2>. SUFFICES ASSUME RoutesInv, NEW m \in Monitors, ~InFlight(m), m \notin Queued(coalescer)
                  PROVE  heard[m] \in Expected(m)
      BY DEF SettledIsHeard
    <2>1. inbox \in Seq(AlertMsg) /\ heard \in Hearings
      BY DEF RoutesInv, RoutesTypeOK
    <2>2. (\A i \in DOMAIN inbox : inbox[i].id # m) /\ m \notin Ids(outbox)
      BY DEF InFlight, Ids
    <2>3. PICK e \in [0..Len(inbox) -> Announced] :
             /\ Course(FALSE, e, inbox, heard, m)
             /\ Known(coalescer, outbox, heard, m, e[0])
             /\ e[Len(inbox)] = ledger[m]
      BY DEF RoutesInv, Follows
    <2>4. Known(coalescer, outbox, heard, m, ledger[m])
      BY <2>1, <2>2, <2>3, NoMessageNoMove
    <2>5. Told(outbox, heard, m) = heard[m] /\ heard[m] \in SUBSET Audiences
      BY <2>1, <2>2, NothingSaid DEF Hearings
    <2>6. m \in Held(coalescer) <=> m \in coalescer.suppressed
      BY QueuedIs DEF Held
    <2>7. CASE ledger[m] \in {"unknown", "healthy", "local"}
      BY <2>4, <2>5, <2>7 DEF Known, Expected
    <2>8. CASE ledger[m] = "down"
      BY <2>4, <2>5, <2>6, <2>8, QuietApart DEF Known, Expected, QuietIsNotUsual
    <2>. QED BY <2>4, <2>7, <2>8 DEF Known
  <1>. QED BY <1>1, RoutesInvariant, PTL

---------------------------------------------------------------------------
(* With degradations announced: at least whom the last message was for *)

LooseTypeOK ==
    /\ inbox \in Seq(AlertMsg)
    /\ ledger \in [Monitors -> Entries]
    /\ coalescer \in Machines
    /\ outbox \in Seq(Notification)
    /\ heard \in Hearings

\* What is on its way: downs, or one recovery.
OneEnd(out) == (\A i \in DOMAIN out : out[i].kind = "down") \/ Len(out) <= 1

\* Who heard, at least, when the messages handled so far leave m at the entry s.
Owed(c, out, h, m, s) ==
    /\ s = "unknown" => m \notin Ids(c.pending) /\ m \notin Ids(out)
    /\ s = "local" => QuietAudience \subseteq Told(out, h, m)
    /\ s = "down" /\ Window = 0 => "usual" \in Told(out, h, m)

\* The messages lead to what m was last announced as, or it degraded since.
FollowsLoosely(m) ==
    \E e \in [0..Len(inbox) -> Announced] :
        /\ Course(TRUE, e, inbox, heard, m)
        /\ Owed(coalescer, outbox, heard, m, e[0])
        /\ \/ e[Len(inbox)] = ledger[m]
           \/ e[Len(inbox)] # "unknown" /\ ledger[m] = "degraded"

LooseInv ==
    /\ LooseTypeOK
    /\ OneEnd(outbox)
    /\ \A m \in Monitors : FollowsLoosely(m)

\* The machine after a message of m, whatever it held before.
HandledLoosely(c, d, m) ==
    d \in Machines /\ Ids(d.pending) \subseteq Ids(c.pending) \cup {m}

LEMMA DownIsHandledLoosely ==
    ASSUME NEW c \in Machines, NEW m \in Monitors, NEW local \in BOOLEAN
    PROVE  LET y == OnDown(c, m, local)
           IN  /\ HandledLoosely(c, y.state, m)
               /\ \E to \in SUBSET Audiences :
                     /\ y.out = Notify("down", m, to)
                     /\ local => to = QuietAudience
                     /\ ~local /\ Window = 0 => to = {"usual"}
  <1>. DEFINE y == OnDown(c, m, local)
              k == ConfirmQuiet(c, m)
  <1>. SUFFICES /\ HandledLoosely(c, y.state, m)
                /\ \E to \in SUBSET Audiences :
                      /\ y.out = Notify("down", m, to)
                      /\ local => to = QuietAudience
                      /\ ~local /\ Window = 0 => to = {"usual"}
    OBVIOUS
  <1>0. /\ Notify("down", m, {}) = <<>> /\ QuietAudience \in SUBSET Audiences
        /\ {} \in SUBSET Audiences /\ {"usual"} \in SUBSET Audiences
    BY QuietApart DEF Notify, QuietIsNotUsual, Audiences
  <1>1. CASE local
    <2>. DEFINE d == [c EXCEPT !.quiet[m] = "announced"]
    <2>1. y = Yield(d, Notify("down", m, QuietAudience))
      BY <1>1 DEF OnDown
    <2>2. d \in Machines /\ d.pending = c.pending
      BY RoutedIs DEF Quiets
    <2>. HIDE DEF d, y
    <2>3. y.state = d /\ y.out = Notify("down", m, QuietAudience)
      BY <2>1 DEF Yield
    <2>. QED BY <1>0, <1>1, <2>2, <2>3 DEF HandledLoosely
  <1>2. CASE ~local
    <2>1. k \in Machines /\ k.pending = c.pending
      BY ConfirmQuietIs
    <2>. HIDE DEF k
    <2>2. CASE GoesAtOnce(m)
      <3>1. y = Yield(MarkSent(k, m), Notify("down", m, {"usual"}))
        BY <1>2, <2>2 DEF OnDown, k
      <3>2. MarkSent(k, m) \in Machines /\ MarkSent(k, m).pending = c.pending
        BY <2>1, MarkSentIs
      <3>. QED BY <1>0, <1>2, <3>1, <3>2 DEF Yield, HandledLoosely
    <2>3. ASSUME ~GoesAtOnce(m), NEW d, y = Yield(d, <<>>), HandledLoosely(c, d, m)
          PROVE  /\ HandledLoosely(c, y.state, m)
                 /\ \E to \in SUBSET Audiences :
                       /\ y.out = Notify("down", m, to)
                       /\ local => to = QuietAudience
                       /\ ~local /\ Window = 0 => to = {"usual"}
      <3>1. y.state = d /\ y.out = Notify("down", m, {}) /\ Window # 0
        BY <1>0, <2>3 DEF Yield, GoesAtOnce
      <3>. HIDE DEF y
      <3>. QED BY <1>0, <1>2, <2>3, <3>1
    <2>4. CASE ~GoesAtOnce(m) /\ CoveredUpstream(k, m)
      <3>1. y = Yield(FoldAlert(k, m), <<>>)
        BY <1>2, <2>4 DEF OnDown, k
      <3>2. FoldAlert(k, m) \in Machines /\ FoldAlert(k, m).pending = c.pending
        BY <2>1, FoldAlertIs
      <3>3. HandledLoosely(c, FoldAlert(k, m), m)
        BY <3>2 DEF HandledLoosely
      <3>. HIDE DEF y
      <3>. QED BY <2>3, <2>4, <3>1, <3>3
    <2>5. CASE ~GoesAtOnce(m) /\ ~CoveredUpstream(k, m)
      <3>1. y = Yield(Enqueue(k, m), <<>>)
        BY <1>2, <2>5 DEF OnDown, k
      <3>2. HandledLoosely(c, Enqueue(k, m), m)
        BY <2>1, EnqueueIs DEF HandledLoosely
      <3>. HIDE DEF y
      <3>. QED BY <2>3, <2>5, <3>1, <3>2
    <2>. QED BY <2>2, <2>4, <2>5
  <1>. QED BY <1>1, <1>2

LEMMA RecoveryIsHandledLoosely ==
    ASSUME NEW c \in Machines, NEW m \in Monitors
    PROVE  LET y == OnRecovered(c, m)
           IN  /\ HandledLoosely(c, y.state, m)
               /\ y.out = Notify("recovered", m, Recipients(c, m))
               /\ Recipients(c, m) \in SUBSET Audiences
  <1>. DEFINE q == Dropped(c.pending, m)
              S == IF m \in Queued(c) THEN c.suppressed ELSE c.suppressed \ {m}
              d == [c EXCEPT !.covered[m] = 0, !.quiet[m] = "none", !.pending = q, !.suppressed = S]
              memories == 0..CauseMemory
              queues == Seq(Pending)
  <1>1. OnRecovered(c, m) = Yield(d, Notify("recovered", m, Recipients(c, m)))
    BY DEF OnRecovered, Uncovered
  <1>2. q \in queues /\ Ids(q) \subseteq Ids(c.pending)
    BY DroppedIs DEF Machines
  <1>3. S \in SUBSET Monitors
    BY DEF Machines
  <1>4. c \in [pending : queues, covered : [Monitors -> memories],
                suppressed : SUBSET Monitors, quiet : [Monitors -> Quiets]]
    BY DEF Machines, Quiets
  <1>5. 0 \in memories /\ "none" \in Quiets
    BY CoalescerAssumption DEF Quiets
  <1>. HIDE DEF q, S, memories, queues
  <1>6. /\ d \in [pending : queues, covered : [Monitors -> memories],
                  suppressed : SUBSET Monitors, quiet : [Monitors -> Quiets]]
        /\ d.pending = q
    BY <1>2, <1>3, <1>4, <1>5
  <1>7. HandledLoosely(c, d, m)
    BY <1>2, <1>6 DEF HandledLoosely, Machines, memories, queues, Quiets
  <1>8. Recipients(c, m) \in SUBSET Audiences
    BY QuietApart DEF Recipients, Audiences, QuietIsNotUsual
  <1>. HIDE DEF d
  <1>. QED BY <1>1, <1>7, <1>8 DEF Yield

\* What Handle does to what is owed.
LEMMA HandleOwes ==
    ASSUME NEW c \in Machines, NEW h \in Hearings, NEW msg \in AlertMsg,
           msg.kind = "resumed" => h[msg.id] = Left(msg)
    PROVE  LET y == Handle(c, msg)
           IN  /\ y.state \in Machines /\ y.out \in Seq(Notification) /\ OneEnd(y.out)
               /\ Owed(y.state, y.out, h, msg.id, After(msg))
               /\ \A n \in Monitors : \A r :
                     n # msg.id /\ Owed(c, <<>>, h, n, r) => Owed(y.state, y.out, h, n, r)
  <1>. DEFINE m == msg.id
              y == Handle(c, msg)
  <1>1. m \in Monitors /\ msg.kind \in {"down", "recovered", "resumed"}
    BY MessageIs
  <1>. HIDE DEF m, y
  <1>2. Told(<<>>, h, m) = h[m] /\ h[m] \in SUBSET Audiences
    BY <1>1, NothingSaid DEF Ids, Hearings
  <1>3. ASSUME NEW kind \in {"down", "recovered"}, NEW to \in SUBSET Audiences,
               y.out = Notify(kind, m, to), HandledLoosely(c, y.state, m),
               Owed(y.state, y.out, h, m, After(msg))
        PROVE  /\ y.state \in Machines /\ y.out \in Seq(Notification) /\ OneEnd(y.out)
               /\ Owed(y.state, y.out, h, m, After(msg))
               /\ \A n \in Monitors : \A r :
                     n # m /\ Owed(c, <<>>, h, n, r) => Owed(y.state, y.out, h, n, r)
    <2>1. y.out \in Seq(Notification) /\ Ids(y.out) \subseteq {m}
      BY <1>1, <1>3, NotifyTells
    <2>2. Len(y.out) <= 1
      BY <1>3 DEF Notify
    <2>3. ASSUME NEW n \in Monitors, NEW r, n # m, Owed(c, <<>>, h, n, r)
          PROVE  Owed(y.state, y.out, h, n, r)
      <3>1. Told(<<>>, h, n) = h[n] /\ Told(y.out, h, n) = h[n] /\ n \notin Ids(y.out)
        <4>1. n \notin Ids(y.out)
          BY <2>1, <2>3
        <4>2. n \notin Ids(<<>>)
          BY DEF Ids
        <4>. QED BY <4>1, <4>2, NothingSaid
      <3>2. n \notin Ids(c.pending) => n \notin Ids(y.state.pending)
        BY <1>3, <2>3 DEF HandledLoosely
      <3>. QED BY <2>3, <3>1, <3>2 DEF Owed
    <2>. QED BY <1>3, <2>1, <2>2, <2>3 DEF HandledLoosely, OneEnd
  <1>4. CASE msg.kind = "down"
    <2>. PICK local \in BOOLEAN : local = msg.local_only
      BY <1>4, MessageIs
    <2>1. y = OnDown(c, m, local) /\ After(msg) = (IF local THEN "local" ELSE "down")
      BY <1>4 DEF Handle, After, m, y
    <2>2. /\ HandledLoosely(c, y.state, m)
          /\ \E to \in SUBSET Audiences :
                /\ y.out = Notify("down", m, to)
                /\ local => to = QuietAudience
                /\ ~local /\ Window = 0 => to = {"usual"}
      BY <1>1, <2>1, DownIsHandledLoosely
    <2>3. PICK to \in SUBSET Audiences :
                /\ y.out = Notify("down", m, to)
                /\ local => to = QuietAudience
                /\ ~local /\ Window = 0 => to = {"usual"}
      BY <2>2
    <2>4. Told(y.out, h, m) = h[m] \cup to
      BY <1>1, <2>3, NotifyTells
    <2>5. Owed(y.state, y.out, h, m, After(msg))
      BY <2>1, <2>3, <2>4 DEF Owed
    <2>. QED BY <1>3, <2>2, <2>3, <2>5 DEF m, y
  <1>5. CASE msg.kind = "recovered"
    <2>1. y = OnRecovered(c, m) /\ After(msg) = "healthy"
      BY <1>5 DEF Handle, After, m, y
    <2>2. /\ HandledLoosely(c, y.state, m)
          /\ y.out = Notify("recovered", m, Recipients(c, m))
          /\ Recipients(c, m) \in SUBSET Audiences
      BY <1>1, <2>1, RecoveryIsHandledLoosely
    <2>3. Owed(y.state, y.out, h, m, After(msg))
      BY <2>1 DEF Owed
    <2>. QED BY <1>3, <2>2, <2>3 DEF m, y
  <1>6. CASE msg.kind = "resumed"
    <2>. PICK confirmed \in BOOLEAN : confirmed = msg.confirmed
      BY <1>6, MessageIs
    <2>. DEFINE v == IF confirmed THEN "confirmed" ELSE "announced"
                d == [c EXCEPT !.quiet[m] = v]
    <2>1. y = Yield(d, <<>>) /\ After(msg) = IF confirmed THEN "down" ELSE "local"
      BY <1>6 DEF Handle, OnResumed, After, m, y
    <2>2. v \in Quiets
      BY DEF Quiets
    <2>. HIDE DEF v
    <2>3. d \in Machines /\ d.pending = c.pending
      BY <1>1, <2>2, RoutedIs
    <2>. HIDE DEF d
    <2>4. HandledLoosely(c, y.state, m) /\ y.out = <<>>
      BY <2>1, <2>3 DEF Yield, HandledLoosely
    <2>5. y.out = Notify("down", m, {}) /\ {} \in SUBSET Audiences
      BY <2>4 DEF Notify
    <2>6. h[m] = (IF confirmed THEN Audiences ELSE {"quiet"})
      BY <1>6 DEF Left, m
    <2>7. QuietAudience \subseteq {"quiet"}
      BY DEF QuietAudience
    <2>8. Owed(y.state, y.out, h, m, After(msg))
      BY <1>2, <2>1, <2>4, <2>6, <2>7 DEF Owed, Audiences
    <2>. QED BY <1>3, <2>4, <2>5, <2>8 DEF m, y
  <1>. QED BY <1>1, <1>4, <1>5, <1>6

LEMMA FlushOwes ==
    ASSUME NEW c \in Machines, NEW y \in Released(c), NEW h \in Hearings
    PROVE  /\ OneEnd(y.out)
           /\ \A m \in Monitors : \A s : Owed(c, <<>>, h, m, s) => Owed(y.state, y.out, h, m, s)
  <1>1. /\ Ids(y.state.pending) \cup Ids(y.out) \subseteq Ids(c.pending)
        /\ \A i \in DOMAIN y.out : y.out[i].kind = "down" /\ y.out[i].to = {"usual"}
    BY DEF Released
  <1>2. ASSUME NEW m \in Monitors PROVE Told(<<>>, h, m) \subseteq Told(y.out, h, m)
    BY <1>1 DEF Told, Says
  <1>3. OneEnd(y.out)
    BY <1>1 DEF OneEnd
  <1>4. ASSUME NEW m \in Monitors, NEW s, Owed(c, <<>>, h, m, s)
        PROVE  Owed(y.state, y.out, h, m, s)
    BY <1>1, <1>2, <1>4 DEF Owed
  <1>. QED BY <1>3, <1>4

LEMMA DispatchOwes ==
    ASSUME NEW h \in Hearings, NEW out \in Seq(Notification), out # <<>>, OneEnd(out)
    PROVE  /\ Hear(h, Head(out)) \in Hearings
           /\ Tail(out) \in Seq(Notification) /\ OneEnd(Tail(out))
           /\ \A m \in Monitors :
                 /\ Told(out, h, m) \subseteq Told(Tail(out), Hear(h, Head(out)), m)
                 /\ m \notin Ids(out) => m \notin Ids(Tail(out)) /\ Hear(h, Head(out))[m] = h[m]
  <1>. DEFINE n == out[1]
              rest == Tail(out)
              g == Hear(h, n)
  <1>1. /\ Len(out) \in Nat /\ Len(out) >= 1 /\ DOMAIN out = 1..Len(out) /\ Head(out) = n
        /\ rest \in Seq(Notification) /\ DOMAIN rest = 1..(Len(out) - 1) /\ Len(rest) = Len(out) - 1
        /\ \A i \in 1..(Len(out) - 1) : rest[i] = out[i + 1] /\ i + 1 \in 1..Len(out)
        /\ \A i \in 1..Len(out) : i # 1 => i - 1 \in 1..(Len(out) - 1) /\ rest[i - 1] = out[i]
        /\ 1 \in 1..Len(out)
    OBVIOUS
  <1>2. \A i \in 1..Len(out) : out[i] \in Notification
    BY <1>1
  <1>3. n.id \in Monitors /\ n.kind \in {"down", "recovered"} /\ n.to \in SUBSET Audiences
    BY <1>1, <1>2 DEF Notification
  <1>. HIDE DEF n, rest
  <1>4. /\ g \in Hearings /\ \A m \in Monitors : m # n.id => g[m] = h[m]
        /\ g[n.id] = IF n.kind = "down" THEN h[n.id] \cup n.to ELSE h[n.id] \ n.to
    BY <1>3 DEF Hear, Hearings
  <1>. HIDE DEF g
  <1>5. OneEnd(rest)
    BY <1>1 DEF OneEnd
  <1>6. n.kind = "recovered" => Len(out) = 1
    BY <1>1 DEF OneEnd, n
  <1>7. ASSUME NEW m \in Monitors PROVE Told(out, h, m) \subseteq Told(rest, g, m)
    <2>. SUFFICES ASSUME NEW a \in Told(out, h, m) PROVE a \in Told(rest, g, m)
      OBVIOUS
    <2>1. /\ a \in Audiences
          /\ a \in h[m] \/ \E i \in DOMAIN out : Says(out[i], "down", m, a)
          /\ \A i \in DOMAIN out : ~Says(out[i], "recovered", m, a)
      BY DEF Told
    <2>2. \A i \in DOMAIN rest : ~Says(rest[i], "recovered", m, a)
      BY <1>1, <2>1
    <2>3. a \in g[m] \/ \E i \in DOMAIN rest : Says(rest[i], "down", m, a)
      <3>1. CASE a \in h[m]
        <4>1. ~Says(n, "recovered", m, a)
          BY <1>1, <2>1 DEF n
        <4>. QED BY <1>3, <1>4, <3>1, <4>1 DEF Says
      <3>2. CASE \E i \in DOMAIN out : Says(out[i], "down", m, a)
        <4>1. PICK i \in 1..Len(out) : Says(out[i], "down", m, a)
          BY <1>1, <3>2
        <4>2. CASE i = 1
          <5>1. Says(n, "down", m, a)
            BY <4>1, <4>2 DEF n
          <5>2. n.kind = "down" /\ n.id = m /\ a \in n.to
            BY <5>1 DEF Says
          <5>. QED BY <1>4, <5>2
        <4>3. CASE i # 1
          BY <1>1, <4>1, <4>3
        <4>. QED BY <4>2, <4>3
      <3>. QED BY <2>1, <3>1, <3>2
    <2>. QED BY <2>1, <2>2, <2>3 DEF Told
  <1>8. ASSUME NEW m \in Monitors, m \notin Ids(out)
        PROVE  m \notin Ids(rest) /\ g[m] = h[m]
    <2>1. m # n.id /\ \A i \in 1..Len(out) : out[i].id # m
      BY <1>1, <1>8 DEF Ids, n
    <2>2. m \notin Ids(rest)
      BY <1>1, <2>1 DEF Ids
    <2>. QED BY <1>4, <2>1, <2>2
  <1>. QED BY <1>1, <1>4, <1>5, <1>7, <1>8 DEF rest, g

\* What is owed, message by message.
LEMMA LooseFollows ==
    ASSUME LooseInv, NEW m \in Monitors
    PROVE  \E e \in [0..Len(inbox) -> Announced] :
              /\ Course(TRUE, e, inbox, heard, m)
              /\ Owed(coalescer, outbox, heard, m, e[0])
              /\ \/ e[Len(inbox)] = ledger[m]
                 \/ e[Len(inbox)] # "unknown" /\ ledger[m] = "degraded"
  BY DEF LooseInv, FollowsLoosely

LEMMA LooseSend ==
    ASSUME LooseInv, NEW msg \in AlertMsg, NEW m \in Monitors, msg.id = m,
           Send(msg), Enter(m, After(msg)), UNCHANGED coalescerVars,
           ledger[m] = "unknown" <=> msg.kind = "resumed",
           msg.kind = "resumed" => heard[m] = Left(msg)
    PROVE  LooseInv'
  <1>. USE DEF coalescerVars
  <1>0. inbox \in Seq(AlertMsg) /\ ledger \in [Monitors -> Entries] /\ Len(inbox) \in Nat
    BY DEF LooseInv, LooseTypeOK
  <1>1. After(msg) \in Announced \ {"unknown"}
    BY AfterIs
  <1>2. LooseTypeOK'
    BY <1>1 DEF LooseInv, LooseTypeOK, Send, Enter, Announced, Entries
  <1>3. ASSUME NEW n \in Monitors PROVE FollowsLoosely(n)'
    <2>1. PICK e \in [0..Len(inbox) -> Announced] :
             /\ Course(TRUE, e, inbox, heard, n)
             /\ Owed(coalescer, outbox, heard, n, e[0])
             /\ \/ e[Len(inbox)] = ledger[n]
                \/ e[Len(inbox)] # "unknown" /\ ledger[n] = "degraded"
      BY LooseFollows
    <2>. DEFINE v == IF n = m THEN After(msg) ELSE e[Len(inbox)]
    <2>2. v \in Announced /\ e[Len(inbox)] \in Announced
      BY <1>0, <1>1
    <2>3. n = m => e[Len(inbox)] \in Before(TRUE, msg)
      <3>1. msg.kind = "resumed" => Before(TRUE, msg) = {"unknown"}
        BY DEF Before
      <3>2. msg.kind # "resumed" => Before(TRUE, msg) = Announced \ {"unknown"}
        BY DEF Before
      <3>. QED BY <2>1, <2>2, <3>1, <3>2
    <2>4. /\ TRUE \in BOOLEAN /\ n # m => v = e[Len(inbox)]
          /\ n = m => v = After(msg)
      OBVIOUS
    <2>. HIDE DEF v
    <2>5. PICK f : /\ Course(TRUE, f, Append(inbox, msg), heard, n) /\ f[0] = e[0]
                   /\ f[Len(Append(inbox, msg))] = v
      BY <1>0, <2>1, <2>2, <2>3, <2>4, CourseAppend
    <2>6. /\ inbox' = Append(inbox, msg) /\ heard' = heard
          /\ coalescer' = coalescer /\ outbox' = outbox
      BY DEF Send
    <2>7. f \in [0..Len(inbox') -> Announced]
      BY <2>5, <2>6 DEF Course
    <2>8. \/ v = ledger'[n]
          \/ v # "unknown" /\ ledger'[n] = "degraded"
      BY <1>0, <2>1, <2>4 DEF Enter
    <2>. QED BY <2>1, <2>5, <2>6, <2>7, <2>8 DEF FollowsLoosely
  <1>. QED BY <1>2, <1>3 DEF LooseInv

LEMMA LooseSilentResume ==
    ASSUME LooseInv, NEW m \in Monitors, NEW entry \in {"healthy", "down"},
           ledger[m] = "unknown", Enter(m, entry), UNCHANGED inbox, UNCHANGED coalescerVars,
           heard[m] = IF entry = "healthy" THEN {} ELSE {"usual"}
    PROVE  LooseInv'
  <1>. USE DEF coalescerVars
  <1>0. /\ inbox \in Seq(AlertMsg) /\ ledger \in [Monitors -> Entries] /\ heard \in Hearings
        /\ Len(inbox) \in Nat /\ Len(inbox) \in 0..Len(inbox) /\ 0 \in 0..Len(inbox)
        /\ \A i \in DOMAIN inbox : i \in 0..Len(inbox) /\ i - 1 \in 0..Len(inbox) /\ inbox[i] \in AlertMsg
    BY DEF LooseInv, LooseTypeOK
  <1>1. LooseTypeOK'
    BY DEF LooseInv, LooseTypeOK, Enter, Entries
  <1>2. FollowsLoosely(m)'
    <2>1. PICK d \in [0..Len(inbox) -> Announced] :
             /\ Course(TRUE, d, inbox, heard, m)
             /\ Owed(coalescer, outbox, heard, m, d[0])
             /\ d[Len(inbox)] = "unknown"
      BY LooseFollows
    <2>2. \A i \in 0..Len(inbox) : d[i] = "unknown"
      <3>. PICK k \in 0..Len(inbox) : k = Len(inbox)
        BY <1>0
      <3>1. /\ TRUE \in BOOLEAN /\ inbox \in Seq(AlertMsg) /\ Course(TRUE, d, inbox, heard, m)
            /\ d[k] = "unknown"
        BY <1>0, <2>1
      <3>2. \A i \in 0..k : d[i] = "unknown"
        BY <3>1, UnknownFromTheStart
      <3>. QED BY <3>2
    <2>3. \A i \in DOMAIN inbox : inbox[i].id # m
      <3>. SUFFICES ASSUME NEW i \in DOMAIN inbox, inbox[i].id = m PROVE FALSE
        OBVIOUS
      <3>1. i \in 0..Len(inbox) /\ inbox[i] \in AlertMsg
        BY <1>0
      <3>2. d[i] = After(inbox[i])
        BY <2>1 DEF Course
      <3>. QED BY <2>2, <3>1, <3>2, AfterIs
    <2>4. Told(outbox, heard, m) = heard[m]
      BY <1>0, <2>1, <2>2, NothingSaid DEF Owed
    <2>5. Owed(coalescer, outbox, heard, m, entry)
      BY <2>4 DEF Owed
    <2>. DEFINE e == [i \in 0..Len(inbox) |-> entry]
    <2>6. Course(TRUE, e, inbox, heard, m)
      BY <1>0, <2>3 DEF Course, Announced
    <2>7. e[0] = entry /\ e[Len(inbox)] = entry /\ e \in [0..Len(inbox) -> Announced]
      BY <1>0 DEF Announced
    <2>. HIDE DEF e
    <2>8. ledger'[m] = entry
      BY <1>0 DEF Enter
    <2>. QED BY <2>5, <2>6, <2>7, <2>8 DEF FollowsLoosely
  <1>3. ASSUME NEW n \in Monitors, n # m PROVE FollowsLoosely(n)'
    <2>1. ledger'[n] = ledger[n]
      BY <1>0, <1>3 DEF Enter
    <2>2. FollowsLoosely(n)
      BY DEF LooseInv
    <2>. QED BY <2>1, <2>2 DEF FollowsLoosely
  <1>. QED BY <1>1, <1>2, <1>3 DEF LooseInv

LEMMA LooseAnnounces ==
    ASSUME LooseInv, NEW m \in Monitors, Announces(m)
    PROVE  LooseInv'
  <1>0. inbox \in Seq(AlertMsg) /\ ledger \in [Monitors -> Entries]
    BY DEF LooseInv, LooseTypeOK
  <1>1. CASE AnnounceDegraded(m)
    <2>0. UNCHANGED coalescerVars
      BY DEF Announces
    <2>1. LooseTypeOK'
      BY <1>0, <1>1, <2>0 DEF AnnounceDegraded, LooseInv, LooseTypeOK, Enter, Entries, coalescerVars
    <2>2. ASSUME NEW n \in Monitors PROVE FollowsLoosely(n)'
      <3>1. PICK e \in [0..Len(inbox) -> Announced] :
               /\ Course(TRUE, e, inbox, heard, n)
               /\ Owed(coalescer, outbox, heard, n, e[0])
               /\ \/ e[Len(inbox)] = ledger[n]
                  \/ e[Len(inbox)] # "unknown" /\ ledger[n] = "degraded"
        BY LooseFollows
      <3>2. \/ e[Len(inbox)] = ledger'[n]
            \/ e[Len(inbox)] # "unknown" /\ ledger'[n] = "degraded"
        BY <1>0, <1>1, <3>1 DEF AnnounceDegraded, Enter
      <3>3. UNCHANGED <<inbox, heard, coalescer, outbox>>
        BY <1>1, <2>0 DEF AnnounceDegraded, coalescerVars
      <3>. QED BY <3>1, <3>2, <3>3 DEF FollowsLoosely
    <2>. QED BY <2>0, <2>1, <2>2 DEF LooseInv, coalescerVars
  <1>. QED BY <1>0, <1>1, AnnouncesIs, LooseSilentResume, LooseSend

LEMMA LooseReceive ==
    ASSUME LooseInv, Receive, UNCHANGED ledger
    PROVE  LooseInv'
  <1>. DEFINE msg == Head(inbox)
              y == Handle(coalescer, msg)
  <1>1. /\ inbox \in Seq(AlertMsg) /\ inbox # <<>> /\ outbox = <<>> /\ inbox' = Tail(inbox)
        /\ coalescer \in Machines /\ heard \in Hearings /\ heard' = heard
        /\ ledger \in [Monitors -> Entries] /\ ledger' = ledger
        /\ coalescer' = y.state /\ outbox' = y.out
    BY DEF LooseInv, LooseTypeOK, Receive, Selecting, Dispatching
  <1>2. /\ msg \in AlertMsg /\ msg = inbox[1] /\ 1 \in DOMAIN inbox /\ Tail(inbox) \in Seq(AlertMsg)
        /\ 1 - 1 = 0 /\ 0 \in 0..Len(inbox)
    BY <1>1
  <1>. HIDE DEF msg, y
  <1>3. PICK e \in [0..Len(inbox) -> Announced] : Course(TRUE, e, inbox, heard, msg.id)
    BY <1>2, LooseFollows, MessageIs
  <1>4. msg.kind = "resumed" => heard[msg.id] = Left(msg)
    BY <1>2, <1>3 DEF Course
  <1>5. /\ y.state \in Machines /\ y.out \in Seq(Notification) /\ OneEnd(y.out)
        /\ Owed(y.state, y.out, heard, msg.id, After(msg))
        /\ \A n \in Monitors : \A r :
              n # msg.id /\ Owed(coalescer, <<>>, heard, n, r) => Owed(y.state, y.out, heard, n, r)
    BY <1>1, <1>2, <1>4, HandleOwes DEF y
  <1>6. ASSUME NEW n \in Monitors PROVE FollowsLoosely(n)'
    <2>1. PICK d \in [0..Len(inbox) -> Announced] :
             /\ Course(TRUE, d, inbox, heard, n)
             /\ Owed(coalescer, outbox, heard, n, d[0])
             /\ \/ d[Len(inbox)] = ledger[n]
                \/ d[Len(inbox)] # "unknown" /\ ledger[n] = "degraded"
      BY LooseFollows
    <2>2. PICK f : /\ Course(TRUE, f, Tail(inbox), heard, n) /\ f[0] = d[1]
                   /\ f[Len(Tail(inbox))] = d[Len(inbox)]
      <3>1. /\ TRUE \in BOOLEAN /\ inbox \in Seq(AlertMsg) /\ inbox # <<>>
            /\ Course(TRUE, d, inbox, heard, n)
        BY <1>1, <2>1
      <3>. QED BY <3>1, CourseTail
    <2>3. /\ n # msg.id => d[1] = d[0]
          /\ n = msg.id => d[1] = After(msg)
      BY <1>2, <2>1 DEF Course
    <2>4. Owed(y.state, y.out, heard, n, f[0])
      BY <1>1, <1>5, <2>1, <2>2, <2>3
    <2>5. f \in [0..Len(Tail(inbox)) -> Announced]
      BY <2>2 DEF Course
    <2>. QED BY <1>1, <2>1, <2>2, <2>4, <2>5 DEF FollowsLoosely
  <1>. QED BY <1>1, <1>2, <1>5, <1>6 DEF LooseInv, LooseTypeOK

\* A step that reads no message and leaves whoever is owed to be told.
LEMMA LooseStep ==
    ASSUME LooseInv, UNCHANGED <<inbox, ledger>>, coalescer' \in Machines,
           outbox' \in Seq(Notification), heard' \in Hearings, OneEnd(outbox'),
           \A m \in Monitors : \A s :
               Owed(coalescer, outbox, heard, m, s) => Owed(coalescer', outbox', heard', m, s),
           \A m \in Monitors : m \notin Ids(outbox) => heard'[m] = heard[m]
    PROVE  LooseInv'
  <1>1. ASSUME NEW m \in Monitors PROVE FollowsLoosely(m)'
    <2>1. PICK e \in [0..Len(inbox) -> Announced] :
             /\ Course(TRUE, e, inbox, heard, m)
             /\ Owed(coalescer, outbox, heard, m, e[0])
             /\ \/ e[Len(inbox)] = ledger[m]
                \/ e[Len(inbox)] # "unknown" /\ ledger[m] = "degraded"
      BY LooseFollows
    <2>2. e[0] = "unknown" => heard'[m] = heard[m]
      BY <2>1 DEF Owed
    <2>3. Course(TRUE, e, inbox, heard', m)
      <3>1. TRUE \in BOOLEAN /\ inbox \in Seq(AlertMsg) /\ Course(TRUE, e, inbox, heard, m)
        BY <2>1 DEF LooseInv, LooseTypeOK
      <3>. QED BY <2>2, <3>1, CourseHeard
    <2>. QED BY <2>1, <2>3 DEF FollowsLoosely
  <1>. QED BY <1>1 DEF LooseInv, LooseTypeOK

LEMMA LooseDrives ==
    ASSUME LooseInv, Drives
    PROVE  LooseInv'
  <1>0. /\ coalescer \in Machines /\ outbox \in Seq(Notification) /\ heard \in Hearings
        /\ OneEnd(outbox) /\ UNCHANGED ledger
    BY DEF LooseInv, LooseTypeOK, Drives
  <1>1. CASE Receive
    BY <1>0, <1>1, LooseReceive
  <1>2. CASE Release \/ Wake
    <2>. DEFINE y == Flush(coalescer)
    <2>1. /\ outbox = <<>> /\ coalescer' = y.state /\ outbox' = y.out
          /\ UNCHANGED <<inbox, heard, ledger>>
      BY <1>0, <1>2 DEF Release, Wake, Selecting, Dispatching
    <2>2. y \in Released(coalescer)
      BY <1>0, FlushIs
    <2>3. y.state \in Machines /\ y.out \in Seq(Notification)
      BY <2>2 DEF Released, Yields
    <2>. HIDE DEF y
    <2>4. /\ OneEnd(y.out)
          /\ \A m \in Monitors : \A s :
                Owed(coalescer, <<>>, heard, m, s) => Owed(y.state, y.out, heard, m, s)
      BY <1>0, <2>2, FlushOwes
    <2>. QED BY <1>0, <2>1, <2>3, <2>4, LooseStep
  <1>3. CASE Dispatch
    <2>1. /\ outbox # <<>> /\ outbox' = Tail(outbox) /\ heard' = Hear(heard, Head(outbox))
          /\ UNCHANGED <<coalescer, inbox, ledger>>
      BY <1>0, <1>3 DEF Dispatch, Hear
    <2>2. /\ heard' \in Hearings /\ outbox' \in Seq(Notification) /\ OneEnd(outbox')
          /\ \A m \in Monitors :
                /\ Told(outbox, heard, m) \subseteq Told(outbox', heard', m)
                /\ m \notin Ids(outbox) => m \notin Ids(outbox') /\ heard'[m] = heard[m]
      BY <1>0, <2>1, DispatchOwes
    <2>3. ASSUME NEW m \in Monitors, NEW s, Owed(coalescer, outbox, heard, m, s)
          PROVE  Owed(coalescer', outbox', heard', m, s)
      BY <2>1, <2>2, <2>3 DEF Owed
    <2>. QED BY <1>0, <2>1, <2>2, <2>3, LooseStep
  <1>. QED BY <1>1, <1>2, <1>3 DEF Drives, Drive

LEMMA LooseAdvances ==
    ASSUME LooseInv, Advances
    PROVE  LooseInv'
  <1>1. /\ coalescer \in Machines /\ outbox \in Seq(Notification) /\ heard \in Hearings
        /\ OneEnd(outbox) /\ coalescer' = Later(coalescer)
        /\ UNCHANGED <<inbox, outbox, heard, ledger>>
    BY DEF LooseInv, LooseTypeOK, Advances, Advance, Later
  <1>2. coalescer' \in Machines /\ Ids(coalescer'.pending) = Ids(coalescer.pending)
    BY <1>1, SecondKeeps
  <1>3. \A m \in Monitors : \A s :
           Owed(coalescer, outbox, heard, m, s) => Owed(coalescer', outbox', heard', m, s)
    BY <1>1, <1>2 DEF Owed
  <1>. QED BY <1>1, <1>2, <1>3, LooseStep

LEMMA LooseStart == PathInit => LooseInv
  <1>. SUFFICES ASSUME PathInit PROVE LooseInv
    OBVIOUS
  <1>1. RoutesInv
    BY RoutesStart
  <1>2. /\ inbox = <<>> /\ outbox = <<>> /\ ledger = [m \in Monitors |-> "unknown"]
        /\ coalescer.pending = <<>>
    BY DEF PathInit, LedgerInit, CoalescerInit, NewCoalescer
  <1>3. LooseTypeOK
    BY <1>1, <1>2 DEF RoutesInv, RoutesTypeOK, LooseTypeOK, Announced, Entries
  <1>4. OneEnd(outbox)
    BY <1>2 DEF OneEnd
  <1>5. ASSUME NEW m \in Monitors PROVE FollowsLoosely(m)
    <2>. DEFINE e == [i \in 0..0 |-> "unknown"]
    <2>1. Len(inbox) = 0 /\ DOMAIN inbox = {} /\ 0 \in 0..0
      BY <1>2
    <2>2. e \in [0..Len(inbox) -> Announced] /\ e[0] = "unknown"
      BY <2>1 DEF Announced
    <2>. HIDE DEF e
    <2>3. Course(TRUE, e, inbox, heard, m)
      BY <2>1, <2>2 DEF Course
    <2>4. ledger[m] = "unknown" /\ Owed(coalescer, outbox, heard, m, "unknown")
      BY <1>2 DEF Owed, Ids
    <2>. QED BY <2>1, <2>2, <2>3, <2>4 DEF FollowsLoosely
  <1>. QED BY <1>3, <1>4, <1>5 DEF LooseInv

\* Whatever is announced, degradations too, leaves at least those told whom the
\* latest message was for.
THEOREM LooseInvariant == PathSpec => []LooseInv
  <1>1. LooseInv /\ [PathNext]_pathVars => LooseInv'
    <2>. SUFFICES ASSUME LooseInv, [PathNext]_pathVars PROVE LooseInv'
      OBVIOUS
    <2>1. CASE \E m \in Monitors : Announces(m)
      BY <2>1, LooseAnnounces
    <2>2. CASE Drives
      BY <2>2, LooseDrives
    <2>3. CASE Advances
      BY <2>3, LooseAdvances
    <2>4. CASE UNCHANGED pathVars
      BY <2>4 DEF pathVars, ledgerVars, coalescerVars, LooseInv, LooseTypeOK, FollowsLoosely
    <2>. QED BY <2>1, <2>2, <2>3, <2>4 DEF PathNext
  <1>. QED BY <1>1, LooseStart, PTL DEF PathSpec

\* An announced outage is heard where it was decided, through degradations and
\* relapses: on the usual channels when nothing is grouped, on the quiet ones when
\* it is local-only.
THEOREM AnnouncedOutagesAreHeard == PathSpec => []AnnouncedIsHeard
  <1>1. LooseInv => AnnouncedIsHeard
    <2>. SUFFICES ASSUME LooseInv, NEW m \in Monitors, ~InFlight(m)
                  PROVE  /\ ledger[m] = "down" /\ Window = 0 => "usual" \in heard[m]
                         /\ ledger[m] = "local" => QuietAudience \subseteq heard[m]
      BY DEF AnnouncedIsHeard
    <2>1. inbox \in Seq(AlertMsg) /\ heard \in Hearings
      BY DEF LooseInv, LooseTypeOK
    <2>2. (\A i \in DOMAIN inbox : inbox[i].id # m) /\ m \notin Ids(outbox)
      BY DEF InFlight, Ids
    <2>3. PICK e \in [0..Len(inbox) -> Announced] :
             /\ Course(TRUE, e, inbox, heard, m)
             /\ Owed(coalescer, outbox, heard, m, e[0])
             /\ \/ e[Len(inbox)] = ledger[m]
                \/ e[Len(inbox)] # "unknown" /\ ledger[m] = "degraded"
      BY LooseFollows
    <2>4. e[0] = e[Len(inbox)]
      <3>1. TRUE \in BOOLEAN /\ Course(TRUE, e, inbox, heard, m)
        BY <2>3
      <3>. QED BY <2>1, <2>2, <3>1, NoMessageNoMove
    <2>5. Told(outbox, heard, m) = heard[m]
      BY <2>1, <2>2, NothingSaid
    <2>. QED BY <2>3, <2>4, <2>5 DEF Owed
  <1>. QED BY <1>1, LooseInvariant, PTL
=============================================================================
