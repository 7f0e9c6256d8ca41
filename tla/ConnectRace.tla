---------------------------- MODULE ConnectRace ----------------------------
(***************************************************************************)
(* A TCP connect that survives dead addresses (connect.rs, probe/tcp.rs):  *)
(* the name is resolved, the addresses are interleaved by family, and an   *)
(* attempt joins the race every AttemptDelay, or at once after a refusal.  *)
(*                                                                         *)
(* An address is a record: its family, and what befalls an attempt, after  *)
(* how long ("silent" never answers).  The runtime is prompt: time passes  *)
(* only when the race has nothing to do.                                   *)
(***************************************************************************)
EXTENDS Integers, Sequences, FiniteSets

CONSTANTS
    Hosts,          \* what a name may resolve to: sequences of addresses
    AttemptDelay,   \* ATTEMPT_DELAY
    ConnectTimeout  \* the monitor's timeout

ASSUME ConnectAssumption ==
    /\ AttemptDelay \in Nat \ {0} /\ ConnectTimeout \in Nat
    /\ \A host \in Hosts : host \in Seq(
          [family : {"v4", "v6"}, fate : {"accepts", "refuses", "silent"}, after : Nat])

VARIABLES
    host,       \* what the name resolves to
    race,       \* where the race is: "lookup", "turn" (the top of its loop),
                \*   "select", or how it ended
    queue,      \* the positions in host still to try
    attempts,   \* attempts[i]: how long the attempt at position i has run
    alone,      \* the sleep of this turn: what is left of it
    elapsed,    \* since the connect began
    resolved    \* history: when the lookup answered, or NotYet

raceVars == <<host, race, queue, attempts, alone, elapsed, resolved>>

NotYet == -1

---------------------------------------------------------------------------
(* interleave *)

\* Mutant: the resolver's order is kept.
InResolverOrder(addrs) == [i \in DOMAIN addrs |-> i]

\* The round of the loop that pops the address at i: its place in its family.
Round(addrs, i) == Cardinality({j \in 1..i : addrs[j].family = addrs[i].family})

\* Each round pops one of each family, the family of the first leading; the
\* last rounds only find the longer one.
OutBefore(addrs, i) ==
    {j \in DOMAIN addrs :
        \/ Round(addrs, j) < Round(addrs, i)
        \/ /\ Round(addrs, j) = Round(addrs, i)
           /\ addrs[j].family = addrs[1].family /\ addrs[i].family # addrs[1].family}

Interleaved(addrs) ==
    [k \in DOMAIN addrs |->
        CHOOSE i \in DOMAIN addrs : Cardinality(OutBefore(addrs, i)) = k - 1]

---------------------------------------------------------------------------
(* race *)

RaceInit ==
    /\ host \in Hosts
    /\ race = "lookup" /\ queue = <<>> /\ attempts = <<>>
    /\ alone = 0 /\ elapsed = 0 /\ resolved = NotYet

\* lookup_host answers, or cannot.
LookUp ==
    /\ race = "lookup"
    /\ \/ race' = "turn" /\ queue' = Interleaved(host) /\ resolved' = elapsed
       \/ race' = "unresolvable" /\ UNCHANGED <<queue, resolved>>
    /\ UNCHANGED <<host, attempts, alone, elapsed>>

\* attempts.push(TcpStream::connect(addr)) for the first of the queue, if any.
Joined(running) ==
    IF queue = <<>> THEN running
    ELSE [i \in DOMAIN running \cup {Head(queue)} |->
             IF i = Head(queue) THEN 0 ELSE running[i]]

Shortened == IF queue = <<>> THEN queue ELSE Tail(queue)

\* The top of the loop: an empty race takes the next address or ends, and the
\* sleep starts anew.
Turn ==
    /\ race = "turn"
    /\ alone' = AttemptDelay
    /\ IF DOMAIN attempts # {}
       THEN race' = "select" /\ UNCHANGED <<queue, attempts>>
       ELSE /\ race' = IF queue = <<>> THEN "refused" ELSE "select"
            /\ queue' = Shortened /\ attempts' = Joined(attempts)
    /\ UNCHANGED <<host, elapsed, resolved>>

Answered(i) == host[i].fate # "silent" /\ attempts[i] = host[i].after

Without(i) == [j \in DOMAIN attempts \ {i} |-> attempts[j]]

Accepted(i) ==
    /\ race = "select" /\ Answered(i) /\ host[i].fate = "accepts"
    /\ race' = "connected" /\ attempts' = <<>>
    /\ UNCHANGED <<host, queue, alone, elapsed, resolved>>

\* A refusal is an answer: the next address joins at once.
Refused(i) ==
    /\ race = "select" /\ Answered(i) /\ host[i].fate = "refuses"
    /\ race' = "turn" /\ queue' = Shortened /\ attempts' = Joined(Without(i))
    /\ UNCHANGED <<host, alone, elapsed, resolved>>

SleepEnds ==
    /\ race = "select" /\ alone = 0 /\ queue # <<>>
    /\ race' = "turn" /\ queue' = Shortened /\ attempts' = Joined(attempts)
    /\ UNCHANGED <<host, alone, elapsed, resolved>>

AnswerDue == \E i \in DOMAIN attempts : Answered(i)
Waiting == ~AnswerDue /\ (alone > 0 \/ queue = <<>>)

\* tokio::time::timeout polls the race first.
TimesOut ==
    /\ elapsed = ConnectTimeout
    /\ (race = "lookup" \/ (race = "select" /\ Waiting))
    /\ race' = "timed_out" /\ attempts' = <<>>
    /\ UNCHANGED <<host, queue, alone, elapsed, resolved>>

RaceWaits ==
    /\ elapsed < ConnectTimeout /\ elapsed' = elapsed + 1
    /\ race = "lookup" \/ (race = "select" /\ Waiting)
    /\ attempts' = [i \in DOMAIN attempts |-> attempts[i] + 1]
    /\ alone' = IF alone = 0 THEN 0 ELSE alone - 1
    /\ UNCHANGED <<host, race, queue, resolved>>

RaceNext ==
    \/ LookUp \/ Turn \/ SleepEnds \/ TimesOut \/ RaceWaits
    \/ \E i \in DOMAIN attempts : Accepted(i) \/ Refused(i)

---------------------------------------------------------------------------
(* What the head of connect.rs promises, address by address. *)

Before(i) == {j \in 1..(i - 1) : host[j].family = host[i].family}
OtherFamily(i) == {j \in DOMAIN host : host[j].family # host[i].family}

\* How many addresses are tried before i when the families alternate.
Ahead(i) ==
    LET own == Cardinality(Before(i))
        turns == IF host[i].family = host[1].family THEN own ELSE own + 1
    IN own + IF turns <= Cardinality(OtherFamily(i)) THEN turns ELSE Cardinality(OtherFamily(i))

\* The moment by which the address at i has answered.
AnswersBy(i) == resolved + Ahead(i) * AttemptDelay + host[i].after

\* Whatever the dead addresses before it, once the name is resolved an address
\* that accepts is connected to before the timeout eats it: after one
\* AttemptDelay for each address ahead of it in the alternation at most ("must
\* not eat the whole timeout on the first before ever trying the second").
WorkingAddressWins ==
    \A i \in DOMAIN host :
        host[i].fate = "accepts" /\ resolved # NotYet /\ AnswersBy(i) <= ConnectTimeout =>
            /\ race \notin {"refused", "timed_out"}
            /\ race \in {"turn", "select"} => elapsed <= AnswersBy(i)
=============================================================================
