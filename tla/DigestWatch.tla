---------------------------- MODULE DigestWatch ----------------------------
(***************************************************************************)
(* The periodic digest (digest.rs): a task that wakes up, compares the     *)
(* schedule with the time of the last digest, kept in the database, and    *)
(* sends one when a slot has passed, however many were missed.             *)
(***************************************************************************)
EXTENDS Integers, Sequences, FiniteSetsExt

CONSTANTS
    Slots,           \* the occurrences of the schedule
    LastHour,        \* bound: the clock
    MaxDigestFaults  \* bound: statements that fail, crashes

ASSUME DigestAssumption ==
    Slots \subseteq Nat /\ LastHour \in Nat /\ MaxDigestFaults \in Nat

VARIABLES
    hour,        \* the wall clock
    enabled,     \* there is a [digest] section
    lastSent,    \* digest_last_sent, Never without a row
    tick,        \* the evaluation in progress: [pc, now, last]
    sends,       \* history: when a digest went out
    since,       \* history: the last baseline of a first run
    misread,     \* history: a read of digest_last_sent or a build failed
    unstored,    \* history: a digest went out and its time was not stored
    digestFaults \* bound counter

digestVars == <<hour, enabled, lastSent, tick, sends, since, misread, unstored, digestFaults>>

Never == -1
Asleep == [pc |-> "asleep", now |-> 0, last |-> Never]

DigestInit ==
    /\ hour = 0 /\ enabled \in BOOLEAN
    /\ lastSent = Never /\ tick = Asleep
    /\ sends = <<>> /\ since = LastHour
    /\ misread = FALSE /\ unstored = FALSE /\ digestFaults = 0

DigestFault == digestFaults < MaxDigestFaults /\ digestFaults' = digestFaults + 1
outcomes == <<sends, since, misread, unstored>>

HourPasses ==
    /\ hour < LastHour /\ hour' = hour + 1
    /\ UNCHANGED <<enabled, lastSent, tick, outcomes, digestFaults>>

\* A reload adds or removes the section; it is read on the next wake-up.
Toggle ==
    /\ DigestFault /\ enabled' = ~enabled
    /\ UNCHANGED <<hour, lastSent, tick, outcomes>>

WakeUp ==
    /\ tick.pc = "asleep" /\ enabled
    /\ tick' = [pc |-> IF lastSent = Never THEN "baseline" ELSE "due", now |-> hour, last |-> lastSent]
    /\ UNCHANGED <<hour, enabled, lastSent, outcomes, digestFaults>>

\* A read that fails is taken for a first run.
Misread ==
    /\ tick.pc = "asleep" /\ enabled /\ DigestFault
    /\ tick' = [pc |-> "baseline", now |-> hour, last |-> Never]
    /\ misread' = TRUE
    /\ UNCHANGED <<hour, enabled, lastSent, sends, since, unstored>>

Baseline ==
    /\ tick.pc = "baseline"
    /\ tick' = [tick EXCEPT !.pc = "due", !.last = tick.now]
    /\ since' = tick.now
    /\ \/ lastSent' = tick.now /\ UNCHANGED digestFaults
       \/ DigestFault /\ UNCHANGED lastSent
    /\ UNCHANGED <<hour, enabled, sends, misread, unstored>>

After(last) == {s \in Slots : s > last}

\* Mutant: only a slot that is now, no catching up.
SlotIsNow(last, now) == now \in After(last)

\* The first slot strictly after the last digest has come.
SlotDue(last, now) == After(last) # {} /\ Min(After(last)) <= now

EvaluateSlot ==
    /\ tick.pc = "due"
    /\ tick' = IF SlotDue(tick.last, tick.now) THEN [tick EXCEPT !.pc = "send"] ELSE Asleep
    /\ UNCHANGED <<hour, enabled, lastSent, outcomes, digestFaults>>

\* Delivered or not; a delivery that fails is only logged.
SendDigest ==
    /\ tick.pc = "send"
    /\ tick' = [tick EXCEPT !.pc = "store"]
    /\ sends' = Append(sends, tick.now)
    /\ UNCHANGED <<hour, enabled, lastSent, since, misread, unstored, digestFaults>>

BuildFails ==
    /\ tick.pc = "send" /\ DigestFault
    /\ tick' = [tick EXCEPT !.pc = "store"]
    /\ misread' = TRUE
    /\ UNCHANGED <<hour, enabled, lastSent, sends, since, unstored>>

\* Mutant: the baseline does not move.
BaselineKept(now) == lastSent

NewBaseline(now) == now

StoreSent ==
    /\ tick.pc = "store"
    /\ tick' = Asleep
    /\ lastSent' = NewBaseline(tick.now)
    /\ UNCHANGED <<hour, enabled, outcomes, digestFaults>>

SentUnstored ==
    /\ tick.pc = "store" /\ DigestFault
    /\ tick' = Asleep
    /\ unstored' = TRUE
    /\ UNCHANGED <<hour, enabled, lastSent, sends, since, misread>>

DigestCrash ==
    /\ tick.pc # "asleep" /\ DigestFault
    /\ tick' = Asleep
    /\ unstored' = (unstored \/ tick.pc = "store")
    /\ UNCHANGED <<hour, enabled, lastSent, sends, since, misread>>

Evaluation == WakeUp \/ Baseline \/ EvaluateSlot \/ SendDigest \/ StoreSent

DigestNext ==
    \/ Evaluation \/ HourPasses \/ Toggle \/ Misread \/ BuildFails \/ SentUnstored \/ DigestCrash

---------------------------------------------------------------------------
(* Properties *)

\* A slot is not forgotten: a digest goes out after it, sent or caught up,
\* through restarts and times without the section, while the time of the last
\* one is read and the digest is built.
DigestIsNotForgotten ==
    <>[]enabled => <>[](misread \/ \A s \in Slots :
        since < s /\ s <= LastHour => \E i \in DOMAIN sends : s <= sends[i])

\* Two digests have a slot between them, unless the time of the first was
\* lost with a statement or a crash.
DigestOncePerSlot ==
    unstored \/ \A i, j \in DOMAIN sends :
        i < j => \E s \in Slots : sends[i] < s /\ s <= sends[j]

\* What digest.rs says of the stored time: "so a restart neither double-sends
\* nor forgets".
DigestNeverDoubled ==
    \A i, j \in DOMAIN sends : i < j => \E s \in Slots : sends[i] < s /\ s <= sends[j]
=============================================================================
