---------------------------- MODULE Annotations ----------------------------
(***************************************************************************)
(* What operators add on top of the checks: announcements, event markers,  *)
(* silences and notes on incidents, each through a door that validates it  *)
(* before it writes (announce.rs, silence.rs, cli/annotations.rs,          *)
(* handlers/annotations.rs); the monitor's tick that reads silences and    *)
(* markers; the pruner; the timeline that merges it all (timeline.rs).     *)
(*                                                                         *)
(* The process of a door reads the clock and the tables when it validates  *)
(* and writes afterwards.  Time is counted in units of the table Units; a  *)
(* title or a reason is blank or not.                                      *)
(***************************************************************************)
EXTENDS Integers, Sequences, FiniteSets, SequencesExt, TLC

CONSTANTS
    Lines,          \* what may be typed at a door
    MonitorSet, WatchedNodes, NoEvent,
    Units,          \* [letter of a unit -> its length]
    DayLength, MAX_UNTIL, MAX_SILENCE, EVENT_LOOKBACK, Year,
    MaxNumber,      \* the largest number of the machine
    ReadLimit, ShowLimit, TimelineSpan,
    MaxTyped, MaxOutages, MaxMinute   \* bounds: lines typed, incidents, the clock

ASSUME AnnotationAssumption ==
    /\ DayLength \in Nat \ {0} /\ MaxNumber \in Nat
    /\ EVENT_LOOKBACK \in Nat /\ Year \in Nat /\ EVENT_LOOKBACK <= Year
    /\ {ReadLimit, ShowLimit, TimelineSpan} \subseteq Nat
    /\ "*" \notin MonitorSet \cup WatchedNodes      \* is_url_safe_id
    /\ \A line \in Lines :
          /\ line.what = "announce" => line.until.clock \in Int
          /\ line.what = "silence" => line.ids \in Seq(ToSet(line.ids))

VARIABLES
    minute,    \* the clock
    book,      \* the tables: [pins, marks, mutes, outages, alerts]
    desk,      \* the door at work: [pc, line, until, id, answer, count]
    asked,     \* what the doors accepted and no one cleared
    reader,    \* the timeline under way
    steady,    \* history: the moments that stood ever since it was asked for, without
               \*   those that the limit of their table left out
    keyed      \* bound counter

annotationVars == <<minute, book, desk, asked, reader, steady, keyed>>

None == 0   \* no expiry, no end, no incident

(* Durations and expiries. *)

\* A duration is read as tokens: a number and the letter after it.
Refuse == [ok |-> FALSE, total |-> 0]
AddToken(sum, token) ==
    IF /\ sum.ok /\ token.number >= 0 /\ token.letter \in DOMAIN Units
       /\ sum.total + token.number * Units[token.letter] <= MaxNumber
    THEN [sum EXCEPT !.total = @ + token.number * Units[token.letter]]
    ELSE Refuse

ParseDuration(tokens) ==
    LET sum == FoldLeft(AddToken, [ok |-> TRUE, total |-> 0], tokens)
    IN IF sum.total \in 1..MaxNumber THEN sum ELSE Refuse

NextOccurrence(at, now) ==
    LET today == (now \div DayLength) * DayLength + at
    IN IF today > now THEN today ELSE today + DayLength

ParseUntil(words, now) ==
    IF words.clock >= 0
    THEN IF words.clock < DayLength
         THEN [ok |-> TRUE, total |-> NextOccurrence(words.clock, now)] ELSE Refuse
    ELSE LET duration == ParseDuration(words.tokens)
         IN IF duration.ok /\ duration.total <= MAX_UNTIL
            THEN [ok |-> TRUE, total |-> now + duration.total] ELSE Refuse

(* Validation. *)

Forever(words) == words.clock < 0 /\ words.tokens = <<>>   \* no --until

AnnouncementIsValid(line, now) ==
    /\ line.severity # "unknown" /\ line.severity # "missing value"
    /\ Forever(line.until) \/ ParseUntil(line.until, now).ok
    /\ line.title # "blank"

IsSilenceable(id) == id \in MonitorSet \/ id \in WatchedNodes

\* The ids as rows: the wildcard for all, or every listed id if each is known.
ResolveIds(ids) == IF ids = <<"all">> THEN <<"*">> ELSE ids

SilenceIsValid(line) ==
    /\ LET duration == ParseDuration(line.until.tokens)
       IN duration.ok /\ duration.total <= MAX_SILENCE
    /\ line.ids # <<>>
    /\ line.ids = <<"all">> \/ \A i \in DOMAIN line.ids : IsSilenceable(line.ids[i])

(* The tables. *)

NextId(table) == 1 + Max({0} \cup {row.id : row \in table})

Started(row) == IF "started" \in DOMAIN row THEN row.started ELSE row.at
Ordered(rows, Precedes(_, _)) ==
    [i \in 1..Cardinality(rows) |->
        CHOOSE row \in rows : Cardinality({r \in rows : Precedes(r, row)}) = i - 1]
Above(a, b) == Started(a) > Started(b) \/ (Started(a) = Started(b) /\ a.id > b.id)
Latest(rows) == Ordered(rows, Above)
First(sequence, n) == SubSeq(sequence, 1, IF n < Len(sequence) THEN n ELSE Len(sequence))

InForce(until) == until = None \/ until > minute
ActiveAnnouncements == Latest({p \in book.pins : InForce(p.until)})

IsSilenced(id) ==
    \E mute \in book.mutes : mute.target \in {id, "*"} /\ mute.until > minute

LatestEvent ==
    LET recent == {e \in book.marks : e.at <= minute /\ e.at >= minute - EVENT_LOOKBACK}
    IN IF recent = {} THEN NoEvent ELSE Latest(recent)[1].at

LatestIncident == IF book.outages = {} THEN None ELSE Latest(book.outages)[1].id

Rows(line, until) ==
    LET ids == ResolveIds(line.ids)
    IN {[id |-> NextId(book.mutes) + i - 1, target |-> ids[i], until |-> until,
         at |-> minute] : i \in DOMAIN ids}

PinRow == [id |-> NextId(book.pins), until |-> desk.until, at |-> minute]
MarkRow == [id |-> NextId(book.marks), at |-> minute]
Noted(id) == {o \in book.outages : o.id = id}

(* The doors. *)

NoLine == [what |-> "nothing"]
Free == [pc |-> "idle", line |-> NoLine, until |-> None, id |-> None,
         answer |-> "none", count |-> 0]
Empty == [pins |-> {}, marks |-> {}, mutes |-> {}, outages |-> {}, alerts |-> {}]
Off == [pc |-> "off", since |-> 0, next |-> 1, got |-> Empty, entries |-> <<>>]

Blank == [silences |-> {}, banners |-> {}, events |-> {}]

\* Either the doors are busy, or the timeline is asked for after an outage
\* that began before its window, over or not, and one of each moment in it.
AnnotationsInit ==
    /\ desk = Free /\ steady = {}
    /\ \/ minute = 0 /\ keyed = 0 /\ reader = Off /\ book = Empty /\ asked = Blank
       \/ LET pin == [id |-> 1, until |-> None, at |-> 1]
              mark == [id |-> 1, at |-> 1]
          IN /\ minute = 3 /\ keyed = MaxTyped - 1 /\ reader = [Off EXCEPT !.pc = "idle"]
             /\ \E ended \in {None, 1, 3} :
                book = [pins |-> {pin}, marks |-> {mark}, alerts |-> {mark},
                        mutes |-> {[id |-> 1, target |-> "*", until |-> 4, at |-> 1]},
                        outages |-> {[id |-> 1, started |-> 0, ended |-> ended,
                                      event |-> NoEvent, note |-> FALSE]}]
             /\ asked = [banners |-> {pin}, events |-> {mark},
                         silences |-> {[covers |-> <<"all">>, until |-> 4]}]

\* A line is typed and validated, the clock and the latest incident read.
Validates(line) ==
    LET accepted ==
            CASE line.what = "announce" -> AnnouncementIsValid(line, minute)
              [] line.what = "silence"  -> SilenceIsValid(line)
              [] line.what = "event"    -> line.title # "blank"
              [] line.what = "annotate" -> LatestIncident # None
              [] OTHER -> TRUE
        until ==
            CASE line.what = "announce" /\ ~Forever(line.until) ->
                    ParseUntil(line.until, minute).total
              [] line.what = "silence" -> minute + ParseDuration(line.until.tokens).total
              [] OTHER -> None
    IN desk' = IF accepted
               THEN [Free EXCEPT !.pc = "valid", !.line = line, !.until = until,
                                 !.id = LatestIncident]
               ELSE [Free EXCEPT !.answer = "refused"]

Types(line) ==
    /\ desk.pc = "idle" /\ keyed < MaxTyped
    /\ keyed' = keyed + 1 /\ Validates(line)
    /\ UNCHANGED <<minute, book, asked, reader>>

Outcome(answer, count) == [Free EXCEPT !.answer = answer, !.count = count]
Doing(what) == desk.pc = "valid" /\ desk.line.what = what

Pins ==
    /\ Doing("announce")
    /\ book' = [book EXCEPT !.pins = @ \cup {PinRow}]
    /\ asked' = [asked EXCEPT !.banners = @ \cup {PinRow}]
    /\ desk' = Outcome("accepted", 0) /\ UNCHANGED <<minute, reader, keyed>>

Marks ==
    /\ Doing("event")
    /\ book' = [book EXCEPT !.marks = @ \cup {MarkRow}]
    /\ asked' = [asked EXCEPT !.events = @ \cup {MarkRow}]
    /\ desk' = Outcome("accepted", 0) /\ UNCHANGED <<minute, reader, keyed>>

\* One row per id, in one transaction.
Silences ==
    /\ Doing("silence")
    /\ book' = [book EXCEPT !.mutes = @ \cup Rows(desk.line, desk.until)]
    /\ asked' = [asked EXCEPT !.silences =
                    @ \cup {[covers |-> desk.line.ids, until |-> desk.until]}]
    /\ desk' = Outcome("accepted", 0) /\ UNCHANGED <<minute, reader, keyed>>

Annotates ==
    /\ Doing("annotate")
    /\ book' = [book EXCEPT !.outages =
                    (@ \ Noted(desk.id)) \cup {[o EXCEPT !.note = TRUE] : o \in Noted(desk.id)}]
    /\ desk' = Outcome(IF Noted(desk.id) = {} THEN "no such incident" ELSE "accepted", 0)
    /\ UNCHANGED <<minute, asked, reader, keyed>>

\* The rows deleted are counted if they were in force when the door was asked.
ClearsAnnouncements ==
    /\ Doing("clear announcements")
    /\ book' = [book EXCEPT !.pins = {}] /\ asked' = [asked EXCEPT !.banners = {}]
    /\ desk' = Outcome("cleared", Cardinality({p \in book.pins : InForce(p.until)}))
    /\ UNCHANGED <<minute, reader, keyed>>

ClearsSilences ==
    /\ Doing("clear silences")
    /\ book' = [book EXCEPT !.mutes = {}] /\ asked' = [asked EXCEPT !.silences = {}]
    /\ desk' = Outcome("cleared", Cardinality({m \in book.mutes : m.until > minute}))
    /\ UNCHANGED <<minute, reader, keyed>>

\* (mutated: each row of a silence is a statement of its own, and the second
\* fails)
WriteFailsHalfway ==
    /\ desk.pc = "valid" /\ desk' = Outcome("failed", 0)
    /\ book' = IF desk.line.what # "silence" THEN book
               ELSE [book EXCEPT !.mutes =
                        @ \cup {row \in Rows(desk.line, desk.until) : row.id = NextId(@)}]
    /\ UNCHANGED <<minute, asked, reader, keyed>>

\* The statement fails, or the process dies before it: no row.
WriteFails ==
    /\ desk.pc = "valid" /\ desk' = Outcome("failed", 0)
    /\ UNCHANGED <<minute, book, asked, reader, keyed>>

(* The daemon. *)

\* A down is confirmed: its incident names the latest marker, unless the
\* markers could not be read.
Confirms ==
    /\ Cardinality(book.outages) < MaxOutages
    /\ \A o \in book.outages : o.ended # None
    /\ \E event \in {LatestEvent, NoEvent} :
        book' = [book EXCEPT !.outages =
            @ \cup {[id |-> NextId(@), started |-> minute, ended |-> None,
                     event |-> event, note |-> FALSE]}]
    /\ UNCHANGED <<minute, desk, asked, reader, keyed>>

Recovers(o) ==
    /\ o.ended = None /\ minute > o.started
    /\ book' = [book EXCEPT !.outages = (@ \ {o}) \cup {[o EXCEPT !.ended = minute]}]
    /\ UNCHANGED <<minute, desk, asked, reader, keyed>>

Pushed ==
    /\ reader.pc # "off" /\ Cardinality(book.alerts) < MaxOutages
    /\ book' = [book EXCEPT !.alerts = @ \cup {[id |-> NextId(@), at |-> minute]}]
    /\ UNCHANGED <<minute, desk, asked, reader, keyed>>

\* The statements of the pruner, with the clock its pass began at.
Stale(table, at) ==
    CASE table = "mutes"   -> {m \in book.mutes : m.until < at}
      [] table = "pins"    -> {p \in book.pins : p.until # None /\ p.until < at}
      [] table = "alerts"  -> {a \in book.alerts : a.at < at - Year}
      [] table = "marks"   -> {e \in book.marks : e.at < at - Year}
      [] table = "outages" -> {o \in book.outages : o.ended # None /\ o.ended < at - Year}

Prunes(table, at) ==
    /\ at <= minute /\ Stale(table, at) # {}
    /\ book' = [book EXCEPT ![table] = @ \ Stale(table, at)]
    /\ UNCHANGED <<minute, desk, asked, reader, keyed>>

Passes ==
    /\ minute < MaxMinute /\ minute' = minute + 1
    /\ UNCHANGED <<book, desk, asked, reader, keyed>>

(* The timeline. *)

Tables == <<"outages", "marks", "alerts", "pins", "mutes">>   \* in the order they are read
Kinds == <<"alert", "announce", "down", "event", "recovered", "silence">>
RankOf(kind) == CHOOSE r \in DOMAIN Kinds : Kinds[r] = kind

\* ORDER BY its start DESC, id DESC LIMIT: the rows with fewer above them.
Foremost(table) ==
    {row \in book[table] : Cardinality({r \in book[table] : Above(r, row)}) < ReadLimit}

\* (mutated: an incident begun before the window is left out)
FetchedByStart(table, since) ==
    CASE table = "outages" -> {o \in Foremost(table) : o.started >= since}
      [] table = "alerts"  -> {a \in Foremost(table) : a.at >= since}
      [] OTHER -> {row \in book[table] : row.at >= since}

Fetched(table, since) ==
    CASE table = "outages" -> {o \in Foremost(table) : \/ o.started >= since
                                                       \/ o.ended # None /\ o.ended >= since}
      [] table = "alerts"  -> {a \in Foremost(table) : a.at >= since}
      [] OTHER -> {row \in book[table] : row.at >= since}

Entry(kind, at, id) == [kind |-> kind, at |-> at, id |-> id]

Moments(tables, since) ==
    {e \in {Entry("down", o.started, o.id) : o \in tables.outages}
           \cup {Entry("recovered", o.ended, o.id) : o \in {x \in tables.outages : x.ended # None}}
           \cup {Entry("event", e.at, e.id) : e \in tables.marks}
           \cup {Entry("alert", a.at, a.id) : a \in tables.alerts}
           \cup {Entry("announce", p.at, p.id) : p \in tables.pins}
           \cup {Entry("silence", m.at, m.id) : m \in tables.mutes} : e.at >= since}

Sooner(a, b) ==
    \/ a.at > b.at
    \/ a.at = b.at /\ RankOf(a.kind) < RankOf(b.kind)
    \/ a.at = b.at /\ a.kind = b.kind /\ (IF a.kind = "event" THEN a.id < b.id ELSE a.id > b.id)

Merge(got, since) == First(Ordered(Moments(got, since), Sooner), ShowLimit)

Look ==
    /\ reader.pc = "idle"
    /\ reader' = [Off EXCEPT !.pc = "reading", !.since = minute - TimelineSpan]
    /\ steady' = Moments(book, minute - TimelineSpan)
    /\ UNCHANGED <<minute, book, desk, asked, keyed>>

\* What the limit of a table leaves out.
LeftOut(table) ==
    IF table \in {"outages", "alerts"}
    THEN Moments([Empty EXCEPT ![table] = book[table] \ Foremost(table)], reader.since)
    ELSE {}

ReadsOn ==
    /\ reader.pc = "reading"
    /\ LET table == Tables[reader.next]
           got == [reader.got EXCEPT ![table] = Fetched(table, reader.since)]
       IN /\ reader' = IF reader.next < Len(Tables)
                       THEN [reader EXCEPT !.next = @ + 1, !.got = got]
                       ELSE [Off EXCEPT !.pc = "shown", !.entries = Merge(got, reader.since)]
          /\ steady' = steady \ LeftOut(table)
    /\ UNCHANGED <<minute, book, desk, asked, keyed>>

Recorded ==
    \/ \E line \in Lines : Types(line)
    \/ Pins \/ Marks \/ Silences \/ Annotates \/ ClearsAnnouncements \/ ClearsSilences
    \/ WriteFails \/ Confirms \/ \E o \in book.outages : Recovers(o)
    \/ Pushed \/ Passes
    \/ \E i \in DOMAIN Tables, at \in {minute - 1, minute} : Prunes(Tables[i], at)

\* What happens before the timeline is asked for or once it is shown is not
\* told apart.
AnnotationsNext ==
    \/ Look \/ ReadsOn
    \/ /\ reader.pc \in {"off", "reading"} /\ Recorded
       /\ steady' = steady \cap Moments(book', reader.since)

(* Properties. *)

\* What a silence covers, from the words it was asked with.
Covered(s, id) == s.covers = <<"all">> \/ id \in ToSet(s.covers)

\* What operators were told holds until it expires or is cleared, whatever the
\* pruner and the failures of writes do: alerts of a monitor or a watched peer
\* are muted exactly while an accepted silence covers it (and by none that
\* named an unknown id, or was refused or failed), the banners are the
\* accepted announcements still running, newest first, and the change an
\* incident names is the latest one recorded within the lookback.
AnnotationsAreKept ==
    /\ \A id \in MonitorSet \cup WatchedNodes :
        IsSilenced(id) <=> \E s \in asked.silences : Covered(s, id) /\ InForce(s.until)
    /\ ToSet(ActiveAnnouncements) = {b \in asked.banners : InForce(b.until)}
    /\ \A o \in book.outages : o.event # NoEvent =>
        /\ o.started - o.event \in 0..EVENT_LOOKBACK
        /\ \E e \in asked.events : e.at = o.event
        /\ ~\E e \in asked.events : e.at > o.event /\ e.at < o.started

\* The timeline is read table by table while others write: every moment that
\* was recorded when it was asked for and stands till it is shown is in it, in
\* order, unless the newer ones fill it, or its incident or alert was not among
\* the newest when these were read.
TimelineIsWhole ==
    reader.pc = "shown" =>
        LET entries == reader.entries
        IN /\ \A e \in steady :
                \/ e \in ToSet(entries)
                \/ /\ Len(entries) = ShowLimit
                   /\ \A i \in DOMAIN entries : entries[i].at >= e.at
           /\ \A i, j \in DOMAIN entries : i < j => entries[i].at >= entries[j].at
=============================================================================
