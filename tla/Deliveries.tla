----------------------------- MODULE Deliveries -----------------------------
(***************************************************************************)
(* A notification on its way out through one channel (hora-notify): an     *)
(* event put into words, the words cut to what the channel's API accepts,  *)
(* the request sent and retried.                                           *)
(*                                                                         *)
(* Of a text the model keeps what it says, how many characters of it are   *)
(* shown and the sort of its characters; the wording is left out: a fixed  *)
(* phrase is PHRASE characters.  The limits are the code's own.            *)
(***************************************************************************)
EXTENDS Integers, Sequences, FiniteSets

CONSTANTS
    Notices,        \* the events sent, with how many times at once
    PHRASE,         \* the characters a fixed phrase adds
    SendAttempts    \* util.rs, MAX_ATTEMPTS

VARIABLES
    notice,     \* the event and how many notifications of it are sent at once
    channel,    \* the backend it goes through
    sending,    \* sending[f]: how far notification f is
    arrived,    \* what the channel's service has stored, in order
    counter     \* txn_id's COUNTER

deliveryVars == <<notice, channel, sending, arrived, counter>>

\* No notification is on its way.
NoChannel == "none"

---------------------------------------------------------------------------
(* Texts (util.rs) *)

\* Four bytes a character; one that markup escapes; neither.
Sorts == {"plain", "wide", "escaped"}

\* A text of one sort of characters. When it is a field, `name` is what its
\* name and the ": " behind it take (message.rs, Line).
Text(of, sort, length) ==
    [of |-> of, sort |-> sort, length |-> length, name |-> 0, end |-> "whole"]
FieldOf(text) == [text EXCEPT !.name = 5]    \* "old: ", "new: "

Cost(sort, unit) == IF unit = "bytes" /\ sort = "wide" THEN 4 ELSE 1
Ellipsis(unit) == IF unit = "bytes" THEN 3 ELSE 1

Measure(text, unit) ==
    text.length * Cost(text.sort, unit)
        + (IF text.end = "marked" THEN Ellipsis(unit) ELSE 0)

\* The longest beginning that leaves room for an ellipsis, and the ellipsis; a
\* bare cut where not even that fits.
Truncate(text, max, unit) ==
    LET marked == max >= Ellipsis(unit)
        room == IF marked THEN max - Ellipsis(unit) ELSE max
    IN IF Measure(text, unit) <= max THEN text
       ELSE [text EXCEPT !.length = room \div Cost(text.sort, unit),
                         !.end = IF marked THEN "marked" ELSE "bare"]

IsEmpty(text) == text.length = 0 /\ text.end # "marked"
NonEmpty(texts) == IF texts # <<>> /\ IsEmpty(texts[1]) THEN <<>> ELSE texts

\* Of at most four pieces: a message has a code block and three lines.
Total(sizes) ==
    LET Of(i) == IF i \in DOMAIN sizes THEN sizes[i] ELSE 0
    IN Of(1) + Of(2) + Of(3) + Of(4)

\* The pieces with a newline between them.
WithBreaks(sizes) == IF sizes = <<>> THEN 0 ELSE Total(sizes) + Len(sizes) - 1

---------------------------------------------------------------------------
(* Events (lib.rs) and what they say (message.rs). An optional field is a   *)
(* sequence of at most one text. *)

Severities == {"info", "warning", "error", "critical"}

\* What an event of each kind carries besides whom it is about. `about` is a
\* title, a domain, a period, a release; `detail` a message, a summary, a witness.
Carries ==
    [down |-> {"error", "cause", "impacted", "vantage", "change"}, degraded |-> {"detail"},
     recovered |-> {}, cert_expiring |-> {"left"}, domain_expiring |-> {"about", "left"},
     release |-> {"about", "notes", "url"}, digest |-> {"about", "detail"},
     peer_link_degraded |-> {"detail"}, cert_changed |-> {"old", "new"},
     cert_unreadable |-> {"error"}, budget_burn |-> {"about"}, alert |-> {"about", "detail"}]
EventKinds == DOMAIN Carries

Event(kind, who) ==
    [kind |-> kind, who |-> who, severity |-> "none", about |-> <<>>, error |-> <<>>,
     cause |-> <<>>, impacted |-> <<>>, vantage |-> <<>>, change |-> <<>>, detail |-> <<>>,
     notes |-> <<>>, url |-> <<>>, old |-> <<>>, new |-> <<>>, left |-> <<>>]

Phrase == Text("phrase", "plain", PHRASE)

\* "caused by ...", "recent change: ..."
Saying(texts) == [i \in DOMAIN texts |-> [texts[i] EXCEPT !.length = @ + PHRASE]]
Fields(texts) == [i \in DOMAIN texts |-> FieldOf(texts[i])]

\* Quiet, Notice, Warning, High, Critical.
Urgency(event) ==
    CASE event.kind \in {"recovered", "digest"} \/ event.severity = "info" -> 1
      [] event.kind = "release" -> 2
      [] \/ event.kind \in {"degraded", "cert_expiring", "cert_unreadable", "domain_expiring",
                            "peer_link_degraded"}
         \/ event.severity = "warning" -> 3
      [] event.kind \in {"down", "cert_changed", "budget_burn"} \/ event.severity = "error" -> 4
      [] OTHER -> 5

HOUR == 3600
DAY == 86400

\* What is left, in seconds: "has expired", under an hour, so many hours or days.
ExpiryPhrase(left) ==
    IF left <= 0 THEN <<"expired", 0>>
    ELSE IF left < HOUR THEN <<"minutes", 0>>
    ELSE IF left < DAY THEN <<"hours", left \div HOUR>>
    ELSE <<"days", left \div DAY>>

\* The code block and the lines under a headline.
Details(e) ==
    LET Only(lines) == [code |-> <<>>, lines |-> lines]
    IN CASE e.kind = "down" ->
               [code |-> IF e.error = <<>> THEN <<Phrase>> ELSE e.error,
                lines |-> Saying(IF e.cause # <<>> THEN e.cause ELSE e.impacted)
                             \o e.vantage \o Saying(e.change)]
         [] e.kind = "release" -> Only(e.notes \o e.url)
         [] e.kind = "digest" -> Only(e.detail)
         [] e.kind = "peer_link_degraded" -> Only(Saying(e.detail))
         [] e.kind = "cert_changed" -> Only(Fields(e.old) \o Fields(e.new) \o <<Phrase>>)
         [] e.kind = "cert_unreadable" -> [code |-> e.error, lines |-> <<Phrase>>]
         [] e.kind \in {"alert", "degraded"} -> Only(NonEmpty(e.detail))
         [] OTHER -> Only(<<>>)

\* Message::render: the headline's bold subject, the rest of it, the body.
Render(e) ==
    [subject |-> CASE e.kind = "digest" -> Phrase
                   [] e.kind = "alert" -> Saying(<<e.who>>)[1]
                   [] OTHER -> e.who,
     rest |-> IF e.about = <<>> THEN Phrase ELSE Saying(e.about)[1],
     code |-> Details(e).code,
     lines |-> Details(e).lines]

---------------------------------------------------------------------------
(* Message::fit *)

LineLength(line, unit) == line.name + Measure(line, unit)

Minus(budget, spent) == IF spent > budget THEN 0 ELSE budget - spent

\* What is left of the budget once the lines before line i are kept.
Left(lines, budget, unit, i) ==
    Minus(budget, Total([j \in 1..(i - 1) |-> LineLength(lines[j], unit) + 1]))

\* What a line that does not fit leaves: its beginning, or nothing.
Beginning(line, budget, unit) ==
    LET room == Minus(budget, line.name)
        cut == Truncate(line, room, unit)
    IN IF (line.name > 0 /\ room = 0) \/ LineLength(cut, unit) = 0 THEN <<>> ELSE <<cut>>

\* How many lines fit before one does not.
Fitting(lines, budget, unit) ==
    LET Fits(i) == LineLength(lines[i], unit) <= Left(lines, budget, unit, i)
    IN CHOOSE n \in 0..Len(lines) :
          (\A i \in 1..n : Fits(i)) /\ (n < Len(lines) => ~Fits(n + 1))

\* The lines that fit, the beginning of the first that does not, nothing more.
FitLines(lines, budget, unit) ==
    LET n == Fitting(lines, budget, unit)
    IN SubSeq(lines, 1, n)
          \o (IF n = Len(lines) THEN <<>>
              ELSE Beginning(lines[n + 1], Left(lines, budget, unit, n + 1), unit))

Fit(message, head, body, unit) ==
    LET subject == Truncate(message.subject, head, unit)
        code == [i \in DOMAIN message.code |-> Truncate(message.code[i], body, unit)]
        spent == IF code = <<>> THEN 0 ELSE Measure(code[1], unit) + 1
    IN [subject |-> subject,
        rest |-> Truncate(message.rest, Minus(head, Measure(subject, unit)), unit),
        code |-> NonEmpty(code),
        lines |-> IF code # message.code THEN <<>>
                  ELSE FitLines(message.lines, Minus(body, spent), unit)]

---------------------------------------------------------------------------
(* The channels: the limits they fit a message to and in what unit; what an *)
(* escaped character grows to as the service counts it; what their icon or  *)
(* tag, bold, code block and inline code add; how they send; how loud they  *)
(* ring for an urgency; the longest title and text their service takes.     *)

NoLimit == 0

Within(size, limit) == limit = NoLimit \/ size <= limit

Plainly ==
    [head |-> 512, body |-> 15000, unit |-> "chars", growth |-> 1, icon |-> 0, bold |-> 0,
     block |-> 0, inline |-> 0, titled |-> FALSE, ascii |-> FALSE, transactions |-> FALSE,
     attempts |-> SendAttempts, loudness |-> <<0, 0, 0, 0, 0>>, title |-> NoLimit, text |-> NoLimit]

Icon == 3   \* up to two characters, and a space

Slack ==
    [Plainly EXCEPT !.body = 7000, !.growth = 5, !.icon = Icon, !.bold = 2, !.block = 6,
                    !.inline = 2, !.text = 40000]

Discord ==
    [Plainly EXCEPT !.head = 250, !.body = 4000, !.icon = Icon, !.block = 6, !.inline = 2,
                    !.titled = TRUE, !.title = 256, !.text = 4096]

\* The limit is of the text after its entities are parsed.
Telegram == [Plainly EXCEPT !.body = 3500, !.icon = Icon, !.text = 4096]

Matrix == [Plainly EXCEPT !.icon = Icon, !.transactions = TRUE]

Gotify == [Plainly EXCEPT !.loudness = <<2, 3, 5, 8, 9>>]

\* Its limits leave no margin.
Pushover ==
    [Plainly EXCEPT !.head = 256, !.body = 1024 - 256 - 1, !.loudness = <<-1, 0, 0, 1, 1>>,
                    !.text = 1024]

Ntfy ==
    [Plainly EXCEPT !.head = 256, !.body = 3800, !.unit = "bytes",
                    !.loudness = <<2, 3, 3, 4, 5>>, !.text = 4096]

FreeMobile == [Plainly EXCEPT !.head = 120, !.body = 340, !.ascii = TRUE]

\* Sent once, through a relay; its subject, a header line, behind a tag.
Email ==
    [Plainly EXCEPT !.head = 200, !.body = 60000, !.icon = 10, !.titled = TRUE, !.attempts = 1,
                    !.title = 998]

\* The event itself, not a message: see Payload.
Webhook == Plainly

Backends ==
    [slack |-> Slack, discord |-> Discord, telegram |-> Telegram, matrix |-> Matrix,
     gotify |-> Gotify, pushover |-> Pushover, ntfy |-> Ntfy, freemobile |-> FreeMobile,
     email |-> Email, webhook |-> Webhook]

\* A Discord embed's colour, and the emoji ntfy shows.
Color(event) ==
    CASE event.kind = "down" \/ event.severity \in {"error", "critical"} -> "red"
      [] event.kind \in {"recovered", "digest"} -> "green"
      [] event.kind \in {"cert_expiring", "domain_expiring", "release", "cert_changed",
                         "cert_unreadable"} -> "copper"
      [] event.severity = "info" -> "blue"
      [] OTHER -> "orange"
NtfyTag(event) ==
    CASE event.kind = "down" \/ event.severity \in {"error", "critical"} -> "rotating_light"
      [] event.kind \in {"degraded", "peer_link_degraded"} \/ event.severity = "warning" -> "warning"
      [] event.kind = "recovered" -> "white_check_mark"
      [] OTHER -> "other"

\* What a channel shows of an event, and how long that is once it is in markup.
Shown(c, event) == Fit(Render(event), c.head, c.body, c.unit)

Escaped(c, text) ==
    text.length * (IF text.sort = "escaped" THEN c.growth ELSE Cost(text.sort, c.unit))
        + (IF text.end # "marked" THEN 0 ELSE IF c.ascii THEN 3 ELSE Ellipsis(c.unit))

HeadlineSize(c, message) ==
    c.icon + c.bold + Escaped(c, message.subject) + Escaped(c, message.rest)

BodySize(c, message) ==
    LET blocks == [i \in DOMAIN message.code |-> c.block + Escaped(c, message.code[i])]
        lines == [i \in DOMAIN message.lines |->
                    LET line == message.lines[i]
                    IN Escaped(c, line) + (IF line.name > 0 THEN line.name + c.inline ELSE 0)]
    IN WithBreaks(blocks \o lines)

TitleSize(c, message) == IF c.titled THEN HeadlineSize(c, message) ELSE 0
TextSize(c, message) ==
    LET body == BodySize(c, message)
    IN IF c.titled THEN body
       ELSE HeadlineSize(c, message) + (IF body = 0 THEN 0 ELSE body + 1)

\* The webhook's payload: the event's own fields, absent ones left out.
Payload(e) ==
    [message |-> CASE e.kind \in {"down", "cert_unreadable"} -> e.error
                   [] e.kind \in {"degraded", "digest"} -> e.detail
                   [] e.kind = "alert" -> NonEmpty(e.detail)
                   [] e.kind = "release" -> e.notes
                   [] OTHER -> <<>>,
     cause |-> e.cause, impacted |-> e.impacted, vantage |-> e.vantage, change |-> e.change,
     url |-> e.url, title |-> e.about,
     witness |-> IF e.kind = "peer_link_degraded" THEN e.detail ELSE <<>>,
     old_fingerprint |-> e.old, new_fingerprint |-> e.new,
     \* a division that drops the fraction, of a negative number too
     days_left |-> [i \in DOMAIN e.left |->
                      IF e.left[i] < 0 THEN -((-e.left[i]) \div DAY) ELSE e.left[i] \div DAY]]

---------------------------------------------------------------------------
(* On its way (send_retrying, and each Notifier's notify). *)

Notifications == DOMAIN sending
Backend == Backends[channel]

\* notify is called.
DeliveriesInit ==
    /\ \/ channel = NoChannel /\ notice = CHOOSE n \in Notices : TRUE
       \/ channel \in DOMAIN Backends /\ notice \in Notices
    /\ sending = [f \in 1..notice.flights |-> [attempt |-> 0, outcome |-> "ready", txn |-> 0]]
    /\ arrived = <<>>
    /\ counter = 0

\* A Matrix message takes its transaction before it is sent. The wall clock may
\* read the same for two of them: the counter tells them apart.
CounterMoved == IF Backend.transactions THEN counter + 1 ELSE counter

\* The text is put together, the request built and sent.
Begin(f) ==
    /\ sending[f].outcome = "ready"
    /\ sending' = [sending EXCEPT ![f] = [attempt |-> 1, outcome |-> "sent", txn |-> counter]]
    /\ counter' = CounterMoved
    /\ UNCHANGED <<notice, channel, arrived>>

Ends(f, outcome) == sending' = [sending EXCEPT ![f].outcome = outcome]

\* No request can be built: a homeserver that is no URL, a mail that cannot be composed.
Unbuilt(f) ==
    /\ sending[f].outcome = "ready"
    /\ channel \in {"matrix", "email"}
    /\ Ends(f, "failed")
    /\ counter' = CounterMoved
    /\ UNCHANGED <<notice, channel, arrived>>

\* (mutated: the transaction id is made in the closure that builds the request)
RetriedAnew(f) ==
    [sending EXCEPT ![f].attempt = @ + 1, ![f].txn = counter + sending[f].attempt]
\* After the backoff, the same request.
Retried(f) == [sending EXCEPT ![f].attempt = @ + 1]

\* The next attempt, or the last was this one.
RetryOr(f, outcome) ==
    IF sending[f].attempt < Backend.attempts
    THEN sending' = Retried(f)
    ELSE Ends(f, outcome)

\* The service stores a request; a homeserver only once per transaction.
Stores(f) ==
    arrived' = IF Backend.transactions /\ \E i \in DOMAIN arrived : arrived[i].txn = sending[f].txn
               THEN arrived
               ELSE Append(arrived, [flight |-> f, txn |-> sending[f].txn])

Taken(f) ==
    /\ sending[f].outcome = "sent"
    /\ Stores(f)
    /\ Ends(f, "delivered")
    /\ UNCHANGED <<notice, channel, counter>>

\* A status that is not a success: a 5xx or 429; a 413 (a relay has no such
\* answer); any other.
Rejected(f, status) ==
    /\ sending[f].outcome = "sent"
    /\ CASE status = "overloaded" -> RetryOr(f, "failed")
         [] status = "too_large"  -> channel # "email" /\ Ends(f, "too_large")
         [] status = "refused"    -> Ends(f, "failed")
    /\ UNCHANGED <<notice, channel, arrived, counter>>

\* No answer in time, or a connection lost: the request may have been stored.
GetsNoAnswer(f) ==
    /\ sending[f].outcome = "sent"
    /\ Stores(f) \/ UNCHANGED arrived
    /\ RetryOr(f, "failed")
    /\ UNCHANGED <<notice, channel, counter>>

DeliveriesNext ==
    /\ channel # NoChannel
    /\ \E f \in Notifications :
          \/ Begin(f)
          \/ Unbuilt(f)
          \/ Taken(f)
          \/ \E status \in {"overloaded", "too_large", "refused"} : Rejected(f, status)
          \/ GetsNoAnswer(f)

DeliveriesSpec == DeliveriesInit /\ [][DeliveriesNext]_deliveryVars

---------------------------------------------------------------------------
(* What the notices are *)

OptionalTexts ==
    {"about", "error", "cause", "impacted", "vantage", "change", "detail", "notes", "url",
     "old", "new"}

IsText(text) ==
    /\ text = Text(text.of, text.sort, text.length)
    /\ text.sort \in Sorts /\ text.length \in Nat
IsOptional(texts) == texts = <<>> \/ (texts = <<texts[1]>> /\ IsText(texts[1]))

\* An event carries what its kind does; what it must carry is there, and only a
\* message or an error may be an empty text.
IsEvent(e) ==
    /\ e.kind \in EventKinds
    /\ e = [Event(e.kind, e.who) EXCEPT
               !.severity = e.severity, !.about = e.about, !.error = e.error, !.cause = e.cause,
               !.impacted = e.impacted, !.vantage = e.vantage, !.change = e.change,
               !.detail = e.detail, !.notes = e.notes, !.url = e.url, !.old = e.old,
               !.new = e.new, !.left = e.left]
    /\ IsText(e.who)
    /\ e.severity \in (IF e.kind = "alert" THEN Severities ELSE {"none"})
    /\ \A field \in OptionalTexts :
          /\ IsOptional(e[field])
          /\ field \notin Carries[e.kind] => e[field] = <<>>
    /\ \/ "left" \in Carries[e.kind] /\ e.left = <<e.left[1]>> /\ e.left[1] \in Int
       \/ "left" \notin Carries[e.kind] /\ e.left = <<>>
    /\ \A field \in {"about", "url", "old", "new"} \cap Carries[e.kind] : e[field] # <<>>
    /\ e.kind \in {"digest", "peer_link_degraded"} => e.detail # <<>>
    /\ e.kind = "cert_unreadable" => e.error # <<>>
    /\ \A field \in {"vantage", "notes", "url"} : \A i \in DOMAIN e[field] : e[field][i].length > 0
    /\ e.kind = "digest" => e.detail[1].length > 0

ASSUME DeliveriesAssumption ==
    /\ PHRASE \in Nat \ {0}
    /\ SendAttempts \in Nat \ {0}
    /\ Notices # {}
    /\ \A n \in Notices : IsEvent(n.event) /\ n.flights \in Nat

---------------------------------------------------------------------------
(* Properties *)

\* No API is sent a title or a message longer than it takes, whatever the
\* markup and the escapes add.
FitsTheChannel(c, shown) ==
    Within(TitleSize(c, shown), c.title) /\ Within(TextSize(c, shown), c.text)

\* A text is whole, or less than the whole, marked where the mark has room.
IsCutOf(shown, whole, unit) ==
    \/ shown = whole
    \/ /\ shown = [whole EXCEPT !.length = shown.length, !.end = shown.end]
       /\ shown.length < whole.length
       /\ \/ shown.end = "marked"
          \/ shown.end = "bare" /\ Measure(shown, unit) < Ellipsis(unit)

\* What is shown is the beginning of what there is, in order, and only its last
\* piece is cut; what would have fitted is not cut at all.
ShowsTheBeginning(c, shown, whole) ==
    LET Length(message) ==
            WithBreaks([i \in DOMAIN message.code |-> Measure(message.code[i], c.unit)]
                       \o [i \in DOMAIN message.lines |-> LineLength(message.lines[i], c.unit)])
    IN /\ IsCutOf(shown.subject, whole.subject, c.unit)
       /\ IsCutOf(shown.rest, whole.rest, c.unit)
       /\ Len(shown.code) <= Len(whole.code) /\ Len(shown.lines) <= Len(whole.lines)
       /\ \A i \in DOMAIN shown.code : IsCutOf(shown.code[i], whole.code[i], c.unit)
       /\ \A i \in DOMAIN shown.lines :
             /\ IsCutOf(shown.lines[i], whole.lines[i], c.unit)
             /\ i < Len(shown.lines) => shown.lines[i] = whole.lines[i]
             /\ shown.code = NonEmpty(whole.code)
       /\ Measure(whole.subject, c.unit) + Measure(whole.rest, c.unit) <= c.head =>
             shown.subject = whole.subject /\ shown.rest = whole.rest
       /\ Length(whole) <= c.body =>
             shown.code = NonEmpty(whole.code) /\ shown.lines = whole.lines

\* The words and the webhook's payload say the same of an event: the down of a
\* monitor with a cause is not told what it impacts in turn.
SaysWhatThePayloadSays(event) ==
    LET p == Payload(event)
        message == Render(event)
        said == <<message.subject, message.rest>> \o message.code \o message.lines
        Says(texts) ==
            \A i \in DOMAIN texts : IsEmpty(texts[i]) \/ \E j \in DOMAIN said :
                said[j].of = texts[i].of /\ said[j].length >= texts[i].length
    IN /\ \A texts \in {p.message, p.cause, p.vantage, p.change, p.url, p.title, p.witness,
                        p.old_fingerprint, p.new_fingerprint} : Says(texts)
       /\ p.cause = <<>> => Says(p.impacted)
       /\ \A i \in DOMAIN event.left :
            LET left == event.left[i]
                days == p.days_left[i]
            IN /\ ExpiryPhrase(left)[1] = "expired" <=> left <= 0
               /\ days > 0 <=> ExpiryPhrase(left)[1] = "days"
               /\ days > 0 => days = ExpiryPhrase(left)[2]

\* Of two events a channel never rings louder for the less urgent, and green is
\* for what is quiet, red for what is broken.
RingsByUrgency(c, event) ==
    /\ \A u \in 1..4 : c.loudness[u] <= c.loudness[u + 1]
    /\ Color(event) = "green" => Urgency(event) = 1
    /\ Color(event) = "red" => Urgency(event) >= 4
    /\ NtfyTag(event) = "rotating_light" <=> Color(event) = "red"

\* What the service stored of a notification.
StoredOf(f) == {i \in DOMAIN arrived : arrived[i].flight = f}

\* A delivery that is reported was stored; a homeserver stores a notification at
\* most once however often it is retried, any service at most once per attempt,
\* and what was refused for good is not tried again.
ReportedIsStored ==
    \A f \in Notifications :
        LET s == sending[f]
        IN /\ s.outcome = "delivered" => StoredOf(f) # {}
           /\ Cardinality(StoredOf(f)) <= IF Backend.transactions THEN 1 ELSE s.attempt
           /\ s.attempt <= Backend.attempts
           /\ s.outcome = "too_large" => Cardinality(StoredOf(f)) < s.attempt

\* NoticesArriveWhole: a notification leaves within the limits of its channel,
\* with the beginning of everything the event says (Message::fit), rings by how
\* urgent it is, and once it is reported delivered the service has it.
NoticesArriveWhole ==
    channel # NoChannel =>
        LET event == notice.event
            shown == Shown(Backend, event)
        IN /\ FitsTheChannel(Backend, shown)
           /\ ShowsTheBeginning(Backend, shown, Render(event))
           /\ SaysWhatThePayloadSays(event)
           /\ RingsByUrgency(Backend, event)
           /\ ReportedIsStored
=============================================================================
