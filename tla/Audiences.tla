----------------------------- MODULE Audiences -----------------------------
(***************************************************************************)
(* Who is shown what: the credential of a request and the audience it      *)
(* resolves to (auth.rs), the rules of that audience over a configuration  *)
(* (visibility.rs), the operator's summary and the views derived from it   *)
(* (summary), and the pages and APIs that answer with them (handlers).     *)
(*                                                                         *)
(* A monitor's name is its id.  The figures of a card, the text of a page  *)
(* and the announcements are left out; an incident is one that was         *)
(* recorded with its reason, its captured response, a correlated event and *)
(* a vantage verdict, each either passed on or not.  A site lists the      *)
(* windows of maintenance in progress, each by the monitors it covers: a   *)
(* reload between sites that differ in them only is also a window that     *)
(* starts or ends.  The rendered pages kept in memory are those of         *)
(* StatusPage.                                                             *)
(***************************************************************************)
EXTENDS Integers, Sequences, FiniteSets, SequencesExt

CONSTANTS
    Sites,        \* configurations: [auth, monitors : id -> [public, group, published, upstream],
                  \* maintenance : the set of ids each window in progress covers, {} for all]
    Starts,       \* [site, levels, logged] a behaviour may start from
    NoName,       \* no monitor, no group, no token
    LogLimit,     \* how many incidents a log page lists
    MAX_VISIBILITY_SCAN, RECENT_SCAN, RECENT_SHOWN,
    MaxNews       \* bound: incidents opened, builds and reloads once the site is up

VARIABLES
    site,    \* the configuration in force
    levels,  \* the status of each monitor of the site
    logged,  \* the incidents, newest first
    built,   \* the last build: [cards, levels, logged, banners]
    visit,   \* the request under way
    answer,  \* what it was answered
    news     \* bound counter

audienceVars == <<site, levels, logged, built, visit, answer, news>>

Statuses == <<"up", "unknown", "degraded", "down">>   \* from best to worst
Rank(s) == CHOOSE r \in DOMAIN Statuses : Statuses[r] = s
Worst(shown) == IF shown = {} THEN "up"
                ELSE CHOOSE s \in shown : \A t \in shown : Rank(t) <= Rank(s)

(* The credential. *)

Matches(provided, expected) == provided # NoName /\ provided = expected

Expected(s) == IF s.auth THEN "operator" ELSE NoName   \* server.auth_token

IsOperator(v) == \/ Matches(v.bearer, Expected(v.site))
                 \/ Matches(v.query, Expected(v.site))

Presented(v) == IF v.bearer # NoName THEN v.bearer ELSE v.query

\* The token of a group is its name.
AudienceForGroup(v, group) ==
    CASE IsOperator(v) -> "operator"
      [] ~IsOperator(v) /\ group # NoName /\ Matches(Presented(v), group) -> group
      [] OTHER -> "public"

AudienceOf(v) == IF IsOperator(v) THEN "operator" ELSE "public"

(* The rules of an audience over a configuration. *)

MonitorsOf(s) == DOMAIN s.monitors
InGroup(s, a, id) == s.monitors[id].group # NoName /\ s.monitors[id].group = a
Visible(s, a) == {id \in MonitorsOf(s) : s.monitors[id].public \/ InGroup(s, a, id)}
Published(s, a) == {id \in Visible(s, a) : s.monitors[id].public /\ s.monitors[id].published}
Detailed(s, a) == Published(s, a) \cup {id \in Visible(s, a) : InGroup(s, a, id)}

CanSee(s, a, id) == a = "operator" \/ id \in Visible(s, a)
CanName(s, a, id) == a = "operator" \/ id \in Visible(s, a)
HasDetail(s, a, id) == a = "operator" \/ id \in Detailed(s, a)
IsPublished(s, a, id) == a = "operator" \/ id \in Published(s, a)

\* An incident as it is stored, and as an audience reads it.
Row(id, monitor, ended, cause, impacted) ==
    [id |-> id, monitor |-> monitor, ended |-> ended, cause |-> cause, impacted |-> impacted,
     raw |-> TRUE, event |-> TRUE]

\* (mutated: what an incident impacted is passed on)
SanitizedWithNames(s, a, row) ==
    [row EXCEPT !.raw = HasDetail(s, a, row.monitor),
                !.event = IsPublished(s, a, row.monitor),
                !.cause = IF CanName(s, a, @) THEN @ ELSE NoName]

Sanitized(s, a, row) ==
    [row EXCEPT !.raw = HasDetail(s, a, row.monitor),
                !.event = IsPublished(s, a, row.monitor),
                !.cause = IF CanName(s, a, @) THEN @ ELSE NoName,
                !.impacted = {id \in @ : CanName(s, a, id)}]

\* The rows that pass a test, in order (Vec::retain).
AtPlaces(rows, places) ==
    [k \in 1..Cardinality(places) |->
        rows[CHOOSE i \in places : Cardinality({j \in places : j <= i}) = k]]
Passing(rows, Test(_)) == AtPlaces(rows, {i \in DOMAIN rows : Test(rows[i])})

FilterRows(s, a, rows) ==
    LET seen == Passing(rows, LAMBDA row : CanSee(s, a, row.monitor))
    IN [i \in DOMAIN seen |-> Sanitized(s, a, seen[i])]

(* The summary. *)

\* The graph is without cycles (Topology).
UpstreamsOf(s, id) ==
    LET above[m \in MonitorsOf(s)] == LET up == s.monitors[m].upstream
                                      IN IF up = NoName THEN {} ELSE {up} \cup above[up]
    IN above[id]

DependentsOf(s, id) == {d \in MonitorsOf(s) : id \in UpstreamsOf(s, d)}

IsDown(lv, id) == id \in DOMAIN lv /\ lv[id] = "down"

\* The nearest upstream that is down and may be named: the others are beyond it.
Cause(s, a, lv, id) ==
    LET named == {u \in UpstreamsOf(s, id) : IsDown(lv, u) /\ CanName(s, a, u)}
        nearest == {u \in named : named \ {u} \subseteq UpstreamsOf(s, u)}
    IN IF IsDown(lv, id) /\ nearest # {} THEN CHOOSE u \in nearest : TRUE ELSE NoName

Impacted(s, a, lv, id) ==
    IF IsDown(lv, id) /\ Cause(s, a, lv, id) = NoName
    THEN {d \in DependentsOf(s, id) : CanName(s, a, d)}
    ELSE {}

OpenIn(rows) == {row.monitor : row \in {r \in ToSet(rows) : r.ended = "open"}}
Newest(rows, n) == SubSeq(rows, 1, IF n < Len(rows) THEN n ELSE Len(rows))

Card(s, a, lv, open, group, id) ==
    [status |-> lv[id], group |-> group, open |-> id \in open, raw |-> HasDetail(s, a, id),
     cause |-> Cause(s, a, lv, id), impacted |-> Impacted(s, a, lv, id)]

Build(s, lv, rows) ==
    [levels |-> lv, logged |-> Newest(rows, RECENT_SCAN),
     banners |-> s.maintenance,
     cards |-> [id \in MonitorsOf(s) |->
                    Card(s, "operator", lv, OpenIn(rows), s.monitors[id].group, id)]]

Recent(s, a, rows, cards) ==
    LET listed == Passing(rows, LAMBDA row :
                      /\ row.ended # "old"
                      /\ CanSee(s, a, row.monitor) /\ row.monitor \in DOMAIN cards)
    IN FilterRows(s, a, Newest(listed, RECENT_SHOWN))

Overall(cards) == Worst({cards[id].status : id \in DOMAIN cards})
Quiet(cards) == \A id \in DOMAIN cards : ~cards[id].open

Found(cards, rows, streams) ==
    [kind |-> "found", cards |-> cards, rows |-> rows, overall |-> Overall(cards),
     quiet |-> Quiet(cards), streams |-> streams, banners |-> {}]
Missing == [Found(<<>>, <<>>, FALSE) EXCEPT !.kind = "missing"]
Denied == [Missing EXCEPT !.kind = "refused"]
Unanswered == [Missing EXCEPT !.kind = "none"]

\* The banners of planned maintenance, each with the monitors it names; a page
\* of some monitors has those of the windows that touch them.
Announcing(what, windows) == [what EXCEPT !.banners = windows]
Touching(windows, ids) == {w \in windows : w = {} \/ w \cap ids # {}}

\* The operator's summary, or the view derived from it for another audience
\* by the rules of the configuration the request goes by; the banners are those
\* of the build for every audience.
Derived(s, a, b) ==
    [id \in {i \in DOMAIN b.cards : CanSee(s, a, i) /\ i \in MonitorsOf(s)} |->
        Card(s, a, b.levels, {i \in DOMAIN b.cards : b.cards[i].open}, b.cards[id].group, id)]

CardsFor(s, a, b) == IF a = "operator" THEN b.cards ELSE Derived(s, a, b)

Summary(s, a, b) ==
    LET cards == CardsFor(s, a, b)
    IN Announcing(Found(cards, Recent(s, a, b.logged, cards), a = "operator"), b.banners)

\* (mutated: the badge of the whole page is kept)
ForGroupKeepsOverall(s, whole, group) ==
    LET ids == {id \in DOMAIN whole.cards : whole.cards[id].group = group}
        cards == [id \in ids |-> whole.cards[id]]
        rows == Passing(whole.rows, LAMBDA row : row.monitor \in ids)
    IN IF ids = {} THEN Missing
       ELSE [Found(cards, rows, whole.streams) EXCEPT !.overall = whole.overall,
                                                      !.banners = Touching(s.maintenance, ids)]

\* The view of one group, with the windows of the configuration in force.
ForGroup(s, whole, group) ==
    LET ids == {id \in DOMAIN whole.cards : whole.cards[id].group = group}
        cards == [id \in ids |-> whole.cards[id]]
        rows == Passing(whole.rows, LAMBDA row : row.monitor \in ids)
    IN IF ids = {} THEN Missing
       ELSE Announcing(Found(cards, rows, whole.streams), Touching(s.maintenance, ids))

(* The pages. *)

Groups == (UNION {{s.monitors[id].group : id \in MonitorsOf(s)} : s \in Sites}) \ {NoName}
AllMonitors == UNION {MonitorsOf(s) : s \in Sites}
Tokens == {"operator", "wrong", NoName} \cup Groups

\* An incident as it is stored; a log of them.
IsRow(row) == row = Row(row.id, row.monitor, row.ended, row.cause, row.impacted)
IsLog(rows) == rows \in Seq(ToSet(rows)) /\ \A row \in ToSet(rows) : IsRow(row)

\* A group is neither of the audiences without one; the bounds are numbers.
ASSUME AudienceAssumption ==
    /\ Groups \cap {"operator", "public"} = {}
    /\ {LogLimit, MAX_VISIBILITY_SCAN, RECENT_SCAN, RECENT_SHOWN} \subseteq Nat
    /\ \A s \in Starts : s.site \in Sites /\ IsLog(s.logged)

Pages == {[page |-> p, arg |-> NoName] :
              p \in {"status", "log", "timeline", "watchers", "report", "write"}}
         \cup {[page |-> p, arg |-> g] : p \in {"group", "report"}, g \in Groups}
         \cup {[page |-> p, arg |-> m] : p \in {"monitor", "series", "badge"}, m \in AllMonitors}
         \cup {[page |-> "incident", arg |-> n] : n \in 1..3}

GroupOf(s, id) == IF id \in MonitorsOf(s) THEN s.monitors[id].group ELSE NoName

\* The audience of a page: a group's own pages take the token of the group.
PageAudience(v) ==
    CASE v.page = "badge" -> "public"
      [] v.page \in {"group", "report"} -> AudienceForGroup(v, v.arg)
      [] v.page = "monitor" -> AudienceForGroup(v, GroupOf(v.site, v.arg))
      [] OTHER -> AudienceOf(v)

NoVisit == [pc |-> "idle", page |-> "status", arg |-> NoName, bearer |-> NoName,
            query |-> NoName, site |-> CHOOSE s \in Sites : TRUE, window |-> 0]

AudiencesInit ==
    /\ \E s \in Starts : site = s.site /\ levels = s.levels /\ logged = s.logged
    /\ built = Build(site, levels, logged)
    /\ visit = NoVisit /\ answer = Unanswered /\ news = 0

\* Nothing that happens after the answer is told apart.
News == news < MaxNews /\ visit.pc # "answered" /\ news' = news + 1

\* A monitor goes down and its incident is opened with what the graph says.
Opens(id) ==
    /\ News /\ levels[id] # "down"
    /\ levels' = [levels EXCEPT ![id] = "down"]
    /\ logged' = <<Row(Len(logged) + 1, id, "open", Cause(site, "operator", levels', id),
                       Impacted(site, "operator", levels', id))>> \o logged
    /\ UNCHANGED <<site, built, visit, answer>>

Refreshes ==
    /\ built # Build(site, levels, logged) /\ News
    /\ built' = Build(site, levels, logged)
    /\ UNCHANGED <<site, levels, logged, visit, answer>>

\* A reload: the statuses of the monitors that stay, none of those added.
Reloads ==
    \E s \in Sites \ {site} :
        /\ News /\ site' = s
        /\ levels' = [id \in MonitorsOf(s) |-> IF id \in DOMAIN levels THEN levels[id]
                                               ELSE "unknown"]
        /\ UNCHANGED <<logged, built, visit, answer>>

\* A request is received, under the configuration in force; one per behaviour,
\* for a request changes nothing another could see.
Visits ==
    /\ visit.pc = "idle"
    /\ \E p \in Pages, bearer, query \in Tokens :
        /\ query # NoName => bearer \in {NoName, "wrong"}
        /\ visit' = [pc |-> "asked", page |-> p.page, arg |-> p.arg, bearer |-> bearer,
                  query |-> query, site |-> site, window |-> LogLimit]
    /\ UNCHANGED <<site, levels, logged, built, answer, news>>

Returns(what) ==
    /\ visit' = [visit EXCEPT !.pc = "answered"] /\ answer' = what
    /\ UNCHANGED <<site, levels, logged, built, news>>

On(page) == visit.pc = "asked" /\ visit.page = page

\* The status page, its text, /api/summary and /metrics.
StatusPages == On("status") /\ Returns(Summary(visit.site, PageAudience(visit), built))

GroupPage ==
    /\ On("group")
    /\ Returns(ForGroup(visit.site, Summary(visit.site, PageAudience(visit), built), visit.arg))

\* The configured monitor, its card in the build and its own incidents.
MonitorPage ==
    /\ On("monitor")
    /\ LET s == visit.site
           a == PageAudience(visit)
           cards == CardsFor(s, a, built)
           own == Passing(logged, LAMBDA row : row.monitor = visit.arg /\ row.ended # "old")
       IN Returns(IF /\ visit.arg \in MonitorsOf(s) /\ CanSee(s, a, visit.arg)
                     /\ visit.arg \in DOMAIN cards
                  THEN Found([id \in {visit.arg} |-> cards[id]],
                             [i \in DOMAIN own |-> Sanitized(s, a, own[i])], a = "operator")
                  ELSE Missing)

\* Latency series, heatmaps and badges: visible_monitor.
VisibleMonitor ==
    /\ On("series") \/ On("badge")
    /\ LET s == visit.site
       IN Returns(IF visit.arg \in MonitorsOf(s) /\ CanSee(s, PageAudience(visit), visit.arg)
                  THEN Found([id \in {visit.arg} \cap DOMAIN levels |->
                                [Card(s, "public", levels, {}, NoName, id)
                                    EXCEPT !.cause = NoName, !.impacted = {}, !.raw = FALSE]],
                             <<>>, FALSE)
                  ELSE Missing)

\* One round of collect_visible: the newest rows of the table are read and
\* filtered; too few, and the next round reads four times as many.
CollectRound ==
    /\ On("log")
    /\ LET rows == Newest(logged, visit.window)
           seen == FilterRows(visit.site, PageAudience(visit), rows)
           exhausted == Len(rows) < visit.window
       IN IF Len(seen) >= LogLimit \/ exhausted \/ visit.window >= MAX_VISIBILITY_SCAN
          THEN Returns(Found(<<>>, Newest(seen, LogLimit), PageAudience(visit) = "operator"))
          ELSE /\ visit' = [visit EXCEPT !.window =
                                IF 4 * @ < MAX_VISIBILITY_SCAN THEN 4 * @
                                ELSE MAX_VISIBILITY_SCAN]
               /\ UNCHANGED <<site, levels, logged, built, answer, news>>

\* The timeline reads the rows of its days only.
TimelinePage ==
    /\ On("timeline")
    /\ LET seen == FilterRows(visit.site, PageAudience(visit), logged)
       IN Returns(Found(<<>>, Passing(seen, LAMBDA row : row.ended # "old"),
                        PageAudience(visit) = "operator"))

IncidentPage ==
    /\ On("incident")
    /\ LET rows == Passing(logged, LAMBDA row : row.id = visit.arg)
           seen == FilterRows(visit.site, PageAudience(visit), rows)
       IN Returns(IF seen = <<>> THEN Missing
                  ELSE Found(<<>>, seen, PageAudience(visit) = "operator"))

\* The report of a month, by monitor; the rows of a group's own report only.
ReportPage ==
    /\ On("report")
    /\ LET s == visit.site
           ids == {id \in MonitorsOf(s) : /\ CanSee(s, PageAudience(visit), id)
                                          /\ visit.arg # NoName => GroupOf(s, id) = visit.arg}
       IN Returns(IF ids = {} /\ visit.arg # NoName THEN Missing
                  ELSE Found([id \in ids |-> [status |-> "up", group |-> GroupOf(s, id),
                                              open |-> FALSE, raw |-> FALSE,
                                              cause |-> NoName, impacted |-> {}]],
                             <<>>, FALSE))

\* The page of the mesh and the write endpoints take the operator only.
OperatorOnly ==
    /\ On("watchers") \/ On("write")
    /\ Returns(CASE IsOperator(visit) /\ visit.page = "write" -> Found(<<>>, <<>>, TRUE)
                 [] IsOperator(visit) /\ visit.page = "watchers" ->
                        Found(CardsFor(visit.site, "operator", built), logged, TRUE)
                 [] ~IsOperator(visit) /\ visit.page = "watchers" -> Missing
                 [] OTHER -> Denied)

AudiencesNext ==
    \/ \E id \in DOMAIN levels : Opens(id)
    \/ Refreshes \/ Reloads \/ Visits
    \/ StatusPages \/ GroupPage \/ MonitorPage \/ VisibleMonitor \/ CollectRound
    \/ TimelinePage \/ IncidentPage \/ ReportPage \/ OperatorOnly

(* Properties. *)

HoldsOperatorToken == visit.site.auth /\ "operator" \in {visit.bearer, visit.query}

\* The pages of a group: its own page and report, and its monitors' pages.
OwnPageOf(group) ==
    /\ group # NoName
    /\ \/ visit.page \in {"group", "report"} /\ visit.arg = group
       \/ visit.page = "monitor" /\ GroupOf(visit.site, visit.arg) = group

\* What the one who asked is entitled to read of a monitor, from the tokens.
MayKnow(id) ==
    \/ HoldsOperatorToken
    \/ /\ id \in MonitorsOf(visit.site)
       /\ \/ visit.site.monitors[id].public
          \/ LET group == GroupOf(visit.site, id)
             IN OwnPageOf(group) /\ group \in {visit.bearer, visit.query}

MayReadDetail(id) ==
    /\ MayKnow(id)
    /\ \/ HoldsOperatorToken
       \/ visit.site.monitors[id].public /\ visit.site.monitors[id].published
       \/ LET group == GroupOf(visit.site, id)
          IN OwnPageOf(group) /\ group \in {visit.bearer, visit.query}

MentionedIds ==
    DOMAIN answer.cards
    \cup (UNION {{answer.cards[id].cause} \cup answer.cards[id].impacted :
                    id \in DOMAIN answer.cards})
    \cup (UNION {{r.monitor, r.cause} \cup r.impacted : r \in ToSet(answer.rows)})

\* What is shown is what its reader may read: no card, log or annotation of an
\* answer mentions a private monitor to anyone but the operator or, on its own
\* pages, its group (the banners of planned maintenance do: see
\* PrivateIsAbsent); the raw reason of a failure and what the operator
\* correlated with it go only where the monitor publishes them (visibility.rs),
\* whatever the configuration the summary at hand was built under.
OthersStayUnnamed ==
    answer.kind = "found" =>
        /\ \A id \in MentionedIds \ {NoName} : MayKnow(id)
        /\ \A id \in DOMAIN answer.cards : answer.cards[id].raw => MayReadDetail(id)
        /\ \A r \in ToSet(answer.rows) :
            /\ r.raw => MayReadDetail(r.monitor)
            /\ r.event => HoldsOperatorToken \/ /\ MayReadDetail(r.monitor)
                                                /\ visit.site.monitors[r.monitor].published
        /\ answer.streams => HoldsOperatorToken

\* And it is whole: a log lists the newest incidents its reader may see, as
\* many as asked for unless there are no more within the bounded scan; the
\* badge of a view is the worst of the monitors it shows, and no view claims
\* quiet days over an open incident it could show.
ShownIsWhole ==
    answer.kind = "found" =>
        /\ visit.page = "log" =>
            LET all == FilterRows(visit.site, PageAudience(visit), logged)
            IN /\ IsPrefix(answer.rows, all)
               /\ Len(answer.rows) < LogLimit /\ Len(answer.rows) < Len(all)
                    => Len(logged) > MAX_VISIBILITY_SCAN
        /\ answer.overall = Worst({answer.cards[id].status : id \in DOMAIN answer.cards})
        /\ answer.quiet => \A id \in DOMAIN answer.cards : ~answer.cards[id].open

\* A group hears of its maintenance and of nobody else's: its page announces
\* the windows in progress, under the configuration the request goes by, that
\* cover all or a monitor the page shows, whatever the build at hand announced.
HearsItsWindows ==
    answer.kind = "found" /\ visit.page = "group" =>
        answer.banners = {w \in visit.site.maintenance :
                            w = {} \/ \E id \in w : id \in DOMAIN answer.cards}

\* All three: who may read and what there is to read agree for every audience.
AudiencesSeeTheirOwn == OthersStayUnnamed /\ ShownIsWhole /\ HearsItsWindows

\* Without a token a private monitor is absent everywhere, as the status page
\* guide says (docs/src/content/docs/guides/status-page.md:98). Not so: the
\* banners of the operator's summary are cloned into the view of every audience
\* (summary/mod.rs:378) with the name of each monitor the window covers.
PrivateIsAbsent ==
    answer.kind = "found" /\ visit.bearer = NoName /\ visit.query = NoName =>
        \A id \in MonitorsOf(visit.site) \cap (MentionedIds \cup UNION answer.banners) :
            visit.site.monitors[id].public
=============================================================================
