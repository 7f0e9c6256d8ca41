----------------------------- MODULE MCOnDemand -----------------------------
(***************************************************************************)
(* What a daemon does when it is asked: an alert pushed to it, a database  *)
(* compacted by a command, the probe of a TCP monitor, of a plugin and of  *)
(* a server, the question to its peers, the configuration it is given, a   *)
(* page of its status site, a notification on its way out, `hora top`.     *)
(*                                                                         *)
(* None reads what another writes in these modules, so each starting state *)
(* picks the work at hand, as in Background; each ends, or may stop at any *)
(* moment: no fairness is assumed.                                         *)
(*                                                                         *)
(* The instances are small: two channels, one of which a reload may add or *)
(* remove; names that resolve to up to three addresses; up to three        *)
(* monitors, which may depend on an id nobody has; requests of every kind, *)
(* over both families with little else to tell apart, over one with every  *)
(* combination of what is expected.                                        *)
(***************************************************************************)
EXTENDS PushedAlerts, Compaction, ConnectRace, ExecProbe, PeerConfirm, Topology,
        Configuration, Probes, Audiences, Annotations, Figures, Deliveries, Dashboard, TLC

CONSTANTS site1, site2

MCDispatchers ==
    {[channels |-> <<"mail", "chat">>, threshold |-> 2],
     [channels |-> <<"mail">>, threshold |-> 0]}
MCRoutes == {{"mail", "chat"}, {"mail"}}

MCAddresses ==
    [family : {"v4", "v6"}, fate : {"accepts"}, after : {1}]
        \cup [family : {"v4", "v6"}, fate : {"refuses"}, after : {1, 3}]
        \cup [family : {"v4", "v6"}, fate : {"silent"}, after : {0}]
MCHosts == UNION {[1..n -> MCAddresses] : n \in 0..3}

OneFamily(kinds, retries) ==
    [kind : kinds, scheme : Schemes, expected : {{}, {"3xx"}}, asserts : BOOLEAN,
     proxy : BOOLEAN, slow : {1}, families : {{"v4"}}, retries : retries]

MCProbeSettings ==
    OneFamily({"http"}, {0, 1})
    \cup {s \in OneFamily({"client", "json", "dns", "icmp"}, {0}) :
             s.expected = {} /\ ~s.proxy /\ (s.asserts => s.kind = "dns")}
    \cup [kind : {"http", "icmp"}, scheme : {"https"}, expected : {{}}, asserts : {FALSE},
          proxy : {FALSE}, slow : {1}, families : {{"v4", "v6"}}, retries : {0}]

MCDeclared == {{1, 2, 3}, {1, 2}}

(* The pages: a chain of four monitors, of which two are private, one in the
   group of a public one, both under maintenance; a reload that takes that one
   private and to another group and drops one, under maintenance of its own;
   the end of all maintenance; a site without a token, where all is public and
   under maintenance. *)

Mon(public, group, published, upstream) ==
    [public |-> public, group |-> group, published |-> published, upstream |-> upstream]

MCSite == [auth |-> TRUE, maintenance |-> {{"api", "db"}, {"lan"}}, monitors |-> [id \in {"web", "api", "db", "lan"} |->
    CASE id = "web" -> Mon(TRUE, NoName, TRUE, "api")
      [] id = "api" -> Mon(TRUE, "acme", FALSE, "db")
      [] id = "db"  -> Mon(FALSE, "acme", TRUE, "lan")
      [] id = "lan" -> Mon(FALSE, NoName, FALSE, NoName)]]

MCEdited == [auth |-> TRUE, maintenance |-> {{"web"}, {"api"}}, monitors |-> [id \in {"web", "api", "db"} |->
    CASE id = "web" -> Mon(TRUE, NoName, FALSE, "db")
      [] id = "api" -> Mon(FALSE, "beta", FALSE, NoName)
      [] id = "db"  -> Mon(TRUE, "acme", TRUE, NoName)]]

MCOpen == [auth |-> FALSE, maintenance |-> {{}}, monitors |-> [id \in {"web", "api"} |->
    IF id = "web" THEN Mon(TRUE, NoName, FALSE, "api") ELSE Mon(TRUE, "acme", FALSE, NoName)]]

MCQuiet == [MCSite EXCEPT !.maintenance = {}]

MCSites == {MCSite, MCEdited, MCOpen, MCQuiet}

Log(lines) == [i \in DOMAIN lines |->
    Row(Len(lines) + 1 - i, lines[i][1], lines[i][2], lines[i][3], lines[i][4])]

Lv(down, slow) == [id \in {"web", "api", "db", "lan"} |->
    CASE id \in down -> "down" [] id \in slow -> "degraded" [] OTHER -> "up"]
At(s, lv) == [id \in DOMAIN s.monitors |-> lv[id]]

Outage == <<"db", "open", NoName, {"api", "web"}>>
Cascade == <<"web", "open", "db", {}>>
Past == <<"lan", "recent", NoName, {"db"}>>
Old == <<"web", "old", "api", {}>>

MCStarts ==
    {[site |-> MCSite, levels |-> At(MCSite, lv), logged |-> Log(lines)] :
        lv \in {Lv({}, {"db"}), Lv({"db", "web"}, {})},
        lines \in {<<Old>>, <<Past, Past, Outage, Cascade, Old>>,
                  <<Past, Past, Past, Past, Past, Cascade>>}}
    \cup {[site |-> s, levels |-> At(s, Lv({"api"}, {"web"})), logged |-> Log(<<Cascade, Old>>)] :
            s \in {MCEdited, MCOpen}}

(* The lines typed: two monitors and a watched peer; a day of three minutes;
   lines of every kind, with each reason to refuse one. *)

MCUnits == [m |-> 1, d |-> DayLength]

NoTokens == [clock |-> -1, tokens |-> <<>>]
For(tokens) == [clock |-> -1, tokens |-> tokens]
AtClock(hour) == [clock |-> hour, tokens |-> <<>>]
Tk(number, letter) == [number |-> number, letter |-> letter]

Announcement(severity, until, title) ==
    [what |-> "announce", severity |-> severity, until |-> until, title |-> title]
Silence(ids, tokens) == [what |-> "silence", ids |-> ids, until |-> For(tokens)]

MCLines ==
    {Announcement("info", until, "text") :
        until \in {NoTokens, AtClock(1), For(<<Tk(2, "m")>>), For(<<Tk(2, "d")>>), AtClock(4)}}
    \cup {Announcement("unknown", NoTokens, "text"), Announcement("missing value", NoTokens, "text"),
          Announcement("info", NoTokens, "blank")}
    \cup {Silence(<<"all">>, <<Tk(2, "m")>>), Silence(<<"api", "peer">>, <<Tk(1, "d")>>),
          Silence(<<"api", "ghost">>, <<Tk(1, "m")>>), Silence(<<>>, <<Tk(1, "m")>>),
          Silence(<<"web">>, <<Tk(1, "d"), Tk(2, "m")>>), Silence(<<"web">>, <<Tk(0, "m")>>),
          Silence(<<"web">>, <<Tk(1, "")>>), Silence(<<"web">>, <<Tk(-1, "m")>>),
          Silence(<<"web">>, <<Tk(9, "d")>>)}
    \cup {[what |-> "event", title |-> title] : title \in {"text", "blank"}}
    \cup {[what |-> what] : what \in {"annotate", "clear announcements", "clear silences"}}

MCRules == [threshold : 1..3, alert_on_degraded : BOOLEAN, slo : {NoGoal, 5000}]
MCHours == {<<7, 8>>, <<17, 17, 17, 17, 17>>, <<40>>}

(* The files to load: one monitor of each kind with up to two settings that
   differ from a minimal one, and a file with peers, tokens and routes of
   which up to two parts differ. *)

Url(scheme, ip) == [form |-> "url", scheme |-> scheme, ip |-> ip]
Form(form, ip) == [form |-> form, scheme |-> "", ip |-> ip]

MinimalTable(kind) ==
    [id |-> "a", kind |-> kind,
     target |-> CASE kind = "http" -> Url("https", FALSE)
                  [] kind = "tcp" -> Form("host:port", FALSE)
                  [] kind \in {"icmp", "dns"} -> Form("bare", FALSE)
                  [] OTHER -> NoTarget,
     command |-> IF kind = "exec" THEN <<"name", "argument">> ELSE <<>>]

Release(current, url, query) ==
    [github |-> "owner/repo", current |-> current, current_url |-> url, current_query |-> query]

Given ==
    [target : {NoTarget, Url("http", TRUE), Url("ftp", FALSE), Form("host:port", TRUE),
               Form("bare", TRUE), Form("path", FALSE)}]
    \cup [expected_status : {{200}, {99}, {600}}]
    \cup [degraded_over_ms : {{0}, {1}}] \cup [slo_latency_ms : {{0}}]
    \cup [slo_uptime : {{0}, {1}, {99900}, {99999}, {100000}}]
    \cup [slo_window_days : {{0}, {30}}]
    \cup [headers : {{"valid"}, {"valid", "CR-LF"}}]
    \cup [keyword : {{"text"}}] \cup [keyword_invert : {TRUE}]
    \cup [json_query : {{"parses"}, {"error"}}] \cup [json_expected : {{"text"}}]
    \cup [number_regex : {{"parses"}, {"error"}}]
    \cup [number_min : {{2}}] \cup [number_max : {{1}, {2}}]
    \cup [max_body_kb : {{0}, {64}}] \cup [probe_retries : {{5}, {6}}]
    \cup [dual_stack : {TRUE}] \cup [proxy : {{"valid"}, {"error"}}]
    \cup [schedule : {{"parses"}, {"error"}}] \cup [grace_secs : {{60}}]
    \cup [starttls : {{"smtp"}, {"imap"}, {"pop3"}}] \cup [ehlo_name : {{"domain"}, {"label"}}]
    \cup [dns_record : {{"parses"}, {"error"}}] \cup [dns_expected : {{"text"}}]
    \cup [dns_resolver : {{"parses"}, {"error"}}]
    \cup [cert_pin : {{"hex"}, {"HEX"}, {"short"}}] \cup [domain_expiry : {{"DOMAIN"}, {"url"}}]
    \cup [release : {{Release({"version"}, {}, {})}, {Release({}, {"http"}, {"parses"})},
                     {Release({"version"}, {"http"}, {})}, {Release({"version"}, {}, {"parses"})}}]
    \cup [confirm_with_peers : {{TRUE}}]
    \cup [command : {<<"name">>, <<"../name">>}]

\* A record with the given parts in place of its own.
With(record, given) == given @@ record
Two(record, first, second) == {b @@ a @@ record : a \in first, b \in second}

\* The settings that another one may contradict.
Telling(kind) ==
    {g \in Given : DOMAIN g \subseteq OwnSettings[kind] \cup {"slo_uptime", "starttls", "keyword"}}

OneTable ==
    [auth_token |-> {}, group_tokens |-> {}, channels |-> <<>>, maintenance |-> {},
     monitors |-> <<>>, health |-> {}, peers |-> <<>>, exec_dir |-> {"directory"},
     digest |-> {}, updates_notify |-> {}, notify_unconfirmed |-> {}]

TableFiles ==
    {With(OneTable, [monitors |-> <<table>>]) :
        table \in UNION {Two(MinimalTable(kind), Given, Telling(kind)) : kind \in DOMAIN OwnSettings}}

---------------------------------------------------------------------------
Monitors(tables) == [i \in DOMAIN tables |-> With(MinimalTable(tables[i][1]), tables[i][2])]
PeerOf(id) ==
    [id |-> id, ping_url |-> {"url"}, ping_token |-> {}, listen_id |-> {}, listen_token |-> {},
     expect_every_secs |-> {1}, notify |-> {}]
HealthTable(confirm) == [id |-> "here", interval_secs |-> 1, confirm_with_peers |-> confirm]

MinimalFile ==
    With(OneTable,
         [auth_token |-> {"token"}, channels |-> <<"mail", "chat">>, health |-> {HealthTable(FALSE)},
          peers |-> <<PeerOf("p")>>,
          monitors |-> Monitors(<<<<"http", [id |-> "a"]>>, <<"push", [id |-> "b"]>>>>)])

Parts ==
    [auth_token : {{}, {""}}]
    \cup [group_tokens : {{[group |-> "team", token |-> "token"]}, {[group |-> "team", token |-> ""]}}]
    \cup [channels : {<<>>, <<"mail", "mail">>, <<"mail">>}]
    \cup [maintenance : {{[start |-> 1, end |-> 1]}, {[start |-> 1, end |-> 2]}}]
    \cup [exec_dir : {{}, {"missing"}}]
    \cup [health : {{}, {HealthTable(TRUE)}}]
    \cup [digest : {{[schedule |-> "error", notify |-> {}]},
                    {[schedule |-> "parses", notify |-> {{"chat"}}]}}]
    \cup [updates_notify : {{{"chat"}}}] \cup [notify_unconfirmed : {{{"mail"}}}]
    \cup [monitors :
        {Monitors(tables) : tables \in
            {<<>>, <<<<"http", [id |-> "a"]>>, <<"push", [id |-> "a"]>>>>,
             <<<<"push", [id |-> "p"]>>>>, <<<<"http", [id |-> "p"]>>>>,
             <<<<"http", [id |-> "q", confirm_with_peers |-> {TRUE}]>>>>,
             <<<<"exec", [id |-> "a"]>>, <<"push", [id |-> "b", confirm_with_peers |-> {TRUE}]>>>>,
             <<<<"exec", [id |-> "a", group |-> {"team"}, public |-> FALSE]>>>>,
             <<<<"tcp", [id |-> "a", notify |-> {{"chat"}}, slo_uptime |-> {99999}]>>>>,
             <<<<"tcp", [id |-> "a/b"]>>>>,
             <<<<"icmp", [id |-> "a", interval_secs |-> MAX_PERIOD_SECS + 1]>>>>,
             <<<<"icmp", [id |-> "a", timeout_secs |-> 0, push_token |-> {""}]>>>>}}]
    \cup [peers :
        {<<>>, <<PeerOf("p"), PeerOf("p")>>, <<With(PeerOf("p"), [ping_url |-> {}])>>,
         <<With(PeerOf("p"), [ping_url |-> {"opaque"}]), PeerOf("q")>>,
         <<With(PeerOf("p"), [ping_url |-> {"opaque"}])>>,
         <<With(PeerOf("p"), [listen_id |-> {"b"}])>>,
         <<With(PeerOf("p"), [expect_every_secs |-> {}, listen_id |-> {"b"}])>>,
         <<With(PeerOf("p"), [expect_every_secs |-> {}, ping_url |-> {}])>>,
         <<PeerOf("p"), With(PeerOf("q"), [listen_id |-> {"p"}])>>,
         <<With(PeerOf("p"), [listen_token |-> {""}])>>,
         <<With(PeerOf("p"), [notify |-> {{"pager"}}])>>}]

MCConfigFiles == TableFiles \cup Two(MinimalFile, Parts, Parts)

(* The notifications: of most kinds, with texts that are short, too long for
   some channel or for all, wide or full of markup, and that fill the body of
   a Pushover message or miss it by one; of one, two at once. *)

Who(sort, length) == Text("who", sort, length)
Sized(of, sort, length) == <<Text(of, sort, length)>>
Short(of) == Sized(of, "plain", 3)
Wide(of) == Sized(of, "wide", 300)
Marked(of) == Sized(of, "escaped", 7200)
Long(of) == Sized(of, "plain", 70000)

Once(events) == {[event |-> e, flights |-> 1] : e \in events}

Downs ==
    {With(Event("down", who),
          [error |-> error, cause |-> cause, impacted |-> impacted, vantage |-> place,
           change |-> change]) :
        who \in {Who("plain", 3), Who("wide", 600)},
        error \in {<<>>, Sized("error", "plain", 0), Wide("error"), Marked("error"), Long("error")},
        cause \in {<<>>, Short("cause")}, impacted \in {<<>>, Wide("impacted")},
        place \in {<<>>, Short("vantage")}, change \in {<<>>, Marked("change")}}
Filling ==
    {With(Event("down", Who("plain", 256)), [error |-> Sized("error", "plain", length),
                                            vantage |-> place]) :
        length \in 762..768, place \in {<<>>, Short("vantage")}}
Expiries ==
    {With(Event(kind, Who("escaped", 300)),
          [left |-> <<span>>, about |-> IF kind = "domain_expiring" THEN Short("about") ELSE <<>>]) :
        kind \in {"cert_expiring", "domain_expiring"},
        span \in {-DAY - 1, -DAY, -1, 0, 1, HOUR - 1, HOUR, DAY - 1, DAY, 3 * DAY - 1}}
Changes ==
    {With(Event("cert_changed", Who("plain", 3)), [old |-> old, new |-> new]) :
        old \in {Short("old"), Marked("old"), Long("old")}, new \in {Wide("new"), Long("new")}}
Alerts ==
    {With(Event("alert", Who("plain", 3)),
          [severity |-> severity, about |-> about, detail |-> detail]) :
        severity \in Severities, about \in {Short("about"), Long("about")},
        detail \in {Sized("detail", "plain", 0), Marked("detail")}}
Rarer ==
    {With(Event("release", Who("plain", 3)),
          [about |-> Wide("about"), notes |-> notes, url |-> Short("url")]) :
        notes \in {<<>>, Long("notes"), Wide("notes")}}
      \cup {With(Event("digest", Who("plain", 1)), [about |-> Short("about"), detail |-> text]) :
                text \in {Short("detail"), Wide("detail"), Long("detail")}}
      \cup {With(Event("degraded", Who("plain", 3)), [detail |-> text]) :
                text \in {<<>>, Sized("detail", "plain", 0), Wide("detail")}}
      \cup {With(Event("cert_unreadable", Who("plain", 3)), [error |-> text]) :
                text \in {Short("error"), Long("error")}}
      \cup {With(Event("peer_link_degraded", Who("plain", 3)), [detail |-> Short("detail")]),
            With(Event("budget_burn", Who("plain", 3)), [about |-> Short("about")]),
            Event("recovered", Who("wide", 3))}
MCNotices ==
    Once(Downs \cup Filling \cup Expiries \cup Changes \cup Alerts \cup Rarer)
        \cup {[event |-> Event("recovered", Who("plain", 3)), flights |-> 2]}

(* What `hora top` may see of its server: a monitor that moves or leaves, one
   that takes the place of another while a write is typed; two writes in a
   row. *)

MCSessions ==
    {[first |-> <<site1, site2>>, rows |-> {<<site2, site1>>, <<site2>>, <<>>},
      reloads |-> 1, writes |-> 0],
     [first |-> <<site1>>, rows |-> {<<site2>>}, reloads |-> 1, writes |-> 1],
     [first |-> <<>>, rows |-> {}, reloads |-> 0, writes |-> 2]}

---------------------------------------------------------------------------
VARIABLE work   \* the work at hand

vars == <<work, pushedVars, compactionVars, raceVars, execVars, confirmVars, topologyVars,
          configVars, probeVars, audienceVars, annotationVars, figuresVars, deliveryVars,
          dashboardVars>>

Works == {"push", "compaction", "connect", "exec", "confirm", "topology", "config", "probe",
          "pages", "annotations", "figures", "deliveries", "dashboard"}

NoDispatcher == Built(CHOOSE d \in Dispatchers : TRUE)
NoConfig == CHOOSE c \in Configured : TRUE
NoPlugin == CHOOSE p \in Plugins : TRUE
NoVantage == [p \in Asked |-> "up"]
NoMonitors == CHOOSE declared \in Declared : TRUE
NoStart == CHOOSE m \in NoMonitors : TRUE
NoHost == CHOOSE h \in Hosts : TRUE
NoSetting == CHOOSE s \in ProbeSettings : TRUE
NoFile == CHOOSE f \in ConfigFiles : f.monitors = <<>>
NoSite == CHOOSE s \in Starts : TRUE
NoRules == CHOOSE r \in MonitorRules : TRUE
NoSession == CHOOSE s \in Sessions : TRUE

\* The work that is not at hand has one initial state.
AtHand(what, aside) == IF work = what THEN TRUE ELSE aside

Init ==
    /\ work \in Works
    /\ AtHand("push", /\ notifier = NoDispatcher /\ config = NoConfig
                       /\ scene = "channels")
    /\ DispatchInit /\ PushInit
    /\ CompactionInit
    /\ AtHand("exec", plugin = NoPlugin) /\ ExecInit
    /\ AtHand("confirm", /\ vantage = NoVantage
                          /\ watched = {} /\ enabled = FALSE)
    /\ ConfirmInit
    /\ AtHand("connect", host = NoHost) /\ RaceInit
    /\ AtHand("probe", setting = NoSetting) /\ ProbesInit
    /\ AtHand("pages", /\ site = NoSite.site /\ levels = NoSite.levels
                        /\ logged = NoSite.logged)
    /\ AudiencesInit
    /\ AtHand("annotations", reader = Off) /\ AnnotationsInit
    /\ AtHand("figures", rules = NoRules) /\ FiguresInit
    /\ channel \in (IF work = "deliveries" THEN DOMAIN Backends ELSE {NoChannel})
    /\ DeliveriesInit
    /\ AtHand("dashboard", session = NoSession) /\ DashboardInit
    /\ (IsOn <=> work = "dashboard") /\ (app.token => IsOn)
    /\ file \in (IF work = "config" THEN ConfigFiles ELSE {NoFile}) /\ Unread
    /\ AtHand("topology", /\ monitors = NoMonitors /\ start = NoStart
                           /\ depends = [m \in NoMonitors |-> {}])
    /\ TopologyInit

Next ==
    /\ UNCHANGED work
    /\ \/ /\ work = "push" /\ PushNext
          /\ UNCHANGED <<compactionVars, raceVars, execVars, confirmVars, topologyVars,
                        configVars, probeVars, audienceVars, annotationVars, figuresVars,
                        deliveryVars, dashboardVars>>
       \/ /\ work = "compaction" /\ CompactionNext
          /\ UNCHANGED <<pushedVars, raceVars, execVars, confirmVars, topologyVars,
                        configVars, probeVars, audienceVars, annotationVars, figuresVars,
                        deliveryVars, dashboardVars>>
       \/ /\ work = "connect" /\ RaceNext
          /\ UNCHANGED <<pushedVars, compactionVars, execVars, confirmVars, topologyVars,
                        configVars, probeVars, audienceVars, annotationVars, figuresVars,
                        deliveryVars, dashboardVars>>
       \/ /\ work = "exec" /\ ExecNext
          /\ UNCHANGED <<pushedVars, compactionVars, raceVars, confirmVars, topologyVars,
                        configVars, probeVars, audienceVars, annotationVars, figuresVars,
                        deliveryVars, dashboardVars>>
       \/ /\ work = "confirm" /\ ConfirmNext
          /\ UNCHANGED <<pushedVars, compactionVars, raceVars, execVars, topologyVars,
                        configVars, probeVars, audienceVars, annotationVars, figuresVars,
                        deliveryVars, dashboardVars>>
       \/ /\ work = "topology" /\ TopologyNext
          /\ UNCHANGED <<pushedVars, compactionVars, raceVars, execVars, confirmVars,
                        configVars, probeVars, audienceVars, annotationVars, figuresVars,
                        deliveryVars, dashboardVars>>
       \/ /\ work = "config" /\ ConfigNext
          /\ UNCHANGED <<pushedVars, compactionVars, raceVars, execVars, confirmVars,
                        topologyVars, probeVars, audienceVars, annotationVars, figuresVars,
                        deliveryVars, dashboardVars>>
       \/ /\ work = "probe" /\ ProbesNext
          /\ UNCHANGED <<pushedVars, compactionVars, raceVars, execVars, confirmVars,
                        topologyVars, configVars, audienceVars, annotationVars, figuresVars,
                        deliveryVars, dashboardVars>>
       \/ /\ work = "pages" /\ AudiencesNext
          /\ UNCHANGED <<pushedVars, compactionVars, raceVars, execVars, confirmVars,
                        topologyVars, configVars, probeVars, annotationVars, figuresVars,
                        deliveryVars, dashboardVars>>
       \/ /\ work = "annotations" /\ AnnotationsNext
          /\ UNCHANGED <<pushedVars, compactionVars, raceVars, execVars, confirmVars,
                        topologyVars, configVars, probeVars, audienceVars, figuresVars,
                        deliveryVars, dashboardVars>>
       \/ /\ work = "figures" /\ FiguresNext
          /\ UNCHANGED <<pushedVars, compactionVars, raceVars, execVars, confirmVars,
                        topologyVars, configVars, probeVars, audienceVars, annotationVars,
                        deliveryVars, dashboardVars>>
       \/ /\ work = "deliveries" /\ DeliveriesNext
          /\ UNCHANGED <<pushedVars, compactionVars, raceVars, execVars, confirmVars,
                        topologyVars, configVars, probeVars, audienceVars, annotationVars,
                        figuresVars, dashboardVars>>
       \/ /\ work = "dashboard" /\ DashboardNext
          /\ UNCHANGED <<pushedVars, compactionVars, raceVars, execVars, confirmVars,
                        topologyVars, configVars, probeVars, audienceVars, annotationVars,
                        figuresVars, deliveryVars>>

Spec == Init /\ [][Next]_vars
=============================================================================
