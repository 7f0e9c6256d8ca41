---------------------------- MODULE Configuration ----------------------------
(***************************************************************************)
(* Loading a configuration (config/): every [[monitors]] table is checked  *)
(* on its own and turned into a typed monitor (validate/monitor.rs), then  *)
(* the file as a whole is checked (validate/mod.rs).                       *)
(*                                                                         *)
(* A setting is the set of at most one value it is given; a value is one   *)
(* of those a rule tells apart, and a field that has a syntax (a JSONPath, *)
(* a cron) is whether it parses.  A target has a form, a scheme and a      *)
(* host, name or address.  A table is a record of the settings it gives.   *)
(* The dependency graph is in Topology.                                    *)
(***************************************************************************)
EXTENDS Integers, Sequences

CONSTANTS
    ConfigFiles,        \* the files that may be read
    MAX_PERIOD_SECS     \* the longest period

VARIABLES
    file,       \* the file read
    loading,    \* "tables", "whole", "accepted" or "refused"
    typed,      \* the monitors made of its tables so far
    ignored     \* ignored[i]: what a warning said has no effect in the i-th table

configVars == <<file, loading, typed, ignored>>

NoText == ""

NoTarget == [form |-> "none", scheme |-> NoText, ip |-> FALSE]

\* What a setting is that a table does not give.
RawMonitor ==
    [id |-> NoText, kind |-> "http", target |-> NoTarget, interval_secs |-> 1, timeout_secs |-> 1,
     expected_status |-> {}, degraded_over_ms |-> {}, slo_latency_ms |-> {}, slo_uptime |-> {},
     slo_window_days |-> {}, headers |-> {}, keyword |-> {}, keyword_invert |-> FALSE,
     json_query |-> {}, json_expected |-> {}, number_regex |-> {}, number_min |-> {},
     number_max |-> {}, max_body_kb |-> {}, probe_retries |-> {}, dual_stack |-> FALSE,
     notify |-> {}, proxy |-> {}, push_token |-> {}, schedule |-> {}, grace_secs |-> {},
     check_cert |-> {}, starttls |-> {}, ehlo_name |-> {}, retention_days |-> {}, group |-> {},
     public |-> TRUE, public_error_detail |-> FALSE, dns_record |-> {}, dns_expected |-> {},
     dns_resolver |-> {}, cert_pin |-> {}, domain_expiry |-> {}, release |-> {},
     confirm_with_peers |-> {}, command |-> <<>>]

Settings == DOMAIN RawMonitor
Read(table) == [f \in Settings |-> IF f \in DOMAIN table THEN table[f] ELSE RawMonitor[f]]
Set(raw, names) == {f \in names : raw[f] # RawMonitor[f]}

\* The settings only one kind understands, and those of every kind.
OwnSettings ==
    [http |-> {"target", "expected_status", "headers", "keyword", "keyword_invert", "json_query",
               "json_expected", "number_regex", "number_min", "number_max", "max_body_kb",
               "proxy", "dual_stack"},
     tcp |-> {"target", "starttls", "ehlo_name", "dual_stack"},
     icmp |-> {"target", "dual_stack"},
     dns |-> {"target", "dns_record", "dns_expected", "dns_resolver"},
     push |-> {"schedule", "grace_secs"},
     exec |-> {"command"}]
SharedSettings == Settings \ UNION {OwnSettings[k] : k \in DOMAIN OwnSettings}

\* What deserialising accepts of a table: settings that exist, one of the kinds,
\* a number for an objective, a boolean where one is asked for.
IsTable(table) ==
    /\ DOMAIN table \subseteq Settings
    /\ "kind" \in DOMAIN table => table.kind \in DOMAIN OwnSettings
    /\ "slo_uptime" \in DOMAIN table => table.slo_uptime \subseteq Int
    /\ "dual_stack" \in DOMAIN table => table.dual_stack \in BOOLEAN

ASSUME ConfigAssumption ==
    \A f \in ConfigFiles :
        /\ Len(f.monitors) \in Nat /\ DOMAIN f.monitors = 1..Len(f.monitors)
        /\ \A i \in DOMAIN f.monitors : IsTable(f.monitors[i])

\* An optional setting of which nothing else than one of these is accepted.
OnlyIn(setting, values) == setting \subseteq values
Parses(setting) == OnlyIn(setting, {"parses"})

---------------------------------------------------------------------------
(***************************************************************************)
(* The rules of one table.                                                 *)
(***************************************************************************)

\* The percentage becomes basis points, in thousandths of a percent here; a
\* value that rounds to 0 or to 10000 is kept off both ends.
SloUptimeReads(raw) == \A p \in raw.slo_uptime : 0 < p /\ p < 100000
BasisPoints(p) == LET bp == (p + 5) \div 10
                  IN  IF bp < 1 THEN 1 ELSE IF bp > 9999 THEN 9999 ELSE bp

IsHttpUrl(target) == target.form = "url" /\ target.scheme \in {"http", "https"}
IsHostPort(target) == target.form = "host:port"
IsBare(target) == target.form = "bare"

\* A bare file name: resolution happens strictly inside the plugins' directory.
CommandFits(raw) ==
    /\ raw.target = NoTarget
    /\ raw.command # <<>> /\ raw.command[1] = "name"

DnsFits(raw) ==
    /\ raw.target.form \in {"bare", "host:port", "path"}
    /\ Parses(raw.dns_record) /\ Parses(raw.dns_resolver)

TargetFits(raw) ==
    /\ raw.kind \in {"push", "exec"} \/ raw.target # NoTarget
    /\ CASE raw.kind = "http" -> IsHttpUrl(raw.target)
         [] raw.kind = "tcp" -> IsHostPort(raw.target)
         [] raw.kind = "icmp" -> IsBare(raw.target)
         [] raw.kind = "push" -> TRUE
         [] raw.kind = "exec" -> CommandFits(raw)
         [] raw.kind = "dns" -> DnsFits(raw)

NumbersFit(raw) ==
    /\ \A ms \in raw.degraded_over_ms \cup raw.slo_latency_ms : ms > 0
    /\ \A retries \in raw.probe_retries : retries <= 5
    /\ 0 \notin raw.max_body_kb
    /\ \A status \in raw.expected_status : status \in 100 .. 599
    /\ OnlyIn(raw.headers, {"valid"})

\* What only one kind may set.
BelongsToKind(raw) ==
    /\ raw.kind = "exec" \/ raw.command = <<>>
    /\ raw.kind = "http" \/ Set(raw, {"keyword", "json_query", "number_regex", "proxy"}) = {}
    /\ raw.kind = "dns" \/ Set(raw, {"dns_record", "dns_expected", "dns_resolver"}) = {}

BodyAssertionsFit(raw) ==
    /\ Parses(raw.json_query) /\ Parses(raw.number_regex)
    /\ raw.number_regex # {} \/ Set(raw, {"number_min", "number_max"}) = {}
    /\ \A min \in raw.number_min, max \in raw.number_max : min <= max
    /\ OnlyIn(raw.proxy, {"valid"})

StarttlsFits(raw) ==
    /\ raw.ehlo_name = {} \/ (raw.starttls = {"smtp"} /\ OnlyIn(raw.ehlo_name, {"domain"}))
    /\ raw.starttls = {} \/ (raw.kind = "tcp" /\ OnlyIn(raw.starttls, {"smtp", "imap"}))

ReleaseFits(release) ==
    /\ release.github = "owner/repo"
    /\ (release.current # {}) # (release.current_url # {})
    /\ OnlyIn(release.current, {"version"}) /\ OnlyIn(release.current_url, {"http"})
    /\ release.current_query = {} \/ (release.current_url # {} /\ Parses(release.current_query))

PinsFit(raw) ==
    /\ OnlyIn(raw.cert_pin, {"hex"})
    /\ OnlyIn(raw.domain_expiry, {"domain"})
    /\ \A release \in raw.release : ReleaseFits(release)

\* Each family is probed on its own: not through a proxy, not for an address.
DualStackFits(raw) ==
    raw.dual_stack =>
        /\ raw.kind \in {"http", "tcp", "icmp"}
        /\ raw.proxy = {} /\ ~raw.target.ip

ScheduleAndSloFit(raw) ==
    /\ raw.schedule = {} \/ (raw.kind = "push" /\ Parses(raw.schedule))
    /\ raw.grace_secs = {} \/ raw.schedule # {}
    /\ raw.slo_window_days = {} \/ (0 \notin raw.slo_window_days /\ raw.slo_uptime # {})

TableFits(raw) ==
    /\ SloUptimeReads(raw) /\ TargetFits(raw) /\ BelongsToKind(raw) /\ NumbersFit(raw)
    /\ BodyAssertionsFit(raw) /\ StarttlsFits(raw) /\ PinsFit(raw) /\ DualStackFits(raw)
    /\ ScheduleAndSloFit(raw)

\* (mutated: the cap on the body is left out)
IgnoredOffHttpUncapped == {"expected_status", "headers"}

\* What is accepted and has no effect, of which the operator is told.
IgnoredOffHttp == {"expected_status", "headers", "max_body_kb"}
WarnIgnored(raw) ==
    Set(raw, (IF raw.kind # "http" THEN IgnoredOffHttp ELSE {})
             \cup (IF raw.keyword = {} THEN {"keyword_invert"} ELSE {})
             \cup (IF raw.json_query = {} THEN {"json_expected"} ELSE {}))

\* Case does not tell two pins or two domain names apart.
Lowered(raw) ==
    [raw EXCEPT !.cert_pin = {IF pin = "HEX" THEN "hex" ELSE pin : pin \in @},
                !.domain_expiry = {IF name = "DOMAIN" THEN "domain" ELSE name : name \in @}]

\* What a setting that hangs on another one comes to.
Hangs(raw, f) ==
    \/ f = "keyword_invert" /\ raw.keyword = {}
    \/ f = "json_expected" /\ raw.json_query = {}
    \/ f \in {"number_min", "number_max"} /\ raw.number_regex = {}
    \/ f = "ehlo_name" /\ raw.starttls # {"smtp"}
    \/ f = "grace_secs" /\ raw.schedule = {}

\* The kind's own settings; the command is split in the program and the rest.
SpecOf(raw) ==
    [f \in OwnSettings[raw.kind] |-> IF Hangs(raw, f) THEN RawMonitor[f] ELSE raw[f]]

\* "A None here would be a validation gap, reported rather than unwrapped."
SpecIsCompiled(raw) ==
    CASE raw.kind = "http" -> /\ raw.target.form = "url"
                              /\ Parses(raw.json_query) /\ Parses(raw.number_regex)
      [] raw.kind = "tcp" -> OnlyIn(raw.starttls, {"smtp", "imap"})
      [] raw.kind = "icmp" -> TRUE
      [] raw.kind = "dns" -> Parses(raw.dns_record) /\ Parses(raw.dns_resolver)
      [] raw.kind = "push" -> Parses(raw.schedule)
      [] raw.kind = "exec" -> raw.command # <<>>

Monitor(raw) ==
    [kind |-> raw.kind, spec |-> SpecOf(raw),
     shared |-> [f \in SharedSettings |->
                    IF f = "slo_uptime" THEN {BasisPoints(p) : p \in raw[f]} ELSE raw[f]]]

---------------------------------------------------------------------------
(***************************************************************************)
(* The rules of the file.                                                  *)
(***************************************************************************)
Each(seq) == {seq[i] : i \in DOMAIN seq}
Distinct(seq) == \A i, j \in DOMAIN seq : i # j => seq[i] # seq[j]
NotEmpty(setting) == NoText \notin setting
IsUrlSafe(id) == id # "a/b"
PeriodFits(secs) == 0 < secs /\ secs <= MAX_PERIOD_SECS
RoutesFit(routes) == routes \subseteq Each(file.channels)

\* A watched peer is one whose heartbeats are expected; they come to its
\* listen_id.  A peer can be asked if its ping_url has an origin.
IsWatchedPeer(peer) == peer.expect_every_secs # {}
ListenId(peer) == IF peer.listen_id = {} THEN peer.id ELSE CHOOSE id \in peer.listen_id : TRUE
HasProbeUrl(peer) == peer.ping_url = {"url"}

WatchedPeers == {peer \in Each(file.peers) : IsWatchedPeer(peer)}

TokensFit ==
    /\ NotEmpty(file.auth_token)
    /\ \A entry \in file.group_tokens :
          /\ entry.token # NoText
          /\ \E m \in Each(typed) : entry.group \in m.shared.group

ChannelsFit == NoText \notin Each(file.channels) /\ Distinct(file.channels)
MaintenanceFits == \A window \in file.maintenance : window.start < window.end

MonitorFits(m) ==
    /\ m.shared.id # NoText /\ IsUrlSafe(m.shared.id)
    /\ PeriodFits(m.shared.interval_secs) /\ PeriodFits(m.shared.timeout_secs)
    /\ m.shared.public \/ file.auth_token # {}
    /\ NotEmpty(m.shared.push_token)
    /\ \A routes \in m.shared.notify : RoutesFit(routes)
MonitorIds == [i \in DOMAIN typed |-> typed[i].shared.id]

\* (mutated: a peer may listen under the id of a monitor)
MayListenAnywhere(peer) == IsUrlSafe(ListenId(peer))

\* A peer's rows are written under its listen_id: it is nobody else's.
MayListen(peer) == IsUrlSafe(ListenId(peer)) /\ ListenId(peer) \notin Each(MonitorIds)
ListenIdsFit ==
    /\ \A peer \in WatchedPeers :
          MayListen(peer) /\ \A secs \in peer.expect_every_secs : PeriodFits(secs)
    /\ \A i, j \in DOMAIN file.peers :
          /\ i # j /\ {file.peers[i], file.peers[j]} \subseteq WatchedPeers
          => ListenId(file.peers[i]) # ListenId(file.peers[j])

PeersFit ==
    /\ \A health \in file.health : health.id # NoText /\ PeriodFits(health.interval_secs)
    /\ file.peers = <<>> \/ file.health # {}
    /\ Distinct([i \in DOMAIN file.peers |-> file.peers[i].id])
    /\ \A peer \in Each(file.peers) :
          /\ peer.id # NoText /\ (peer.ping_url # {} \/ IsWatchedPeer(peer))
          /\ NotEmpty(peer.listen_token) /\ NotEmpty(peer.ping_token)
          /\ \A routes \in peer.notify : RoutesFit(routes)
    /\ ListenIdsFit

HealthConfirms == \E health \in file.health : health.confirm_with_peers
Asks(m) == m.shared.confirm_with_peers = {TRUE}

ConfirmFits ==
    /\ (HealthConfirms \/ \E m \in Each(typed) : Asks(m)) =>
          file.health # {} /\ \E peer \in Each(file.peers) : HasProbeUrl(peer)
    /\ \A m \in Each(typed) : ~(Asks(m) /\ m.kind \in {"push", "exec"})

ExecFits == (\E m \in Each(typed) : m.kind = "exec") => file.exec_dir = {"directory"}

DigestFits ==
    /\ \A digest \in file.digest : /\ digest.schedule = "parses"
                                   /\ \A routes \in digest.notify : RoutesFit(routes)
    /\ \A routes \in file.updates_notify \cup file.notify_unconfirmed : RoutesFit(routes)

FileFits ==
    /\ TokensFit /\ ChannelsFit /\ MaintenanceFits
    /\ \A m \in Each(typed) : MonitorFits(m)
    /\ Distinct(MonitorIds)
    /\ PeersFit /\ ConfirmFits /\ ExecFits /\ DigestFits

---------------------------------------------------------------------------
Unread == loading = "tables" /\ typed = <<>> /\ ignored = <<>>
ConfigInit == file \in ConfigFiles /\ Unread

\* The next [[monitors]] table; after the last one, the file.
ReadTable ==
    /\ loading = "tables" /\ Len(typed) < Len(file.monitors)
    /\ LET raw == Lowered(Read(file.monitors[Len(typed) + 1]))
       IN  IF TableFits(raw) /\ SpecIsCompiled(raw)
           THEN /\ typed' = Append(typed, Monitor(raw))
                /\ ignored' = Append(ignored, WarnIgnored(raw))
                /\ UNCHANGED loading
           ELSE /\ loading' = "refused" /\ UNCHANGED <<typed, ignored>>
    /\ UNCHANGED file

ReadFile ==
    /\ loading = "tables" /\ Len(typed) = Len(file.monitors)
    /\ loading' = (IF FileFits THEN "accepted" ELSE "refused")
    /\ UNCHANGED <<file, typed, ignored>>

ConfigNext == ReadTable \/ ReadFile

---------------------------------------------------------------------------
(***************************************************************************)
(* What the daemon does with an accepted file.                             *)
(***************************************************************************)

\* Who a heartbeat for this id is recorded for (handlers/push.rs): a push
\* monitor, else the peer that is watched under it.
PushOwners(id) ==
    {m \in Each(typed) : m.kind = "push" /\ m.shared.id = id}
        \cup {peer \in WatchedPeers : ListenId(peer) = id}

\* Whose rows are stored under this id: a heartbeat for it is read by all.
RowOwners(id) ==
    {i \in DOMAIN typed : typed[i].shared.id = id}
        \cup {-i : i \in {j \in DOMAIN file.peers : file.peers[j] \in WatchedPeers
                                                   /\ ListenId(file.peers[j]) = id}}

\* Whether the peers are asked about a monitor that is down (mesh/confirm.rs).
ConfirmEnabled(m) ==
    /\ m.kind \notin {"push", "exec"}
    /\ IF m.shared.confirm_with_peers # {} THEN Asks(m) ELSE HealthConfirms

(***************************************************************************)
(* Properties.                                                             *)
(***************************************************************************)

\* What of a table its monitor holds.
HeldOf(raw, m) ==
    {f \in SharedSettings : f = "slo_uptime" \/ m.shared[f] = raw[f]}
        \cup {f \in DOMAIN m.spec : m.spec[f] = raw[f]}

\* No setting that was written down is dropped without a word, and none that is
\* said to have no effect has one ("dropped with a warning"); a table that passes
\* its rules is built ("a None here would be a validation gap").  Exempt: the
\* target of a push monitor, which is dropped in silence.
NothingIsDroppedSilently ==
    /\ \A i \in DOMAIN typed :
          LET raw == Lowered(Read(file.monitors[i]))
              dropped == Set(raw, Settings) \ HeldOf(raw, typed[i])
          IN  dropped \ (IF raw.kind = "push" THEN {"target"} ELSE {}) = ignored[i]
    /\ \A i \in DOMAIN file.monitors :
          LET raw == Lowered(Read(file.monitors[i])) IN TableFits(raw) => SpecIsCompiled(raw)

\* In an accepted file the parts fit: rows and heartbeats of one id are of one
\* monitor or peer; a monitor whose downs are confirmed has a peer to ask; a
\* monitor is shown to someone; an objective is met by less than perfection.
AcceptedHoldsTogether ==
    loading = "accepted" =>
        /\ \A i \in DOMAIN typed : RowOwners(typed[i].shared.id) = {i}
        /\ \A peer \in WatchedPeers : PushOwners(ListenId(peer)) = {peer}
        /\ \A m \in Each(typed) :
              /\ ConfirmEnabled(m) => \E peer \in Each(file.peers) : HasProbeUrl(peer)
              /\ m.shared.public \/ \E token \in file.auth_token : token # NoText
              /\ \A bp \in m.shared.slo_uptime : 0 < bp /\ bp < 10000

\* Both: an accepted file means what it says, and its parts fit.
AcceptedMeansWhatItSays == NothingIsDroppedSilently /\ AcceptedHoldsTogether
=============================================================================
