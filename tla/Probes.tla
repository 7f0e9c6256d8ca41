------------------------------- MODULE Probes -------------------------------
(***************************************************************************)
(* A request that follows redirects by hand or under a policy, and the     *)
(* probe made of it: http, dns and icmp checks, their retries, both        *)
(* address families (probe/, http.rs).                                     *)
(*                                                                         *)
(* A url is its scheme and its host; what a server answers, and when, is   *)
(* chosen as it answers.  A setting is how a request is made: a monitor's  *)
(* probe ("http", "dns", "icmp"), a read of some API ("json"), or a        *)
(* request with the shared client, to a peer or a channel ("client").      *)
(***************************************************************************)
EXTENDS Integers, FiniteSets

CONSTANTS
    ProbeSettings,  \* [kind, scheme, expected, asserts, proxy, slow, families, retries]
    MAX_REDIRECTS,  \* redirects followed
    ProbeTimeout    \* the monitor's timeout: one deadline for the whole chain

\* Statuses are asserted of http monitors only, contents of http and dns ones.
ASSUME ProbesAssumption ==
    /\ MAX_REDIRECTS \in Nat
    /\ \A s \in ProbeSettings :
          /\ s.kind \in {"http", "dns", "icmp", "json", "client"}
          /\ s.scheme \in {"http", "https"}
          /\ s.expected \subseteq {"2xx", "3xx", "407", "5xx"}
          /\ s.kind # "http" => s.expected = {}
          /\ s.kind \notin {"http", "dns"} => ~s.asserts
          /\ {s.asserts, s.proxy} \subseteq BOOLEAN
          /\ s.families \in {{"v4"}, {"v6"}, {"v4", "v6"}}

VARIABLES
    setting,    \* how this request is made
    run,        \* run[f]: the attempt over the address family f
    spent,      \* since the attempt began
    retried,    \* how often it was retried
    sent,       \* the requests sent: the url, and whether the monitor's headers went along
    result      \* the outcome recorded

probeVars == <<setting, run, spent, retried, sent, result>>

Schemes == {"http", "https"}
Hosts2 == {"target", "other"}
Urls == [scheme : Schemes, host : Hosts2]
Target == [scheme |-> setting.scheme, host |-> "target"]
Families == setting.families

Down(reason) == [up |-> FALSE, degraded |-> FALSE, reason |-> reason]
Up(latency) == [up |-> TRUE, degraded |-> latency > setting.slow, reason |-> "none"]
Pending == [up |-> FALSE, degraded |-> FALSE, reason |-> "pending"]

\* An attempt: where it is, what it met - redirects followed, a step from https
\* to http, the answer it ended on, how its body ended - and its outcome.
Attempt ==
    [at |-> "send", url |-> Target, redirects |-> 0, downgraded |-> FALSE,
     status |-> "none", latency |-> 0, body |-> "none", fits |-> FALSE, outcome |-> Pending]

ProbesInit ==
    /\ setting \in ProbeSettings
    /\ run = [f \in Families |-> Attempt]
    /\ spent = 0 /\ retried = 0 /\ sent = {} /\ result = Pending

---------------------------------------------------------------------------
(***************************************************************************)
(* Redirects.                                                              *)
(***************************************************************************)
IsDowngrade(from, to) == from.scheme = "https" /\ to.scheme = "http"
SameOrigin(url) == url = Target

\* A monitor that expects a 3xx asserts the redirect itself.
Follows == "3xx" \notin setting.expected

\* The shared client goes on to its first origin only, or from it to the same
\* host upgraded to https.
RedirectAllowed(next) ==
    next.host = "target" /\ (next.scheme = setting.scheme \/ next.scheme = "https")

\* What becomes of a redirect: followed, handed back, or an error.
OnRedirect(from, next) ==
    CASE setting.kind = "client" -> IF RedirectAllowed(next) THEN "follow" ELSE "stop"
      [] setting.kind = "json" -> IF IsDowngrade(from, next) THEN "insecure" ELSE "follow"
      [] OTHER -> IF ~Follows THEN "stop"
                  ELSE IF IsDowngrade(from, next) THEN "insecure" ELSE "follow"

\* (mutated: once sent, the headers go along)
HeadersGoAlong(url) == TRUE

\* The configured headers may be credentials: to the target only.  The daemon's
\* own reads carry nothing secret, the shared client does not leave the origin.
WithHeaders(url) == setting.kind = "client" \/ (setting.kind = "http" /\ SameOrigin(url))

---------------------------------------------------------------------------
(***************************************************************************)
(* Judging an answer.                                                      *)
(***************************************************************************)
StatusOk(status) == status \in (IF setting.expected = {} THEN {"2xx"} ELSE setting.expected)
ReadsBody(status) == ~StatusOk(status) \/ setting.asserts

\* Through a proxy, a 407 is the proxy refusing.  A body cut short by the
\* transport is reported as such, never judged; past the cap it is dropped
\* unread, and what was read is judged.
Judged(attempt) ==
    IF attempt.body = "broken" THEN Down("transport")
    ELSE IF attempt.status = "407" /\ setting.proxy THEN Down("proxy")
    ELSE IF ~StatusOk(attempt.status) THEN Down("status")
    ELSE IF setting.asserts /\ ~attempt.fits
         THEN Down(IF attempt.body = "capped" THEN "content, cut" ELSE "content")
    ELSE Up(attempt.latency)

\* The daemon's own reads fail on anything but a whole body of a success.
JudgedJson(attempt) ==
    IF StatusOk(attempt.status) /\ attempt.body = "whole" /\ attempt.fits
    THEN Up(0) ELSE Down("status")

Settled(attempt) ==
    [attempt EXCEPT
        !.at = "done",
        !.outcome = IF setting.kind = "json" THEN JudgedJson(attempt) ELSE Judged(attempt)]
Failed(attempt, reason) == [attempt EXCEPT !.at = "done", !.outcome = Down(reason)]

\* A dns answer is up if it has a record of the type asked for and, pinned, is
\* the expected set in whatever order.
OnLookup(attempt, answer) ==
    CASE answer \in {"error", "timeout", "no records"} -> Failed(attempt, answer)
      [] answer = "other set" /\ setting.asserts ->
            Failed([attempt EXCEPT !.body = "whole"], "mismatch")
      [] OTHER -> [attempt EXCEPT !.at = "done", !.status = "2xx", !.fits = (answer = "the set"),
                                  !.body = "whole", !.outcome = Up(spent)]

\* An icmp error that quotes the request comes back as its answer: only an echo
\* reply means that the host answered.
OnPing(attempt, answer) ==
    IF answer # "echo reply" THEN Failed(attempt, answer)
    ELSE [attempt EXCEPT !.at = "done", !.status = "2xx", !.outcome = Up(spent)]

---------------------------------------------------------------------------
Unfinished(f) == result = Pending /\ run[f].at # "done"
Advance(f, attempt) == run' = [run EXCEPT ![f] = attempt]

Send(f) ==
    /\ Unfinished(f) /\ run[f].at = "send" /\ setting.kind \notin {"dns", "icmp"}
    /\ sent' = sent \cup {[url |-> run[f].url, headers |-> WithHeaders(run[f].url)]}
    /\ Advance(f, [run[f] EXCEPT !.at = "sent"])
    /\ UNCHANGED <<setting, spent, retried, result>>

\* The final answer: its headers give the latency, then its body is read or not.
FinalAnswer(attempt, status) ==
    LET final == [attempt EXCEPT !.status = status, !.latency = spent]
    IN  IF setting.kind = "client" \/ (setting.kind = "http" /\ ~ReadsBody(status))
        THEN Settled(final)
        ELSE [final EXCEPT !.at = "body"]

Redirected(f, next) ==
    /\ Unfinished(f) /\ run[f].at = "sent"
    /\ LET attempt == run[f]
       IN  CASE OnRedirect(attempt.url, next) = "stop" -> Advance(f, FinalAnswer(attempt, "3xx"))
             [] OnRedirect(attempt.url, next) = "insecure" ->
                  Advance(f, Failed([attempt EXCEPT !.downgraded = TRUE], "insecure redirect"))
             [] OTHER ->
                  LET hop == [attempt EXCEPT !.redirects = @ + 1, !.url = next, !.at = "send"]
                  IN  Advance(f, IF hop.redirects > MAX_REDIRECTS
                                 THEN Failed(hop, "too many redirects") ELSE hop)
    /\ UNCHANGED <<setting, spent, retried, sent, result>>

\* Any other answer, a redirect without a usable Location included.
ServerAnswers(f, status) ==
    /\ Unfinished(f) /\ run[f].at = "sent"
    /\ Advance(f, FinalAnswer(run[f], status))
    /\ UNCHANGED <<setting, spent, retried, sent, result>>

Breaks(f) ==
    /\ Unfinished(f) /\ run[f].at = "sent"
    /\ Advance(f, Failed(run[f], "transport"))
    /\ UNCHANGED <<setting, spent, retried, sent, result>>

\* The body ends, the cap is reached, or the connection breaks; what was read
\* satisfies the assertions or not.
BodyRead(f, body, fits) ==
    /\ Unfinished(f) /\ run[f].at = "body"
    /\ Advance(f, Settled([run[f] EXCEPT !.body = body, !.fits = fits]))
    /\ UNCHANGED <<setting, spent, retried, sent, result>>

LookedUp(f, answer) ==
    /\ Unfinished(f) /\ setting.kind = "dns"
    /\ Advance(f, OnLookup(run[f], answer))
    /\ UNCHANGED <<setting, spent, retried, sent, result>>

Pinged(f, answer) ==
    /\ Unfinished(f) /\ setting.kind = "icmp"
    /\ Advance(f, OnPing(run[f], answer))
    /\ UNCHANGED <<setting, spent, retried, sent, result>>

RequestWaits ==
    /\ \E f \in Families : Unfinished(f)
    /\ spent < ProbeTimeout /\ spent' = spent + 1
    /\ UNCHANGED <<setting, run, retried, sent, result>>

TimedOut(f) ==
    /\ Unfinished(f) /\ spent = ProbeTimeout
    /\ Advance(f, Failed(run[f], "timeout"))
    /\ UNCHANGED <<setting, spent, retried, sent, result>>

(***************************************************************************)
(* Both families, and the retries.                                         *)
(***************************************************************************)

\* (mutated: one family that answers is enough)
CombineAny(outcomes) ==
    IF \E f \in Families : outcomes[f].up
    THEN outcomes[CHOOSE f \in Families : outcomes[f].up] ELSE Down("both families")

\* A broken family is named; the slower of two healthy ones decides.
Combine(outcomes) ==
    LET failed == {f \in Families : ~outcomes[f].up}
    IN IF Cardinality(Families) = 1 THEN outcomes[CHOOSE f \in Families : TRUE]
       ELSE IF failed = Families THEN Down("both families")
       ELSE IF failed # {} THEN Down(CHOOSE f \in failed : TRUE)
       ELSE [up |-> TRUE, degraded |-> \E f \in Families : outcomes[f].degraded,
             reason |-> "none"]

\* A failed attempt is made again after a pause, from the start.
Concludes ==
    /\ result = Pending /\ \A f \in Families : run[f].at = "done"
    /\ LET outcome == Combine([f \in Families |-> run[f].outcome])
       IN  IF outcome.up \/ retried = setting.retries
           THEN /\ result' = outcome
                /\ UNCHANGED <<run, spent, retried>>
           ELSE /\ run' = [f \in Families |-> Attempt]
                /\ spent' = 0 /\ retried' = retried + 1
                /\ UNCHANGED result
    /\ UNCHANGED <<setting, sent>>

ProbesNext ==
    \/ \E f \in Families :
          \/ Send(f) \/ Breaks(f) \/ TimedOut(f)
          \/ \E next \in Urls : Redirected(f, next)
          \/ \E status \in {"2xx", "3xx", "407", "5xx"} : ServerAnswers(f, status)
          \/ \E body \in {"whole", "capped", "broken"}, fits \in BOOLEAN : BodyRead(f, body, fits)
          \/ \E answer \in {"error", "timeout", "no records", "other set", "the set"} :
                LookedUp(f, answer)
          \/ \E answer \in {"unresolvable", "no socket", "icmp error", "echo reply"} :
                Pinged(f, answer)
    \/ RequestWaits \/ Concludes

ProbesSpec == ProbesInit /\ [][ProbesNext]_probeVars

---------------------------------------------------------------------------
(***************************************************************************)
(* Properties.                                                             *)
(***************************************************************************)

\* What a family met in the last attempt, told from the answers alone.
Served(f) ==
    /\ run[f].redirects <= MAX_REDIRECTS /\ ~run[f].downgraded
    /\ StatusOk(run[f].status)
    /\ ~(setting.proxy /\ run[f].status = "407")
    /\ setting.asserts \/ setting.kind = "json" => run[f].body # "broken" /\ run[f].fits
    /\ setting.kind = "json" => run[f].body = "whole"

\* A probe is up exactly if its last attempt was served as it asks over every
\* family; it blames the content only if it read the body, or its head to the
\* cap, and a family only if the other one answered ("naming the broken family").
OutcomeIsEarned ==
    result # Pending =>
        /\ result.up <=> \A f \in Families : run[f].outcome.reason # "timeout" /\ Served(f)
        /\ result.reason = "content" => \A f \in Families : run[f].body = "whole"
        /\ result.reason \in {"v4", "v6"} =>
              \A f \in Families : Served(f) <=> f # result.reason
        /\ ~result.up => retried = setting.retries

\* The headers of a monitor or a peer's token go to the target's own origin,
\* through redirects, families and retries; from https nothing goes on in clear.
SecretsStayHome ==
    \A request \in sent :
        /\ request.headers => request.url.host = "target"
                              /\ request.url.scheme \in {setting.scheme, "https"}
        /\ setting.kind # "client" /\ setting.scheme = "https" => request.url.scheme = "https"
=============================================================================
