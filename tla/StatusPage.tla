----------------------------- MODULE StatusPage -----------------------------
(***************************************************************************)
(* The status page: the refresher that rebuilds the operator's summary in  *)
(* the background (snapshot.rs), the views derived from it per audience    *)
(* and configuration, the memo of the reports (cache.rs), the operator     *)
(* writes that wait to be shown, and the cache of the incident log a build *)
(* keeps for the next one (IncidentMarksCache, db/incidents.rs).           *)
(*                                                                         *)
(* A configuration is an Arc: two reloads of the same text are two of      *)
(* them, told apart by ver.  A build that would read what the last one     *)
(* read is left out (dirty), so that the generations stay few; and the     *)
(* three things a build meets, incidents, writes and requests, are         *)
(* explored one per behaviour (scene), so that each has room.              *)
(***************************************************************************)
EXTENDS Integers, FiniteSets, FiniteSetsExt

CONSTANTS
    Configs,        \* what the file may say in each scene: [ids, public]
    Requests,       \* views and reports asked for
    NewestMayGo,    \* the newest incident row may be deleted
    MaxReloads,     \* bound: reloads in each scene
    MaxIncidents,   \* bound: incidents ever opened
    MaxWrites,      \* bound: operator writes
    MaxFaults       \* bound: builds that panic, statements that fail, timeouts

Scenes == {"incidents", "writes", "requests"}
Monitors == UNION {c.ids : c \in UNION {Configs[s] : s \in Scenes}}

ASSUME PageAssumption ==
    /\ \A s \in Scenes : \A c \in Configs[s] : c.public \subseteq c.ids
    /\ NewestMayGo \in BOOLEAN
    /\ MaxReloads \in [Scenes -> Nat]
    /\ {MaxIncidents, MaxWrites, MaxFaults} \subseteq Nat

VARIABLES
    config,    \* the watch channel: [ver, ids, public]
    log,       \* the table incidents, as [id, mon, open]
    past,      \* history: who has an ended incident no sweep took
    rf,        \* the refresher task
    marks,     \* the IncidentMarksCache of its BuildState
    current,   \* the snapshot served, or None
    published, \* the watch channel of generations
    permit,    \* the permit of Notify
    writes,    \* operator writes committed
    wr,        \* the operator write in progress
    derived,   \* what was derived from the snapshots still held
    report,    \* the report in the Memo: the ver it was built for, or None
    building,  \* who holds Memo::build, or None
    rq,        \* the requests
    scene,     \* bound: what this behaviour exercises
    opened,    \* bound counter
    faults     \* bound counter

pageVars == <<config, log, past, rf, marks, current, published, permit, writes, wr,
              derived, report, building, rq, scene, opened, faults>>

None == [ver |-> 0]
NoMarks == [last |-> 0, open |-> {}, ended |-> {}]
NoConfig == [ver |-> 0, ids |-> {}, public |-> {}]
NoRequest == [pc |-> "idle", cfg |-> NoConfig, snap |-> None, got |-> {}]

Open(rows) == {r \in rows : r.open}
Of(rows) == {r.mon : r \in rows}
Rows(rows) == {[id |-> r.id, mon |-> r.mon] : r \in rows}

PageInit ==
    /\ scene \in Scenes /\ opened = 0 /\ faults = 0
    /\ config \in {[ver |-> 1, ids |-> c.ids, public |-> c.public] : c \in Configs[scene]}
    /\ log = {} /\ past = {} /\ marks = NoMarks
    /\ rf = [pc |-> "begin", gen |-> 0, cfg |-> NoConfig, upto |-> 0,
             was |-> {}, during |-> {}, dirty |-> TRUE]
    /\ current = None /\ published = 0 /\ permit = FALSE
    /\ writes = 0 /\ wr = [pc |-> "idle", target |-> 0]
    /\ derived = {} /\ report = 0 /\ building = "nobody"
    /\ rq = [r \in Requests |-> NoRequest]

Fault == faults < MaxFaults /\ faults' = faults + 1
Dirty(f) == [f EXCEPT !.dirty = TRUE]

(***************************************************************************)
(* The rest of the daemon.                                                 *)
(***************************************************************************)
served == <<current, published, permit, writes, wr, derived, report, building, rq, scene>>

Reload(c) ==
    /\ config.ver <= MaxReloads[scene]
    /\ config' = [ver |-> config.ver + 1, ids |-> c.ids, public |-> c.public]
    /\ rf' = Dirty(rf)
    /\ UNCHANGED <<log, past, marks, served, opened, faults>>

\* INTEGER PRIMARY KEY without AUTOINCREMENT: one above the newest row.
OpenIncident(m) ==
    /\ scene = "incidents" /\ m \in config.ids /\ m \notin Of(Open(log))
    /\ opened < MaxIncidents /\ opened' = opened + 1
    /\ LET row == [id |-> Max({r.id : r \in log} \cup {0}) + 1, mon |-> m, open |-> TRUE]
       IN /\ log' = log \cup {row}
          /\ rf' = Dirty([rf EXCEPT !.during = @ \cup {m}])
    /\ UNCHANGED <<config, past, marks, served, faults>>

CloseIncident(m) ==
    /\ m \in Of(Open(log))
    /\ log' = {IF r.mon = m THEN [r EXCEPT !.open = FALSE] ELSE r : r \in log}
    /\ past' = past \cup {m} /\ rf' = Dirty(rf)
    /\ UNCHANGED <<config, marks, served, opened, faults>>

Deletable(rows) == NewestMayGo \/ \A r \in rows : \E o \in log \ rows : o.id > r.id

\* A closed incident ages out; those of an id gone for a week are swept.  A week
\* is many builds: one of them was for a configuration without the id.
Age(row) ==
    /\ ~row.open /\ Deletable({row}) /\ log' = log \ {row}
    /\ rf' = Dirty(rf)
    /\ UNCHANGED <<config, past, marks, served, opened, faults>>

Sweep(m) ==
    /\ m \notin config.ids \cup rf.cfg.ids /\ rf.cfg.ver # 0
    /\ LET rows == {r \in log : r.mon = m} IN
          rows # {} /\ Deletable(rows) /\ log' = log \ rows
    /\ past' = past \ {m} /\ rf' = Dirty(rf)
    /\ UNCHANGED <<config, marks, served, opened, faults>>

(***************************************************************************)
(* The refresher (run) and its build.                                      *)
(***************************************************************************)
others == <<config, log, past, writes, wr, report, building, rq, scene, opened>>

\* (mutated: what was kept of an id stays when it comes back)
AddsMonitorsNever(previous, next) == FALSE

AddsMonitors(previous, next) == previous.ver # 0 /\ ~(next.ids \subseteq previous.ids)

\* config.borrow_and_update, the generation, the build's task.
Begin ==
    /\ rf.pc = "begin"
    /\ rf' = [pc |-> "reread", gen |-> rf.gen + 1, cfg |-> config, upto |-> writes,
              was |-> log, during |-> Of(Open(log)), dirty |-> FALSE]
    /\ marks' = IF AddsMonitors(rf.cfg, config) THEN NoMarks ELSE marks
    /\ UNCHANGED <<others, current, published, permit, derived, faults>>

\* (mutated: a row that is gone is kept)
StillOpenKept(o) == ~\E r \in log : r.id = o.id /\ ~r.open

StillOpen(o) == \E r \in log : r.id = o.id /\ r.open

\* IncidentMarksCache::refresh_inner: the incidents known open are read again...
Reread ==
    /\ rf.pc = "reread"
    /\ LET still == {o \in marks.open : StillOpen(o)}
           closed == {o \in marks.open : \E r \in log : r.id = o.id /\ ~r.open}
       IN marks' = [marks EXCEPT !.open = still, !.ended = @ \cup Of(closed)]
    /\ rf' = [rf EXCEPT !.pc = "readnew"]
    /\ UNCHANGED <<others, current, published, permit, derived, faults>>

NewRows == {r \in log : r.id > marks.last}

\* ... then the ones added since.
ReadNew ==
    /\ rf.pc = "readnew"
    /\ marks' = [last |-> Max({r.id : r \in NewRows} \cup {marks.last}),
                 open |-> marks.open \cup Rows(Open(NewRows)),
                 ended |-> marks.ended \cup Of(NewRows \ Open(NewRows))]
    /\ rf' = [rf EXCEPT !.pc = "built"]
    /\ UNCHANGED <<others, current, published, permit, derived, faults>>

\* A failed statement empties the marks, of this view and of the cache.
ReadFails ==
    /\ rf.pc \in {"reread", "readnew"} /\ Fault
    /\ marks' = NoMarks
    /\ rf' = Dirty([rf EXCEPT !.pc = "built", !.was = {}])
    /\ UNCHANGED <<others, current, published, permit, derived>>

Held(memos, snap, requests) ==
    {d \in memos : \/ d.gen = snap.gen
                   \/ \E r \in Requests : requests[r].snap # None /\ requests[r].snap.gen = d.gen}

\* current.store; what the writes say is read at some moment of the build.
Store ==
    /\ rf.pc = "built"
    /\ \E upto \in rf.upto .. writes :
          current' = [ver |-> rf.cfg.ver, gen |-> rf.gen, ids |-> rf.cfg.ids,
                      upto |-> upto, open |-> Of(marks.open) \cap rf.cfg.ids]
    /\ derived' = Held(derived, current', rq)
    /\ rf' = [rf EXCEPT !.pc = "stored"]
    /\ UNCHANGED <<others, marks, published, permit, faults>>

\* published.send_replace, then the pause.
Publish ==
    /\ rf.pc = "stored" /\ published' = rf.gen
    /\ rf' = [rf EXCEPT !.pc = "pause"]
    /\ UNCHANGED <<others, marks, current, permit, derived, faults>>

\* (mutated: the build runs in the refresher's own task)
PanickedAlone(f) == Dirty([f EXCEPT !.pc = "gone"])

Panicked(f) == Dirty([f EXCEPT !.pc = "pause"])

\* The task panics: its caches are lost, not the refresher.
Panic ==
    /\ rf.pc \in {"reread", "readnew", "built"} /\ Fault
    /\ marks' = NoMarks /\ rf' = Panicked(rf)
    /\ UNCHANGED <<others, current, published, permit, derived>>

\* The select of the pause: the sleep, a permit or a reload not seen yet.
Resume ==
    /\ rf.pc = "pause"
    /\ \/ rf.dirty /\ UNCHANGED permit
       \/ permit /\ permit' = FALSE
       \/ config.ver # rf.cfg.ver /\ UNCHANGED permit
    /\ rf' = [rf EXCEPT !.pc = "begin"]
    /\ UNCHANGED <<others, marks, current, published, derived, faults>>

Refresh == Begin \/ Reread \/ ReadNew \/ Store \/ Publish \/ Resume

(***************************************************************************)
(* An operator write and refresh_now.                                      *)
(***************************************************************************)
notWriter == <<config, log, past, marks, current, published, derived, report, building,
               rq, scene, opened>>

Write ==
    /\ scene = "writes" /\ wr.pc = "idle" /\ writes < MaxWrites /\ writes' = writes + 1
    /\ wr' = [wr EXCEPT !.pc = "written"] /\ rf' = Dirty(rf)
    /\ UNCHANGED <<notWriter, permit, faults>>

\* (mutated: the build already under way will do)
TargetInFlight == rf.gen

Target == rf.gen + 1

Ask ==
    /\ wr.pc = "written" /\ permit' = TRUE
    /\ wr' = [pc |-> "waiting", target |-> Target]
    /\ UNCHANGED <<notWriter, rf, writes, faults>>

Shown ==
    /\ wr.pc = "waiting" /\ published >= wr.target
    /\ wr' = [wr EXCEPT !.pc = "shown"]
    /\ UNCHANGED <<notWriter, rf, permit, writes, faults>>

\* The answer is sent.
Answer ==
    /\ wr.pc = "shown" /\ wr' = [pc |-> "idle", target |-> 0]
    /\ UNCHANGED <<notWriter, rf, permit, writes, faults>>

\* WRITE_VISIBLE_TIMEOUT.
GiveUp ==
    /\ wr.pc = "waiting" /\ Fault
    /\ wr' = [pc |-> "idle", target |-> 0]
    /\ UNCHANGED <<notWriter, rf, permit, writes>>

(***************************************************************************)
(* Requests.                                                               *)
(***************************************************************************)
notRequest == <<config, log, past, rf, marks, current, published, permit, writes, wr, scene, opened>>

To(r, pc) == [rq EXCEPT ![r].pc = pc]
Serve(r, value) == [rq EXCEPT ![r] = [@ EXCEPT !.pc = "done", !.got = value, !.snap = None]]

\* The configuration is taken once, at the head of the request.
Arrive(r) ==
    /\ scene = "requests" /\ rq[r].pc = "idle"
    /\ \E pc \in {"load", "get"} :
          rq' = [rq EXCEPT ![r] = [pc |-> pc, cfg |-> config, snap |-> None, got |-> {}]]
    /\ UNCHANGED <<notRequest, derived, report, building, faults>>

\* snapshot(): the first one waits for the first build published.
Load(r) ==
    /\ rq[r].pc = "load" /\ current # None
    /\ rq' = [rq EXCEPT ![r].pc = "look", ![r].snap = current]
    /\ UNCHANGED <<notRequest, derived, report, building, faults>>

\* derive: the monitors of the build that are configured and visible now.
Derive(snap, cfg) == snap.ids \cap cfg.public

\* (mutated: views derived under another configuration stay)
ForConfigAny(memos, gen, ver) == {d \in memos : d.gen = gen}

\* Derived::for_config: what a snapshot's memo keeps for this configuration.
ForConfig(memos, gen, ver) == {d \in memos : d.gen = gen /\ d.ver = ver}

Look(r) ==
    /\ rq[r].pc = "look"
    /\ LET gen == rq[r].snap.gen
           kept == ForConfig(derived, gen, rq[r].cfg.ver)
           rest == {d \in derived : d.gen # gen} \cup kept
       IN IF kept # {}
            THEN /\ \E d \in kept : rq' = Serve(r, d.view)
                 /\ derived' = Held(rest, current, rq')
            ELSE rq' = To(r, "derive") /\ derived' = rest
    /\ UNCHANGED <<notRequest, report, building, faults>>

\* Derived outside the lock, then inserted: the last one in stays.
DeriveView(r) ==
    /\ rq[r].pc = "derive"
    /\ LET snap == rq[r].snap
           view == Derive(snap, rq[r].cfg)
           kept == {d \in derived : d.gen # snap.gen}
       IN /\ rq' = Serve(r, view)
          /\ derived' = Held(kept \cup {[gen |-> snap.gen, ver |-> rq[r].cfg.ver,
                                         view |-> view]}, current, rq')
    /\ UNCHANGED <<notRequest, report, building, faults>>

(***************************************************************************)
(* Memo::get_or_build.  A report is told by the configuration it was       *)
(* built from.                                                             *)
(***************************************************************************)
Fresh(ver) == report = ver

Get(r) ==
    /\ rq[r].pc = "get"
    /\ rq' = IF Fresh(rq[r].cfg.ver) THEN Serve(r, {report}) ELSE To(r, "lock")
    /\ UNCHANGED <<notRequest, derived, report, building, faults>>

\* The lock, and the entry another miss may have built meanwhile.
Lock(r) ==
    /\ rq[r].pc = "lock" /\ building = "nobody"
    /\ IF Fresh(rq[r].cfg.ver)
         THEN rq' = Serve(r, {report}) /\ UNCHANGED building
         ELSE rq' = To(r, "build") /\ building' = r
    /\ UNCHANGED <<notRequest, derived, report, faults>>

Built(r) ==
    /\ rq[r].pc = "build" /\ building' = "nobody"
    /\ report' = rq[r].cfg.ver /\ rq' = Serve(r, {rq[r].cfg.ver})
    /\ UNCHANGED <<notRequest, derived, faults>>

\* A failed build caches nothing; the request gets the error.
BuildFails(r) ==
    /\ rq[r].pc = "build" /\ Fault /\ building' = "nobody"
    /\ rq' = [rq EXCEPT ![r] = [NoRequest EXCEPT !.pc = "failed"]]
    /\ UNCHANGED <<notRequest, derived, report>>

\* VIEW_CACHE_TTL.
Expire ==
    /\ report # 0 /\ Fault /\ report' = 0
    /\ UNCHANGED <<notRequest, derived, building, rq>>

Request(r) ==
    Load(r) \/ Look(r) \/ DeriveView(r) \/ Get(r) \/ Lock(r) \/ Built(r)

PageNext ==
    \/ \E c \in Configs[scene] : Reload(c)
    \/ \E m \in Monitors : OpenIncident(m) \/ CloseIncident(m) \/ Sweep(m)
    \/ \E row \in log : Age(row)
    \/ Refresh \/ ReadFails \/ Panic
    \/ Write \/ Ask \/ Shown \/ Answer \/ GiveUp
    \/ \E r \in Requests : Arrive(r) \/ Request(r) \/ BuildFails(r)
    \/ Expire

\* The runtime polls every task; the pause ends.
PageSpec ==
    /\ PageInit /\ [][PageNext]_pageVars
    /\ WF_pageVars(Refresh) /\ WF_pageVars(Ask \/ Shown \/ Answer)
    /\ \A r \in Requests : WF_pageVars(Request(r))

(***************************************************************************)
(* Properties.                                                             *)
(***************************************************************************)

\* When refresh_now returns without a timeout, the page served shows the write
\* ("an operator write that should be visible on the very next page view").
WriteIsShown == wr.pc = "shown" => current # None /\ current.upto = writes

\* A view or a report is served as its own request's configuration has it:
\* nothing hidden by a reload is shown from a memo ("a monitor made private by
\* a reload disappears from the next request, before the next build").
ViewIsOfItsConfig ==
    \A r \in Requests : rq[r].pc = "done" =>
        \/ rq[r].got \subseteq rq[r].cfg.public
        \/ rq[r].got = {rq[r].cfg.ver}

\* A build shows as down what was down during the whole build, and nothing that
\* was not down at any moment of it; as having been down what had an ended
\* incident all along, and nothing whose incidents were swept while its id was
\* gone ("only an id coming back must not find what they kept of it").
MarksFollowLog ==
    rf.pc = "built" =>
        /\ Of(Open(rf.was) \cap log) \cap rf.cfg.ids \subseteq Of(marks.open)
        /\ Of(marks.open) \subseteq rf.during
        /\ Of((rf.was \ Open(rf.was)) \cap log) \cap rf.cfg.ids \subseteq marks.ended
        /\ marks.ended \cap rf.cfg.ids \subseteq past

\* An outage that lasts is on the page for good, and one that is over is not
\* ("kept fresh in the background").
OutageIsShown ==
    \A m \in Monitors :
        /\ <>[](m \in Of(Open(log)) \cap config.ids) =>
             <>[](current # None /\ m \in current.open)
        /\ <>[](m \notin Of(Open(log))) =>
             <>[](current # None /\ m \notin current.open)

\* Every request and every operator write is answered, also when the builds or
\* the statements they wait for fail.
EveryoneIsAnswered ==
    /\ \A r \in Requests : rq[r].pc = "load" \/ rq[r].pc = "get" ~> rq[r].pc \in {"done", "failed"}
    /\ wr.pc = "written" ~> wr.pc = "idle"
=============================================================================
