-------------------------- MODULE StatusPageProofs --------------------------
(***************************************************************************)
(* The status page, for any configurations, monitors, requests and number  *)
(* of reloads, writes and faults: a write is on the page before its answer *)
(* is sent, a view is of the configuration its request was made under, and *)
(* an answer shows its reader nothing but what they may read.              *)
(* For any lists a server shows, `hora top` shows and sends what is meant. *)
(***************************************************************************)
EXTENDS StatusPage, Audiences, Dashboard, SequenceTheorems, FiniteSetTheorems, TLAPS

---------------------------------------------------------------------------
(* Writes *)

\* The generations are in order, and those from the target on have read the write.
WritesInv ==
    /\ {"pc", "gen", "upto"} \subseteq DOMAIN rf
    /\ wr \in [pc : {"idle", "written", "waiting", "shown"}, target : Nat]
    /\ writes \in Nat /\ published \in Nat
    /\ rf.gen \in Nat /\ rf.upto \in Nat /\ rf.upto <= writes
    /\ published > 0 => current # None
    /\ current # None => /\ current.gen \in Nat
                         /\ published <= current.gen /\ current.gen <= rf.gen
    /\ rf.pc = "stored" => current # None /\ current.gen = rf.gen
    /\ wr.pc \in {"waiting", "shown"} =>
          /\ wr.target > 0
          /\ rf.gen >= wr.target => rf.upto = writes
          /\ current # None /\ current.gen >= wr.target => current.upto = writes
    /\ wr.pc = "shown" => published >= wr.target

\* Steps of the rest of the daemon and of the requests.
LEMMA OthersKeepWrites ==
    ASSUME WritesInv, UNCHANGED <<current, published, writes, wr>>,
           \/ UNCHANGED rf
           \/ {"pc", "gen", "upto"} \subseteq DOMAIN rf' /\ rf'.gen = rf.gen /\ rf'.upto = rf.upto
              /\ (rf'.pc = rf.pc \/ rf'.pc # "stored")
    PROVE  WritesInv'
  BY DEF WritesInv

LEMMA WritesStart == PageInit => WritesInv
  BY DEF PageInit, WritesInv

LEMMA WritesStep == WritesInv /\ [PageNext]_pageVars => WritesInv'
  <1>. SUFFICES ASSUME WritesInv, [PageNext]_pageVars PROVE WritesInv'
    OBVIOUS
  <1>0. {"pc", "gen", "upto"} \subseteq DOMAIN rf
    BY DEF WritesInv
  <1>1. ASSUME NEW c \in Configs[scene], Reload(c) PROVE WritesInv'
    BY <1>0, <1>1, OthersKeepWrites DEF Reload, served, Dirty
  <1>2. ASSUME NEW m \in Monitors, OpenIncident(m) PROVE WritesInv'
    BY <1>0, <1>2, OthersKeepWrites DEF OpenIncident, served, Dirty
  <1>3. ASSUME NEW m \in Monitors, CloseIncident(m) PROVE WritesInv'
    BY <1>0, <1>3, OthersKeepWrites DEF CloseIncident, served, Dirty
  <1>4. ASSUME NEW m \in Monitors, Sweep(m) PROVE WritesInv'
    BY <1>0, <1>4, OthersKeepWrites DEF Sweep, served, Dirty
  <1>5. ASSUME NEW row \in log, Age(row) PROVE WritesInv'
    BY <1>0, <1>5, OthersKeepWrites DEF Age, served, Dirty
  <1>6. CASE Begin
    BY <1>6 DEF Begin, others, WritesInv
  <1>7. CASE Reread
    BY <1>0, <1>7, OthersKeepWrites DEF Reread, others
  <1>8. CASE ReadNew
    BY <1>0, <1>8, OthersKeepWrites DEF ReadNew, others
  <1>9. CASE ReadFails
    BY <1>0, <1>9, OthersKeepWrites DEF ReadFails, others, Dirty
  <1>10. CASE Store
    <2>1. PICK upto \in rf.upto .. writes :
             current' = [ver |-> rf.cfg.ver, gen |-> rf.gen, ids |-> rf.cfg.ids,
                         upto |-> upto, open |-> Of(marks.open) \cap rf.cfg.ids]
      BY <1>10 DEF Store
    <2>2. current' # None
      <3>1. "gen" \in DOMAIN current' /\ "gen" \notin DOMAIN None
        BY <2>1 DEF None
      <3>. QED BY <3>1
    <2>3. current'.gen = rf.gen /\ current'.upto = upto
      BY <2>1
    <2>4. /\ rf' = [rf EXCEPT !.pc = "stored"] /\ UNCHANGED <<writes, wr, published>>
      BY <1>10 DEF Store, others
    <2>5. /\ {"pc", "gen", "upto"} \subseteq DOMAIN rf' /\ rf'.gen = rf.gen /\ rf'.upto = rf.upto
      BY <1>0, <2>4
    <2>6. upto \in Nat /\ rf.upto <= upto /\ upto <= writes
      BY DEF WritesInv
    <2>. QED BY <2>2, <2>3, <2>4, <2>5, <2>6 DEF WritesInv
  <1>11. CASE Publish
    BY <1>11 DEF Publish, others, WritesInv
  <1>12. CASE Panic
    BY <1>0, <1>12, OthersKeepWrites DEF Panic, Panicked, others, Dirty
  <1>13. CASE Resume
    BY <1>0, <1>13, OthersKeepWrites DEF Resume, others
  <1>14. CASE Write
    BY <1>14 DEF Write, notWriter, Dirty, WritesInv
  <1>15. CASE Ask
    BY <1>15 DEF Ask, Target, notWriter, WritesInv
  <1>16. CASE Shown
    BY <1>16 DEF Shown, notWriter, WritesInv
  <1>17. CASE Answer \/ GiveUp
    BY <1>17 DEF Answer, GiveUp, notWriter, WritesInv
  <1>18. ASSUME NEW r \in Requests, Arrive(r) \/ Request(r) \/ BuildFails(r) PROVE WritesInv'
    <2>1. UNCHANGED <<current, published, writes, wr, rf>>
      BY <1>18 DEF Arrive, Request, Load, Look, DeriveView, Get, Lock, Built, BuildFails, notRequest
    <2>. QED BY <2>1, OthersKeepWrites
  <1>19. CASE Expire
    BY <1>19, OthersKeepWrites DEF Expire, notRequest
  <1>20. CASE UNCHANGED pageVars
    BY <1>20, OthersKeepWrites DEF pageVars
  <1>. QED BY <1>1, <1>2, <1>3, <1>4, <1>5, <1>6, <1>7, <1>8, <1>9, <1>10, <1>11, <1>12, <1>13,
              <1>14, <1>15, <1>16, <1>17, <1>18, <1>19, <1>20 DEF PageNext, Refresh

\* The builds are numbered, and what is served is never behind what was published.
THEOREM WritesInvariant == PageSpec => []WritesInv
  BY WritesStart, WritesStep, PTL DEF PageSpec

\* "An operator write that should be visible on the very next page view": when
\* refresh_now returns without a timeout, the snapshot served has the write.
THEOREM WritesAreShown == PageSpec => []WriteIsShown
  <1>1. WritesInv => WriteIsShown
    BY DEF WritesInv, WriteIsShown
  <1>. QED BY <1>1, WritesInvariant, PTL

---------------------------------------------------------------------------
(* Views *)

\* A version names one configuration, among the present one and the requests'; what
\* was derived under it shows what it makes public.
ViewsInv ==
    /\ config.ver \in Nat \ {0}
    /\ DOMAIN rq = Requests
    /\ \A r \in Requests :
          /\ {"pc", "cfg", "snap", "got"} \subseteq DOMAIN rq[r]
          /\ rq[r].cfg.ver \in Nat /\ rq[r].cfg.ver <= config.ver
          /\ rq[r].cfg.ver = 0 => rq[r].cfg = NoConfig
          /\ rq[r].cfg.ver = config.ver => rq[r].cfg = config
          /\ \A s \in Requests : rq[r].cfg.ver = rq[s].cfg.ver => rq[r].cfg = rq[s].cfg
    /\ \A d \in derived :
          /\ d.ver \in Nat /\ d.ver <= config.ver
          /\ d.ver = 0 => d.view \subseteq {}
          /\ d.ver = config.ver => d.view \subseteq config.public
          /\ \A r \in Requests : d.ver = rq[r].cfg.ver => d.view \subseteq rq[r].cfg.public
    /\ ViewIsOfItsConfig

\* What is derived or forgotten by the requests under way leaves the views right.
LEMMA ViewsKept ==
    ASSUME ViewsInv, config' = config, DOMAIN rq' = Requests,
           \A s \in Requests : /\ {"pc", "cfg", "snap", "got"} \subseteq DOMAIN rq'[s]
                               /\ rq'[s].cfg = rq[s].cfg,
           \A d \in derived' :
              \/ d \in derived
              \/ \E s \in Requests : d.ver = rq[s].cfg.ver /\ d.view \subseteq rq[s].cfg.public,
           ViewIsOfItsConfig'
    PROVE  ViewsInv'
  <1>1. ASSUME NEW d \in derived'
        PROVE  /\ d.ver \in Nat /\ d.ver <= config.ver
               /\ d.ver = 0 => d.view \subseteq {}
               /\ d.ver = config.ver => d.view \subseteq config.public
               /\ \A r \in Requests : d.ver = rq[r].cfg.ver => d.view \subseteq rq[r].cfg.public
    <2>1. CASE d \in derived
      BY <2>1 DEF ViewsInv
    <2>2. ASSUME NEW s \in Requests, d.ver = rq[s].cfg.ver, d.view \subseteq rq[s].cfg.public
          PROVE  <1>1!2
      <3>1. d.ver = 0 => d.view \subseteq {}
        <4>1. NoConfig.public = {}
          BY DEF NoConfig
        <4>. QED BY <2>2, <4>1 DEF ViewsInv
      <3>2. d.ver = config.ver => d.view \subseteq config.public
        BY <2>2 DEF ViewsInv
      <3>3. \A r \in Requests : d.ver = rq[r].cfg.ver => d.view \subseteq rq[r].cfg.public
        BY <2>2 DEF ViewsInv
      <3>. QED BY <2>2, <3>1, <3>2, <3>3 DEF ViewsInv
    <2>. QED BY <2>1, <2>2
  <1>. QED BY <1>1 DEF ViewsInv

LEMMA ViewsStart == PageInit => ViewsInv
  <1> SUFFICES ASSUME PageInit PROVE ViewsInv
    OBVIOUS
  <1>1. config.ver = 1 /\ derived = {} /\ rq = [r \in Requests |-> NoRequest]
    BY DEF PageInit
  <1>2. /\ NoRequest.cfg = NoConfig /\ NoConfig.ver = 0 /\ NoRequest.pc = "idle"
        /\ {"pc", "cfg", "snap", "got"} \subseteq DOMAIN NoRequest
    BY DEF NoRequest, NoConfig
  <1>. QED BY <1>1, <1>2 DEF ViewsInv, ViewIsOfItsConfig

\* What a request that was served got is what its configuration has.
LEMMA ServedIsOfItsConfig ==
    ASSUME ViewsInv, NEW r \in Requests, NEW got, rq' = Serve(r, got),
           got \subseteq rq[r].cfg.public \/ got = {rq[r].cfg.ver}
    PROVE  /\ DOMAIN rq' = Requests
           /\ \A s \in Requests : /\ {"pc", "cfg", "snap", "got"} \subseteq DOMAIN rq'[s]
                                  /\ rq'[s].cfg = rq[s].cfg
           /\ ViewIsOfItsConfig'
  <1>1. \A s \in Requests \ {r} : rq'[s] = rq[s]
    BY DEF Serve, ViewsInv
  <1>2. rq'[r] = [rq[r] EXCEPT !.pc = "done", !.got = got, !.snap = None]
    BY DEF Serve, ViewsInv
  <1>3. /\ {"pc", "cfg", "snap", "got"} \subseteq DOMAIN rq'[r]
        /\ rq'[r].cfg = rq[r].cfg /\ rq'[r].got = got
    BY <1>2 DEF ViewsInv
  <1>4. DOMAIN rq' = Requests
    BY DEF Serve, ViewsInv
  <1>. QED BY <1>1, <1>3, <1>4 DEF ViewsInv, ViewIsOfItsConfig

\* A request that goes on is not served yet.
LEMMA MovedIsNotServed ==
    ASSUME ViewsInv, NEW r \in Requests, NEW pc, pc # "done", rq' = To(r, pc)
    PROVE  /\ DOMAIN rq' = Requests
           /\ \A s \in Requests : /\ {"pc", "cfg", "snap", "got"} \subseteq DOMAIN rq'[s]
                                  /\ rq'[s].cfg = rq[s].cfg
           /\ ViewIsOfItsConfig'
  <1>1. \A s \in Requests \ {r} : rq'[s] = rq[s]
    BY DEF To, ViewsInv
  <1>2. rq'[r] = [rq[r] EXCEPT !.pc = pc]
    BY DEF To, ViewsInv
  <1>3. /\ {"pc", "cfg", "snap", "got"} \subseteq DOMAIN rq'[r]
        /\ rq'[r].cfg = rq[r].cfg /\ rq'[r].pc = pc
    BY <1>2 DEF ViewsInv
  <1>4. DOMAIN rq' = Requests
    BY DEF To, ViewsInv
  <1>. QED BY <1>1, <1>3, <1>4 DEF ViewsInv, ViewIsOfItsConfig

LEMMA ViewsRefresh ==
    ASSUME ViewsInv, UNCHANGED <<config, rq>>, derived' \subseteq derived
    PROVE  ViewsInv'
  <1>1. ViewIsOfItsConfig'
    BY DEF ViewsInv, ViewIsOfItsConfig
  <1>. QED BY <1>1, ViewsKept DEF ViewsInv

LEMMA ViewsRequest ==
    ASSUME ViewsInv, NEW r \in Requests, Request(r)
    PROVE  ViewsInv'
  <1>0. config' = config
    BY DEF Request, Load, Look, DeriveView, Get, Lock, Built, notRequest
  <1>1. CASE Load(r)
    <2>1. rq' = [rq EXCEPT ![r].pc = "look", ![r].snap = current] /\ UNCHANGED derived
      BY <1>1 DEF Load
    <2>2. \A s \in Requests \ {r} : rq'[s] = rq[s]
      BY <2>1 DEF ViewsInv
    <2>3. rq'[r] = [rq[r] EXCEPT !.pc = "look", !.snap = current]
      BY <2>1 DEF ViewsInv
    <2>4. /\ {"pc", "cfg", "snap", "got"} \subseteq DOMAIN rq'[r]
          /\ rq'[r].cfg = rq[r].cfg /\ rq'[r].pc = "look"
      BY <2>3 DEF ViewsInv
    <2>5. DOMAIN rq' = Requests
      BY <2>1 DEF ViewsInv
    <2>6. ViewIsOfItsConfig'
      BY <2>2, <2>4 DEF ViewsInv, ViewIsOfItsConfig
    <2>7. \A s \in Requests : /\ {"pc", "cfg", "snap", "got"} \subseteq DOMAIN rq'[s]
                              /\ rq'[s].cfg = rq[s].cfg
      BY <2>2, <2>4 DEF ViewsInv
    <2>. QED BY <1>0, <2>1, <2>5, <2>6, <2>7, ViewsKept
  <1>2. CASE Look(r)
    <2> DEFINE gen == rq[r].snap.gen
               kept == ForConfig(derived, gen, rq[r].cfg.ver)
               rest == {d \in derived : d.gen # gen} \cup kept
    <2>1. kept \subseteq derived /\ rest \subseteq derived
      BY DEF ForConfig
    <2>2. CASE kept # {}
      <3>1. PICK d \in kept : rq' = Serve(r, d.view)
        BY <1>2, <2>2 DEF Look
      <3>2. derived' = Held(rest, current, rq')
        BY <1>2, <2>2 DEF Look
      <3>3. derived' \subseteq derived
        BY <2>1, <3>2 DEF Held
      <3>4. d \in derived /\ d.ver = rq[r].cfg.ver
        BY <3>1 DEF ForConfig
      <3>5. d.view \subseteq rq[r].cfg.public
        BY <3>4 DEF ViewsInv
      <3>. QED BY <1>0, <3>1, <3>3, <3>5, ServedIsOfItsConfig, ViewsKept
    <2>3. CASE kept = {}
      <3>1. rq' = To(r, "derive") /\ derived' = rest
        BY <1>2, <2>3 DEF Look
      <3>2. derived' \subseteq derived
        BY <2>1, <3>1
      <3>. QED BY <1>0, <3>1, <3>2, MovedIsNotServed, ViewsKept
    <2>. QED BY <2>2, <2>3
  <1>3. CASE DeriveView(r)
    <2> DEFINE snap == rq[r].snap
               view == Derive(snap, rq[r].cfg)
               fresh == [gen |-> snap.gen, ver |-> rq[r].cfg.ver, view |-> view]
               kept == {d \in derived : d.gen # snap.gen}
    <2>1. rq' = Serve(r, view) /\ derived' = Held(kept \cup {fresh}, current, rq')
      BY <1>3 DEF DeriveView
    <2>2. view \subseteq rq[r].cfg.public
      BY DEF Derive
    <2>3. derived' \subseteq derived \cup {fresh}
      BY <2>1 DEF Held
    <2>4. fresh.ver = rq[r].cfg.ver /\ fresh.view \subseteq rq[r].cfg.public
      BY <2>2
    <2>5. \A d \in derived' :
             \/ d \in derived
             \/ \E s \in Requests : d.ver = rq[s].cfg.ver /\ d.view \subseteq rq[s].cfg.public
      BY <2>3, <2>4
    <2> HIDE DEF view
    <2>. QED BY <1>0, <2>1, <2>2, <2>5, ServedIsOfItsConfig, ViewsKept
  <1>4. CASE Get(r)
    <2>1. UNCHANGED derived
      BY <1>4 DEF Get
    <2>2. CASE Fresh(rq[r].cfg.ver)
      <3>1. rq' = Serve(r, {report}) /\ {report} = {rq[r].cfg.ver}
        BY <1>4, <2>2 DEF Get, Fresh
      <3>. QED BY <1>0, <2>1, <3>1, ServedIsOfItsConfig, ViewsKept
    <2>3. CASE ~Fresh(rq[r].cfg.ver)
      <3>1. rq' = To(r, "lock")
        BY <1>4, <2>3 DEF Get
      <3>. QED BY <1>0, <2>1, <3>1, MovedIsNotServed, ViewsKept
    <2>. QED BY <2>2, <2>3
  <1>5. CASE Lock(r)
    <2>1. UNCHANGED derived
      BY <1>5 DEF Lock
    <2>2. CASE Fresh(rq[r].cfg.ver)
      <3>1. rq' = Serve(r, {report}) /\ {report} = {rq[r].cfg.ver}
        BY <1>5, <2>2 DEF Lock, Fresh
      <3>. QED BY <1>0, <2>1, <3>1, ServedIsOfItsConfig, ViewsKept
    <2>3. CASE ~Fresh(rq[r].cfg.ver)
      <3>1. rq' = To(r, "build")
        BY <1>5, <2>3 DEF Lock
      <3>. QED BY <1>0, <2>1, <3>1, MovedIsNotServed, ViewsKept
    <2>. QED BY <2>2, <2>3
  <1>6. CASE Built(r)
    <2>1. UNCHANGED derived /\ rq' = Serve(r, {rq[r].cfg.ver})
      BY <1>6 DEF Built
    <2>. QED BY <1>0, <2>1, ServedIsOfItsConfig, ViewsKept
  <1>. QED BY <1>1, <1>2, <1>3, <1>4, <1>5, <1>6 DEF Request

LEMMA ViewsStep == ViewsInv /\ [PageNext]_pageVars => ViewsInv'
  <1> SUFFICES ASSUME ViewsInv, [PageNext]_pageVars PROVE ViewsInv'
    OBVIOUS
  <1>1. ASSUME NEW c, Reload(c) PROVE ViewsInv'
    <2>1. /\ config' = [ver |-> config.ver + 1, ids |-> c.ids, public |-> c.public]
          /\ UNCHANGED <<rq, derived>>
      BY <1>1 DEF Reload, served
    <2>2. config'.ver = config.ver + 1
      BY <2>1
    <2>3. ViewIsOfItsConfig'
      BY <2>1 DEF ViewsInv, ViewIsOfItsConfig
    <2>4. config'.ver \in Nat \ {0}
      BY <2>2 DEF ViewsInv
    <2>5. \A r \in Requests :
             /\ rq[r].cfg.ver \in Nat /\ rq[r].cfg.ver <= config'.ver
             /\ rq[r].cfg.ver # config'.ver
      BY <2>2 DEF ViewsInv
    <2>6. \A d \in derived : d.ver \in Nat /\ d.ver <= config'.ver /\ d.ver # config'.ver
      BY <2>2 DEF ViewsInv
    <2>. QED BY <2>1, <2>3, <2>4, <2>5, <2>6 DEF ViewsInv
  <1>2. ASSUME NEW m, OpenIncident(m) \/ CloseIncident(m) \/ Sweep(m) PROVE ViewsInv'
    BY <1>2, ViewsRefresh DEF OpenIncident, CloseIncident, Sweep, served
  <1>3. ASSUME NEW row, Age(row) PROVE ViewsInv'
    BY <1>3, ViewsRefresh DEF Age, served
  <1>4. CASE Begin \/ Reread \/ ReadNew \/ ReadFails \/ Publish \/ Panic \/ Resume
    BY <1>4, ViewsRefresh
       DEF Begin, Reread, ReadNew, ReadFails, Publish, Panic, Resume, others
  <1>5. CASE Store
    <2>1. derived' \subseteq derived
      BY <1>5 DEF Store, Held
    <2>. QED BY <1>5, <2>1, ViewsRefresh DEF Store, others
  <1>6. CASE Write \/ Ask \/ Shown \/ Answer \/ GiveUp
    BY <1>6, ViewsRefresh DEF Write, Ask, Shown, Answer, GiveUp, notWriter
  <1>7. ASSUME NEW r \in Requests, Arrive(r) PROVE ViewsInv'
    <2>1. PICK pc \in {"load", "get"} :
             rq' = [rq EXCEPT ![r] = [pc |-> pc, cfg |-> config, snap |-> None, got |-> {}]]
      BY <1>7 DEF Arrive
    <2>2. UNCHANGED <<config, derived>>
      BY <1>7 DEF Arrive, notRequest
    <2>3. \A s \in Requests \ {r} : rq'[s] = rq[s]
      BY <2>1 DEF ViewsInv
    <2>4. rq'[r] = [pc |-> pc, cfg |-> config, snap |-> None, got |-> {}]
      BY <2>1 DEF ViewsInv
    <2>5. /\ {"pc", "cfg", "snap", "got"} \subseteq DOMAIN rq'[r]
          /\ rq'[r].cfg = config /\ rq'[r].pc # "done"
      BY <2>4
    <2>6. DOMAIN rq' = Requests
      BY <2>1 DEF ViewsInv
    <2>7. ViewIsOfItsConfig'
      BY <2>3, <2>5 DEF ViewsInv, ViewIsOfItsConfig
    <2>8. \A s \in Requests :
             /\ {"pc", "cfg", "snap", "got"} \subseteq DOMAIN rq'[s]
             /\ rq'[s].cfg = config \/ rq'[s].cfg = rq[s].cfg
      BY <2>3, <2>5 DEF ViewsInv
    <2>. QED BY <2>2, <2>6, <2>7, <2>8 DEF ViewsInv
  <1>8. ASSUME NEW r \in Requests, Request(r) PROVE ViewsInv'
    BY <1>8, ViewsRequest
  <1>9. ASSUME NEW r \in Requests, BuildFails(r) PROVE ViewsInv'
    <2>1. /\ rq' = [rq EXCEPT ![r] = [NoRequest EXCEPT !.pc = "failed"]]
          /\ UNCHANGED <<config, derived>>
      BY <1>9 DEF BuildFails, notRequest
    <2>2. \A s \in Requests \ {r} : rq'[s] = rq[s]
      BY <2>1 DEF ViewsInv
    <2>3. rq'[r] = [NoRequest EXCEPT !.pc = "failed"]
      BY <2>1 DEF ViewsInv
    <2>4. /\ {"pc", "cfg", "snap", "got"} \subseteq DOMAIN rq'[r]
          /\ rq'[r].cfg = NoConfig /\ rq'[r].pc # "done"
      BY <2>3 DEF NoRequest
    <2>5. DOMAIN rq' = Requests
      BY <2>1 DEF ViewsInv
    <2>6. ViewIsOfItsConfig'
      BY <2>2, <2>4 DEF ViewsInv, ViewIsOfItsConfig
    <2>7. \A s \in Requests :
             /\ {"pc", "cfg", "snap", "got"} \subseteq DOMAIN rq'[s]
             /\ rq'[s].cfg = NoConfig \/ rq'[s].cfg = rq[s].cfg
      BY <2>2, <2>4 DEF ViewsInv
    <2>8. NoConfig.ver = 0
      BY DEF NoConfig
    <2>9. \A s \in Requests :
             /\ rq'[s].cfg.ver \in Nat /\ rq'[s].cfg.ver <= config.ver
             /\ rq'[s].cfg.ver = 0 => rq'[s].cfg = NoConfig
             /\ rq'[s].cfg.ver = config.ver => rq'[s].cfg = config
      BY <2>7, <2>8 DEF ViewsInv
    <2>10. \A s, t \in Requests :
              rq'[s].cfg.ver = rq'[t].cfg.ver => rq'[s].cfg = rq'[t].cfg
      BY <2>7, <2>8, <2>9 DEF ViewsInv
    <2>11. \A d \in derived : \A s \in Requests :
              d.ver = rq'[s].cfg.ver => d.view \subseteq rq'[s].cfg.public
      BY <2>7, <2>8 DEF ViewsInv
    <2>. QED BY <2>1, <2>5, <2>6, <2>7, <2>9, <2>10, <2>11 DEF ViewsInv
  <1>10. CASE Expire
    BY <1>10, ViewsRefresh DEF Expire, notRequest
  <1>11. CASE UNCHANGED pageVars
    BY <1>11, ViewsRefresh DEF pageVars
  <1>. QED BY <1>1, <1>2, <1>3, <1>4, <1>5, <1>6, <1>7, <1>8, <1>9, <1>10, <1>11
           DEF PageNext, Refresh

\* A version of the configuration means one configuration to every request and memo.
THEOREM ViewsInvariant == PageSpec => []ViewsInv
  BY ViewsStart, ViewsStep, PTL DEF PageSpec

\* Nothing a reload hid is served from a memo: every view and report is as the
\* configuration of its own request has it.
THEOREM ViewsAreOfTheirConfig == PageSpec => []ViewIsOfItsConfig
  <1>1. ViewsInv => ViewIsOfItsConfig
    BY DEF ViewsInv
  <1>. QED BY <1>1, ViewsInvariant, PTL

---------------------------------------------------------------------------
(* Who is shown what *)

AudienceSpec == AudiencesInit /\ [][AudiencesNext]_audienceVars

\* How many of some positions are up to one of them.
UpTo(places, i) == Cardinality({j \in places : j <= i})

\* That count numbers the positions from one on.
LEMMA PlacesAreNumbered ==
    ASSUME NEW n \in Nat, NEW places \in SUBSET (1..n)
    PROVE  /\ IsFiniteSet(places) /\ Cardinality(places) \in Nat
           /\ \A i \in places : UpTo(places, i) \in 1..Cardinality(places)
           /\ \A i, j \in places : UpTo(places, i) = UpTo(places, j) => i = j
           /\ \A k \in 1..Cardinality(places) : \E i \in places : UpTo(places, i) = k
<1> DEFINE below(i) == {j \in places : j <= i}
           rank == [i \in places |-> Cardinality(below(i))]
           c == Cardinality(places)
<1>1. IsFiniteSet(places) /\ c \in Nat
  <2>1. IsFiniteSet(1..n)
    BY FS_Interval
  <2> QED
    BY <2>1, FS_Subset, FS_CardinalityType
<1>2. ASSUME NEW i \in places
      PROVE  IsFiniteSet(below(i)) /\ rank[i] \in 1..c
  <2>1. below(i) \subseteq places /\ i \in below(i)
    BY DEF below
  <2>2. IsFiniteSet(below(i)) /\ Cardinality(below(i)) <= c
    BY <1>1, <2>1, FS_Subset
  <2>3. Cardinality(below(i)) \in Nat /\ Cardinality(below(i)) # 0
    BY <2>1, <2>2, FS_CardinalityType, FS_EmptySet
  <2> QED
    BY <1>1, <2>2, <2>3
<1>3. ASSUME NEW i \in places, NEW j \in places, i < j
      PROVE  Cardinality(below(i)) # Cardinality(below(j))
  <2>0. i \in Int /\ j \in Int
    OBVIOUS
  <2>1. ASSUME NEW x \in places, x <= i
        PROVE  x <= j
    <3>1. x \in Int
      OBVIOUS
    <3> QED
      BY <1>3, <2>0, <2>1, <3>1
  <2>2. below(i) \subseteq below(j)
    BY <2>1
  <2>3. j \in below(j) /\ j \notin below(i)
    BY <1>3, <2>0
  <2> QED
    BY <1>2, <2>2, <2>3, FS_Subset
<1>4. \A i, j \in places : rank[i] = rank[j] => i = j
  <2>1. \A i, j \in places : i < j \/ j < i \/ i = j
    OBVIOUS
  <2>2. \A i, j \in places : i < j => rank[i] # rank[j]
    BY <1>3
  <2> HIDE DEF rank
  <2> QED
    BY <2>1, <2>2
<1>5. rank \in Injection(places, 1..c)
  <2>1. rank \in [places -> 1..c]
    BY <1>2
  <2> HIDE DEF rank
  <2> QED
    BY <1>4, <2>1 DEF Injection, IsInjective
<1>6. rank \in Surjection(places, 1..c)
  <2>1. IsFiniteSet(1..c) /\ Cardinality(1..c) = c
    <3>1. 1 \in Int /\ c \in Int
      BY <1>1
    <3>2. Cardinality(1..c) = IF 1 > c THEN 0 ELSE c - 1 + 1
      BY <3>1, FS_Interval
    <3> QED
      BY <1>1, <3>1, <3>2, FS_Interval
  <2> HIDE DEF rank
  <2> QED
    BY <1>1, <1>5, <2>1, FS_Injection
<1>7. \A k \in 1..c : \E i \in places : rank[i] = k
  <2> HIDE DEF rank
  <2> QED
    BY <1>6 DEF Surjection
<1>8. \A i \in places : rank[i] = UpTo(places, i)
  BY DEF UpTo
<1> HIDE DEF rank
<1> QED
  BY <1>1, <1>2, <1>4, <1>7, <1>8

\* The position the k-th element is taken from.
Place(places, k) == CHOOSE i \in places : UpTo(places, i) = k

\* The k-th position is a position, and k positions are up to it.
LEMMA PlacesAreTaken ==
    ASSUME NEW n \in Nat, NEW places \in SUBSET (1..n), NEW k \in 1..Cardinality(places)
    PROVE  Place(places, k) \in places /\ UpTo(places, Place(places, k)) = k
<1>1. \E i \in places : UpTo(places, i) = k
  BY PlacesAreNumbered
<1> QED
  BY <1>1 DEF Place

\* What is taken from some positions of a sequence is what stands there, in order.
LEMMA TakenAreElements ==
    ASSUME NEW S, NEW rows \in Seq(S), NEW places \in SUBSET (DOMAIN rows)
    PROVE  /\ AtPlaces(rows, places) \in Seq(S)
           /\ Len(AtPlaces(rows, places)) = Cardinality(places)
           /\ \A k \in 1..Cardinality(places) :
                /\ Place(places, k) \in places
                /\ AtPlaces(rows, places)[k] = rows[Place(places, k)]
<1> DEFINE n == Len(rows)  c == Cardinality(places)
<1>1. n \in Nat /\ DOMAIN rows = 1..n /\ places \in SUBSET (1..n)
  BY LenProperties
<1>2. c \in Nat /\ \A k \in 1..c : Place(places, k) \in places
  BY <1>1, PlacesAreNumbered, PlacesAreTaken
<1>3. AtPlaces(rows, places) = [k \in 1..c |-> rows[Place(places, k)]]
  BY DEF AtPlaces, Place, UpTo
<1>4. \A k \in 1..c : rows[Place(places, k)] \in S
  BY <1>1, <1>2, ElementOfSeq
<1> HIDE DEF c, n
<1>5. [k \in 1..c |-> rows[Place(places, k)]] \in Seq(S)
  BY <1>2, <1>4, IsASeq
<1>6. Len([k \in 1..c |-> rows[Place(places, k)]]) = c
  BY <1>2, <1>5, LenProperties
<1> QED
  BY <1>2, <1>3, <1>5, <1>6 DEF c

\* What passes a test is of the sequence and passes it.
LEMMA PassingPass ==
    ASSUME NEW S, NEW rows \in Seq(S), NEW T
    PROVE  LET passed == Passing(rows, LAMBDA row : row \in T)
           IN /\ passed \in Seq(S)
              /\ \A row \in ToSet(passed) : row \in ToSet(rows) /\ row \in T
<1> DEFINE places == {i \in DOMAIN rows : rows[i] \in T}
<1>1. Passing(rows, LAMBDA row : row \in T) = AtPlaces(rows, places)
  BY DEF Passing
<1>2. DOMAIN rows = 1..Len(rows)
  BY LenProperties
<1>3. /\ AtPlaces(rows, places) \in Seq(S)
      /\ Len(AtPlaces(rows, places)) = Cardinality(places)
      /\ \A k \in 1..Cardinality(places) :
           /\ Place(places, k) \in places
           /\ AtPlaces(rows, places)[k] = rows[Place(places, k)]
  BY TakenAreElements
<1> DEFINE passed == AtPlaces(rows, places)
<1>4. DOMAIN passed = 1..Cardinality(places)
  BY <1>3, LenProperties
<1>5. ASSUME NEW row \in ToSet(passed)
      PROVE  row \in ToSet(rows) /\ row \in T
  <2>1. PICK k \in 1..Cardinality(places) : row = passed[k]
    BY <1>4 DEF ToSet
  <2>2. row = rows[Place(places, k)] /\ Place(places, k) \in places
    BY <1>3, <2>1
  <2> QED
    BY <2>2 DEF ToSet
<1> QED
  BY <1>1, <1>3, <1>5

\* What is taken from the first m elements only.
FirstTaken(rows, m, places) == AtPlaces(SubSeq(rows, 1, m), places \cap (1..m))

\* The first elements of a prefix are the first elements.
LEMMA PrefixIsTaken ==
    ASSUME NEW S, NEW rows \in Seq(S), NEW m \in 0..Len(rows),
           NEW places \in SUBSET (DOMAIN rows)
    PROVE  /\ FirstTaken(rows, m, places) \in Seq(S)
           /\ Len(FirstTaken(rows, m, places)) <= Cardinality(places)
           /\ \A k \in 1..Len(FirstTaken(rows, m, places)) :
                   /\ Place(places, k) \in 1..m
                   /\ FirstTaken(rows, m, places)[k] = rows[Place(places, k)]
<1> DEFINE n == Len(rows)
           first == places \cap (1..m)
           head == SubSeq(rows, 1, m)
           short == AtPlaces(head, first)
<1>1. n \in Nat /\ DOMAIN rows = 1..n /\ places \in SUBSET (1..n) /\ m \in Nat /\ m <= n
  BY LenProperties
<1>2. head \in Seq(S) /\ Len(head) = m /\ \A i \in 1..m : head[i] = rows[i]
  <2>1. head \in Seq(S) /\ Len(head) = (IF 1 <= m THEN m - 1 + 1 ELSE 0)
    BY <1>1, SubSeqProperties
  <2>2. \A i \in 1..m : head[i] = rows[1 + i - 1]
    BY <1>1, SubSeqProperties
  <2> QED
    BY <1>1, <2>1, <2>2
<1>3. DOMAIN head = 1..m
  BY <1>2, LenProperties
<1>4. /\ short \in Seq(S) /\ Len(short) = Cardinality(first)
      /\ \A k \in 1..Cardinality(first) :
           Place(first, k) \in first /\ short[k] = head[Place(first, k)]
  <2> HIDE DEF head
  <2>1. first \in SUBSET (DOMAIN head)
    BY <1>3
  <2> HIDE DEF first
  <2> QED
    BY <1>2, <2>1, TakenAreElements
<1>5. first \in SUBSET (1..n) /\ first \subseteq places
  BY <1>1
<1>6. Cardinality(first) \in Nat /\ Cardinality(places) \in Nat /\ Cardinality(first) <= Cardinality(places)
  <2> HIDE DEF first
  <2>1. IsFiniteSet(places)
    BY <1>1, PlacesAreNumbered
  <2> QED
    BY <2>1, <1>5, FS_Subset, FS_CardinalityType
<1>7. ASSUME NEW k \in 1..Cardinality(first)
      PROVE  Place(places, k) = Place(first, k)
  <2> DEFINE i == Place(first, k)
  <2>1. i \in first /\ UpTo(first, i) = k
    <3> HIDE DEF first
    <3> QED
      BY <1>1, <1>5, PlacesAreTaken
  <2>2. {j \in first : j <= i} = {j \in places : j <= i}
    <3> HIDE DEF i
    <3>1. i \in 1..m
      BY <2>1
    <3>2. ASSUME NEW j \in places, j <= i
          PROVE  j \in first
      <4>1. j \in 1..n
        BY <1>1
      <4> QED
        BY <1>1, <3>1, <3>2, <4>1
    <3> QED
      BY <1>5, <3>2
  <2>3. UpTo(places, i) = k
    BY <2>1, <2>2 DEF UpTo
  <2>4. k \in 1..Cardinality(places)
    BY <1>6
  <2>5. Place(places, k) \in places /\ UpTo(places, Place(places, k)) = k
    BY <1>1, <2>4, PlacesAreTaken
  <2> HIDE DEF i, first
  <2>6. i \in places
    BY <1>5, <2>1
  <2>7. \A p, q \in places : UpTo(places, p) = UpTo(places, q) => p = q
    BY <1>1, PlacesAreNumbered
  <2>8. Place(places, k) = i
    BY <2>3, <2>5, <2>6, <2>7
  <2> QED
    BY <2>8 DEF i
<1>8. ASSUME NEW k \in 1..Len(short)
      PROVE  Place(places, k) \in 1..m /\ short[k] = rows[Place(places, k)]
  <2>1. k \in 1..Cardinality(first)
    BY <1>4
  <2>2. Place(first, k) \in 1..m
    BY <1>4, <2>1
  <2> HIDE DEF first, head, short
  <2> QED
    BY <1>2, <1>4, <1>7, <2>1, <2>2
<1> HIDE DEF short
<1>9. Len(short) <= Cardinality(places)
  BY <1>4, <1>6
<1>10. short = FirstTaken(rows, m, places)
  BY DEF short, FirstTaken
<1> QED
  BY <1>4, <1>8, <1>9, <1>10

\* The first elements are elements.
LEMMA NewestAre ==
    ASSUME NEW S, NEW q \in Seq(S), NEW n \in Nat
    PROVE  /\ Newest(q, n) \in Seq(S)
           /\ Len(Newest(q, n)) = IF n < Len(q) THEN n ELSE Len(q)
           /\ \A i \in 1..Len(Newest(q, n)) : Newest(q, n)[i] = q[i]
<1> DEFINE m == IF n < Len(q) THEN n ELSE Len(q)
<1>1. Len(q) \in Nat /\ m \in Nat /\ m <= Len(q)
  BY LenProperties
<1>2. Newest(q, n) = SubSeq(q, 1, m)
  BY DEF Newest
<1> HIDE DEF m
<1>3. SubSeq(q, 1, m) \in Seq(S) /\ Len(SubSeq(q, 1, m)) = (IF 1 <= m THEN m - 1 + 1 ELSE 0)
  BY <1>1, SubSeqProperties
<1>4. \A i \in 1..m : SubSeq(q, 1, m)[i] = q[1 + i - 1]
  BY <1>1, SubSeqProperties
<1>5. Len(SubSeq(q, 1, m)) = m
  BY <1>1, <1>3
<1> QED
  BY <1>1, <1>2, <1>3, <1>4, <1>5 DEF m

\* A sequence is one of its own elements.
LEMMA OfItsOwn ==
    ASSUME NEW S, NEW q \in Seq(S)
    PROVE  q \in Seq(ToSet(q)) /\ ToSet(q) \subseteq S
<1>1. DOMAIN q = 1..Len(q) /\ Len(q) \in Nat /\ q = [i \in 1..Len(q) |-> q[i]]
  BY LenProperties
<1>2. \A i \in 1..Len(q) : q[i] \in ToSet(q) /\ q[i] \in S
  BY <1>1, ElementOfSeq DEF ToSet
<1>3. [i \in 1..Len(q) |-> q[i]] \in Seq(ToSet(q))
  BY <1>1, <1>2, IsASeq
<1> QED
  BY <1>1, <1>2, <1>3 DEF ToSet

\* Sequences that agree as far as the shorter goes.
LEMMA PrefixByElements ==
    ASSUME NEW S, NEW q \in Seq(S), NEW T, NEW r \in Seq(T), Len(q) <= Len(r),
           \A i \in 1..Len(q) : q[i] = r[i]
    PROVE  IsPrefix(q, r)
<1> DEFINE n == Len(q)
<1>1. n \in Nat /\ Len(r) \in Nat
  BY LenProperties
<1>2. /\ SubSeq(q, 1, n) \in Seq(S) /\ Len(SubSeq(q, 1, n)) = (IF 1 <= n THEN n - 1 + 1 ELSE 0)
      /\ \A i \in 1..n : SubSeq(q, 1, n)[i] = q[1 + i - 1]
  BY <1>1, SubSeqProperties
<1>3. /\ SubSeq(r, 1, n) \in Seq(T) /\ Len(SubSeq(r, 1, n)) = (IF 1 <= n THEN n - 1 + 1 ELSE 0)
      /\ \A i \in 1..n : SubSeq(r, 1, n)[i] = r[1 + i - 1]
  BY <1>1, SubSeqProperties
<1>4. Len(SubSeq(q, 1, n)) = n /\ Len(SubSeq(r, 1, n)) = n
  BY <1>1, <1>2, <1>3
<1>5. \A i \in 1..n : SubSeq(q, 1, n)[i] = SubSeq(r, 1, n)[i]
  BY <1>1, <1>2, <1>3
<1>6. SubSeq(q, 1, n) = SubSeq(r, 1, n)
  <2> DEFINE x == SubSeq(q, 1, n)  y == SubSeq(r, 1, n)
  <2>1. x \in Seq(S) /\ y \in Seq(T) /\ Len(x) = Len(y) /\ \A i \in 1..Len(x) : x[i] = y[i]
    BY <1>2, <1>3, <1>4, <1>5
  <2>2. x \in Seq(S \cup T) /\ y \in Seq(S \cup T)
    <3>1. Seq(S) \subseteq Seq(S \cup T) /\ Seq(T) \subseteq Seq(S \cup T)
      OBVIOUS
    <3> QED
      BY <2>1, <3>1
  <2> HIDE DEF x, y
  <2>3. x = y
    BY <2>1, <2>2, SeqEqual
  <2> QED
    BY <2>3 DEF x, y
<1> QED
  BY <1>6 DEF IsPrefix

\* A part of a log, and a log with a row more.
LEMMA LogsAreKept ==
    ASSUME NEW rows, IsLog(rows)
    PROVE  /\ \A n \in Nat : IsLog(Newest(rows, n))
           /\ \A row : IsRow(row) => IsLog(<<row>> \o rows)
<1>1. rows \in Seq(ToSet(rows)) /\ \A row \in ToSet(rows) : IsRow(row)
  BY DEF IsLog
<1>2. ASSUME NEW n \in Nat
      PROVE  IsLog(Newest(rows, n))
  <2>1. Newest(rows, n) \in Seq(ToSet(rows))
    BY <1>1, NewestAre
  <2>2. Newest(rows, n) \in Seq(ToSet(Newest(rows, n))) /\ ToSet(Newest(rows, n)) \subseteq ToSet(rows)
    BY <2>1, OfItsOwn
  <2> QED
    BY <1>1, <2>2 DEF IsLog
<1>3. ASSUME NEW row, IsRow(row)
      PROVE  IsLog(<<row>> \o rows)
  <2> DEFINE S == {row} \cup ToSet(rows)  more == <<row>> \o rows
  <2>1. rows \in Seq(S) /\ <<row>> \in Seq(S)
    <3>1. Seq(ToSet(rows)) \subseteq Seq(S)
      OBVIOUS
    <3> QED
      BY <1>1, <3>1
  <2> HIDE DEF S
  <2>2. more \in Seq(S)
    BY <2>1, ConcatProperties
  <2> HIDE DEF more
  <2>3. more \in Seq(ToSet(more)) /\ ToSet(more) \subseteq S
    BY <2>2, OfItsOwn
  <2>4. \A r \in ToSet(more) : IsRow(r)
    BY <1>1, <1>3, <2>3 DEF S
  <2> QED
    BY <2>3, <2>4 DEF IsLog, more
<1> QED
  BY <1>2, <1>3

\* What an audience reads of a log.
ReadBy(s, a, rows) ==
    {Sanitized(s, a, row) : row \in {r \in ToSet(rows) : CanSee(s, a, r.monitor)}}

\* The rows left are those an audience may see, sanitized.
LEMMA FilteredAre ==
    ASSUME NEW s, NEW a, NEW rows, IsLog(rows)
    PROVE  FilterRows(s, a, rows) \in Seq(ReadBy(s, a, rows))
<1> DEFINE places == {i \in DOMAIN rows : CanSee(s, a, rows[i].monitor)}
           seen == AtPlaces(rows, places)
           R == ReadBy(s, a, rows)
<1>1. rows \in Seq(ToSet(rows))
  BY DEF IsLog
<1>2. /\ seen \in Seq(ToSet(rows)) /\ Len(seen) = Cardinality(places)
      /\ \A k \in 1..Cardinality(places) :
           Place(places, k) \in places /\ seen[k] = rows[Place(places, k)]
  BY <1>1, TakenAreElements
<1>3. FilterRows(s, a, rows) = [i \in DOMAIN seen |-> Sanitized(s, a, seen[i])]
  BY DEF FilterRows, Passing
<1>4. DOMAIN seen = 1..Len(seen) /\ Len(seen) \in Nat
  BY <1>2, LenProperties
<1>5. ASSUME NEW k \in 1..Len(seen)
      PROVE  Sanitized(s, a, seen[k]) \in R
  <2>1. Place(places, k) \in places /\ seen[k] = rows[Place(places, k)]
    BY <1>2
  <2>2. rows[Place(places, k)] \in ToSet(rows) /\ CanSee(s, a, rows[Place(places, k)].monitor)
    BY <2>1 DEF ToSet
  <2> HIDE DEF seen, places
  <2> QED
    BY <2>1, <2>2 DEF ReadBy
<1> HIDE DEF seen, R
<1>6. [i \in 1..Len(seen) |-> Sanitized(s, a, seen[i])] \in Seq(R)
  BY <1>4, <1>5, IsASeq
<1> QED
  BY <1>3, <1>4, <1>6 DEF R

\* What is left of the newest rows comes first in what is left of all.
LEMMA FilteredComeFirst ==
    ASSUME NEW s, NEW a, NEW rows, IsLog(rows), NEW m \in 0..Len(rows)
    PROVE  LET short == FilterRows(s, a, SubSeq(rows, 1, m))
               all == FilterRows(s, a, rows)
           IN /\ Len(short) <= Len(all)
              /\ \A k \in 1..Len(short) : short[k] = all[k]
<1> DEFINE places == {i \in DOMAIN rows : CanSee(s, a, rows[i].monitor)}
           head == SubSeq(rows, 1, m)
           first == places \cap (1..m)
           seen == AtPlaces(rows, places)
           part == AtPlaces(head, first)
<1>1. rows \in Seq(ToSet(rows)) /\ Len(rows) \in Nat /\ DOMAIN rows = 1..Len(rows)
  BY LenProperties DEF IsLog
<1>2. /\ seen \in Seq(ToSet(rows)) /\ Len(seen) = Cardinality(places)
      /\ \A k \in 1..Cardinality(places) : seen[k] = rows[Place(places, k)]
  BY <1>1, TakenAreElements
<1>3. /\ part \in Seq(ToSet(rows)) /\ Len(part) <= Cardinality(places)
      /\ \A k \in 1..Len(part) : part[k] = rows[Place(places, k)]
  <2>1. places \in SUBSET (DOMAIN rows)
    OBVIOUS
  <2> HIDE DEF places
  <2>2. /\ FirstTaken(rows, m, places) \in Seq(ToSet(rows))
        /\ Len(FirstTaken(rows, m, places)) <= Cardinality(places)
        /\ \A k \in 1..Len(FirstTaken(rows, m, places)) :
                /\ Place(places, k) \in 1..m
                /\ FirstTaken(rows, m, places)[k] = rows[Place(places, k)]
    BY <1>1, <2>1, PrefixIsTaken
  <2>3. part = FirstTaken(rows, m, places)
    BY DEF FirstTaken
  <2> QED
    BY <2>2, <2>3
<1>4. DOMAIN seen = 1..Len(seen) /\ Len(seen) \in Nat /\ DOMAIN part = 1..Len(part) /\ Len(part) \in Nat
  BY <1>2, <1>3, LenProperties
<1>5. first = {i \in DOMAIN head : CanSee(s, a, head[i].monitor)}
  <2>1. head \in Seq(ToSet(rows)) /\ Len(head) = (IF 1 <= m THEN m - 1 + 1 ELSE 0)
        /\ \A i \in 1..m : head[i] = rows[1 + i - 1]
    BY <1>1, SubSeqProperties
  <2>2. DOMAIN head = 1..m /\ \A i \in 1..m : head[i] = rows[i] /\ i \in DOMAIN rows
    BY <1>1, <2>1, LenProperties
  <2> HIDE DEF head
  <2> QED
    BY <2>2
<1>6. FilterRows(s, a, rows) = [i \in DOMAIN seen |-> Sanitized(s, a, seen[i])]
  BY DEF FilterRows, Passing
<1>7. FilterRows(s, a, head) = [i \in DOMAIN part |-> Sanitized(s, a, part[i])]
  BY <1>5 DEF FilterRows, Passing
<1> DEFINE all == FilterRows(s, a, rows)
           short == FilterRows(s, a, head)
<1>8. /\ Len(all) = Len(seen) /\ Len(short) = Len(part)
      /\ \A k \in 1..Len(seen) : all[k] = Sanitized(s, a, seen[k])
      /\ \A k \in 1..Len(part) : short[k] = Sanitized(s, a, part[k])
  <2> DEFINE A == {Sanitized(s, a, seen[i]) : i \in 1..Len(seen)}
             P == {Sanitized(s, a, part[i]) : i \in 1..Len(part)}
  <2>1. all = [i \in 1..Len(seen) |-> Sanitized(s, a, seen[i])]
        /\ short = [i \in 1..Len(part) |-> Sanitized(s, a, part[i])]
    BY <1>4, <1>6, <1>7
  <2> HIDE DEF seen, part, all, short
  <2>2. [i \in 1..Len(seen) |-> Sanitized(s, a, seen[i])] \in Seq(A)
    BY <1>4, IsASeq
  <2>3. [i \in 1..Len(part) |-> Sanitized(s, a, part[i])] \in Seq(P)
    BY <1>4, IsASeq
  <2>4. Len(all) = Len(seen) /\ Len(short) = Len(part)
    BY <1>4, <2>1, <2>2, <2>3, LenProperties
  <2> QED
    BY <2>1, <2>4
<1> HIDE DEF all, short, seen, part, places
<1>9. Len(short) <= Len(all) /\ \A k \in 1..Len(short) : short[k] = all[k]
  BY <1>2, <1>3, <1>4, <1>8
<1> QED
  BY <1>9 DEF all, short

(* Who may read *)

\* The request under way is one that was received.
VisitOK ==
    /\ visit = [pc |-> visit.pc, page |-> visit.page, arg |-> visit.arg, bearer |-> visit.bearer,
                query |-> visit.query, site |-> visit.site, window |-> visit.window]
    /\ visit.site \in Sites /\ visit.window \in Nat
    /\ visit.page = "group" => visit.arg \in Groups
    /\ visit.page = "report" => visit.arg \in Groups \cup {NoName}

\* The groups of a site are groups.
LEMMA GroupsAre ==
    ASSUME NEW s \in Sites, NEW id
    PROVE  GroupOf(s, id) \in Groups \cup {NoName}
<1> DEFINE g == s.monitors[id].group
           own(t) == {t.monitors[m].group : m \in MonitorsOf(t)}
<1>1. CASE id \in MonitorsOf(s)
  <2>1. g \in own(s) /\ own(s) \in {own(t) : t \in Sites}
    BY <1>1
  <2>2. g \in UNION {own(t) : t \in Sites}
    BY <2>1
  <2>3. Groups = (UNION {own(t) : t \in Sites}) \ {NoName}
    BY DEF Groups
  <2>4. GroupOf(s, id) = g
    BY <1>1 DEF GroupOf
  <2> HIDE DEF g, own
  <2> QED
    BY <2>2, <2>3, <2>4
<1>2. CASE id \notin MonitorsOf(s)
  BY <1>2 DEF GroupOf
<1> QED
  BY <1>1, <1>2

\* The operator's audience takes the operator's token.
LEMMA OperatorHolds ==
    ASSUME IsOperator(visit)
    PROVE  HoldsOperatorToken
  BY DEF IsOperator, Matches, Expected, HoldsOperatorToken

\* The audience of a page is the public, the operator with its token, or the
\* group whose page it is with the token of the group.
LEMMA AudienceIs ==
    ASSUME VisitOK
    PROVE  LET a == PageAudience(visit)
           IN \/ a = "public"
              \/ a = "operator" /\ HoldsOperatorToken
              \/ a \in Groups /\ OwnPageOf(a) /\ a \in {visit.bearer, visit.query}
<1> DEFINE a == PageAudience(visit)
<1>1. ASSUME NEW g \in Groups \cup {NoName}
      PROVE  LET b == AudienceForGroup(visit, g)
             IN \/ b = "public"
                \/ b = "operator" /\ HoldsOperatorToken
                \/ b = g /\ g # NoName /\ g \in Groups /\ g \in {visit.bearer, visit.query}
  BY OperatorHolds DEF AudienceForGroup, Matches, Presented
<1>2. CASE visit.page \in {"group", "report"}
  <2>1. a = AudienceForGroup(visit, visit.arg) /\ visit.arg \in Groups \cup {NoName}
    BY <1>2 DEF PageAudience, VisitOK
  <2> HIDE DEF a
  <2> QED
    BY <1>1, <1>2, <2>1 DEF a, OwnPageOf
<1>3. CASE visit.page = "monitor"
  <2>1. a = AudienceForGroup(visit, GroupOf(visit.site, visit.arg))
    BY <1>3 DEF PageAudience
  <2>2. GroupOf(visit.site, visit.arg) \in Groups \cup {NoName}
    BY GroupsAre DEF VisitOK
  <2> HIDE DEF a
  <2> QED
    BY <1>1, <1>3, <2>1, <2>2 DEF a, OwnPageOf
<1>4. CASE visit.page \notin {"group", "report", "monitor"}
  <2>1. a = "public" \/ a = AudienceOf(visit)
    BY <1>4 DEF PageAudience
  <2> QED
    BY <2>1, OperatorHolds DEF AudienceOf
<1> QED
  BY <1>2, <1>3, <1>4

\* What an audience sees, and sees in detail, its reader may read.
LEMMA Entitled ==
    ASSUME VisitOK, ~HoldsOperatorToken
    PROVE  LET s == visit.site
               a == PageAudience(visit)
           IN /\ a # "operator"
              /\ \A id : CanSee(s, a, id) => MayKnow(id)
              /\ \A id : CanName(s, a, id) => MayKnow(id)
              /\ \A id : HasDetail(s, a, id) => MayReadDetail(id)
              /\ \A id : IsPublished(s, a, id)
                    => MayReadDetail(id) /\ visit.site.monitors[id].published
<1> DEFINE s == visit.site
           a == PageAudience(visit)
<1>1. /\ a # "operator"
      /\ a = "public" \/ (a \in Groups /\ OwnPageOf(a) /\ a \in {visit.bearer, visit.query})
  <2>1. \/ a = "public"
        \/ a = "operator" /\ HoldsOperatorToken
        \/ a \in Groups /\ OwnPageOf(a) /\ a \in {visit.bearer, visit.query}
    BY AudienceIs
  <2> HIDE DEF a
  <2> QED
    BY <2>1, AudienceAssumption DEF AudienceAssumption
<1> HIDE DEF a
<1>2. ASSUME NEW id \in MonitorsOf(s), InGroup(s, a, id)
      PROVE  LET group == GroupOf(s, id)
             IN OwnPageOf(group) /\ group \in {visit.bearer, visit.query}
  <2>1. a = GroupOf(s, id) /\ a # NoName
    BY <1>2 DEF InGroup, GroupOf
  <2>2. a # "public"
    <3>1. a \in Groups
      BY <2>1, GroupsAre DEF VisitOK
    <3> QED
      BY <3>1, AudienceAssumption DEF AudienceAssumption
  <2> QED
    BY <1>1, <2>1, <2>2
<1>3. ASSUME NEW id \in Visible(s, a) PROVE MayKnow(id)
  <2>1. id \in MonitorsOf(s) /\ (s.monitors[id].public \/ InGroup(s, a, id))
    BY DEF Visible
  <2> QED
    BY <1>2, <2>1 DEF MayKnow
<1>4. ASSUME NEW id \in Published(s, a)
      PROVE  MayReadDetail(id) /\ s.monitors[id].published
  <2>1. id \in Visible(s, a) /\ s.monitors[id].public /\ s.monitors[id].published
    BY DEF Published
  <2> QED
    BY <1>3, <2>1 DEF MayReadDetail
<1>5. ASSUME NEW id \in Detailed(s, a) PROVE MayReadDetail(id)
  <2>1. CASE id \in Published(s, a)
    BY <1>4, <2>1
  <2>2. CASE id \in Visible(s, a) /\ InGroup(s, a, id)
    <3>1. id \in MonitorsOf(s) /\ MayKnow(id)
      BY <1>3, <2>2 DEF Visible
    <3> QED
      BY <1>2, <2>2, <3>1 DEF MayReadDetail
  <2> QED
    BY <2>1, <2>2 DEF Detailed
<1>6. /\ \A id : CanSee(s, a, id) => id \in Visible(s, a)
      /\ \A id : CanName(s, a, id) => id \in Visible(s, a)
      /\ \A id : HasDetail(s, a, id) => id \in Detailed(s, a)
      /\ \A id : IsPublished(s, a, id) => id \in Published(s, a)
  BY <1>1 DEF CanSee, CanName, HasDetail, IsPublished
<1> QED
  BY <1>1, <1>3, <1>4, <1>5, <1>6 DEF a

(* What they are answered *)

\* A card, and a row, that name and tell only what their reader may read.
KnownCard(id, card) ==
    /\ \A d \in ({id, card.cause} \cup card.impacted) \ {NoName} : MayKnow(d)
    /\ card.raw => MayReadDetail(id)

KnownRow(r) ==
    /\ \A d \in ({r.monitor, r.cause} \cup r.impacted) \ {NoName} : MayKnow(d)
    /\ r.raw => MayReadDetail(r.monitor)
    /\ r.event => HoldsOperatorToken \/ /\ MayReadDetail(r.monitor)
                                        /\ visit.site.monitors[r.monitor].published

FitsReader(what) ==
    /\ \A id \in DOMAIN what.cards : KnownCard(id, what.cards[id])
    /\ \A r \in ToSet(what.rows) : KnownRow(r)
    /\ what.streams => HoldsOperatorToken

\* The operator may read anything.
LEMMA OperatorReadsAll ==
    ASSUME HoldsOperatorToken, NEW what
    PROVE  FitsReader(what)
  BY DEF FitsReader, KnownCard, KnownRow, MayKnow, MayReadDetail

\* The cause named is one that may be.
LEMMA CauseMayBeNamed ==
    ASSUME NEW s, NEW a, NEW lv, NEW id
    PROVE  /\ Cause(s, a, lv, id) # NoName => CanName(s, a, Cause(s, a, lv, id))
           /\ \A d \in Impacted(s, a, lv, id) : CanName(s, a, d)
<1> DEFINE named == {u \in UpstreamsOf(s, id) : IsDown(lv, u) /\ CanName(s, a, u)}
           nearest == {u \in named : named \ {u} \subseteq UpstreamsOf(s, u)}
<1>1. Cause(s, a, lv, id) = IF IsDown(lv, id) /\ nearest # {} THEN CHOOSE u \in nearest : TRUE
                                                             ELSE NoName
  BY DEF Cause
<1>2. nearest # {} => (CHOOSE u \in nearest : TRUE) \in nearest
  <2> HIDE DEF nearest
  <2> QED
    OBVIOUS
<1>3. \A u \in nearest : CanName(s, a, u)
  OBVIOUS
<1>4. Cause(s, a, lv, id) # NoName => CanName(s, a, Cause(s, a, lv, id))
  <2> HIDE DEF nearest
  <2> QED
    BY <1>1, <1>2, <1>3
<1>5. \A d \in Impacted(s, a, lv, id) : CanName(s, a, d)
  <2>1. Impacted(s, a, lv, id) \in {{}, {d \in DependentsOf(s, id) : CanName(s, a, d)}}
    BY DEF Impacted
  <2> QED
    BY <2>1
<1> QED
  BY <1>4, <1>5

\* A card made for the audience of the request.
LEMMA CardsAreKnown ==
    ASSUME VisitOK, ~HoldsOperatorToken, NEW lv, NEW open, NEW group, NEW id,
           CanSee(visit.site, PageAudience(visit), id)
    PROVE  KnownCard(id, Card(visit.site, PageAudience(visit), lv, open, group, id))
<1> DEFINE s == visit.site
           a == PageAudience(visit)
           card == Card(s, a, lv, open, group, id)
<1>1. /\ card.cause = Cause(s, a, lv, id) /\ card.impacted = Impacted(s, a, lv, id)
      /\ card.raw = HasDetail(s, a, id)
  BY DEF Card
<1>2. /\ \A d : CanSee(s, a, d) => MayKnow(d)
      /\ \A d : CanName(s, a, d) => MayKnow(d)
      /\ \A d : HasDetail(s, a, d) => MayReadDetail(d)
  BY Entitled
<1>3. /\ card.cause # NoName => CanName(s, a, card.cause)
      /\ \A d \in card.impacted : CanName(s, a, d)
  BY <1>1, CauseMayBeNamed
<1>4. CanSee(s, a, id)
  OBVIOUS
<1> HIDE DEF s, a, card
<1>5. \A d \in ({id, card.cause} \cup card.impacted) \ {NoName} : MayKnow(d)
  BY <1>2, <1>3, <1>4
<1>6. card.raw => MayReadDetail(id)
  BY <1>1, <1>2
<1> QED
  BY <1>5, <1>6 DEF KnownCard, s, a, card

\* A row sanitized for the audience of the request.
LEMMA RowsAreKnown ==
    ASSUME VisitOK, ~HoldsOperatorToken, NEW row, IsRow(row),
           CanSee(visit.site, PageAudience(visit), row.monitor)
    PROVE  /\ KnownRow(Sanitized(visit.site, PageAudience(visit), row))
           /\ Sanitized(visit.site, PageAudience(visit), row).monitor = row.monitor
<1> DEFINE s == visit.site
           a == PageAudience(visit)
           r == Sanitized(s, a, row)
<1>1. /\ r.monitor = row.monitor /\ r.raw = HasDetail(s, a, row.monitor)
      /\ r.event = IsPublished(s, a, row.monitor)
      /\ r.cause = (IF CanName(s, a, row.cause) THEN row.cause ELSE NoName)
      /\ r.impacted = {d \in row.impacted : CanName(s, a, d)}
  <2> HIDE DEF s, a
  <2>1. row = [id |-> row.id, monitor |-> row.monitor, ended |-> row.ended, cause |-> row.cause,
               impacted |-> row.impacted, raw |-> TRUE, event |-> TRUE]
    BY DEF IsRow, Row
  <2>2. r = [row EXCEPT !.raw = HasDetail(s, a, row.monitor),
                        !.event = IsPublished(s, a, row.monitor),
                        !.cause = IF CanName(s, a, @) THEN @ ELSE NoName,
                        !.impacted = {id \in @ : CanName(s, a, id)}]
    BY DEF Sanitized
  <2> QED
    BY <2>1, <2>2
<1>2. /\ \A d : CanSee(s, a, d) => MayKnow(d)
      /\ \A d : CanName(s, a, d) => MayKnow(d)
      /\ \A d : HasDetail(s, a, d) => MayReadDetail(d)
      /\ \A d : IsPublished(s, a, d) => MayReadDetail(d) /\ visit.site.monitors[d].published
  BY Entitled
<1>3. CanSee(s, a, row.monitor)
  OBVIOUS
<1> HIDE DEF s, a, r
<1>4. \A d \in ({r.monitor, r.cause} \cup r.impacted) \ {NoName} : MayKnow(d)
  BY <1>1, <1>2, <1>3
<1>5. r.raw => MayReadDetail(r.monitor)
  BY <1>1, <1>2
<1>6. r.event => MayReadDetail(r.monitor) /\ visit.site.monitors[r.monitor].published
  BY <1>1, <1>2
<1> QED
  BY <1>1, <1>4, <1>5, <1>6 DEF KnownRow, s, a, r

\* And a log filtered for it.
LEMMA LogsAreKnown ==
    ASSUME VisitOK, ~HoldsOperatorToken, NEW rows, IsLog(rows)
    PROVE  \A r \in ReadBy(visit.site, PageAudience(visit), rows) : KnownRow(r)
  BY RowsAreKnown DEF ReadBy, IsLog

\* Some rows of a log are a log.
LEMMA PartsAreLogs ==
    ASSUME NEW rows, IsLog(rows), NEW places \in SUBSET (DOMAIN rows)
    PROVE  IsLog(AtPlaces(rows, places)) /\ ToSet(AtPlaces(rows, places)) \subseteq ToSet(rows)
<1>1. rows \in Seq(ToSet(rows)) /\ \A row \in ToSet(rows) : IsRow(row)
  BY DEF IsLog
<1>2. AtPlaces(rows, places) \in Seq(ToSet(rows))
  BY <1>1, TakenAreElements
<1>3. /\ AtPlaces(rows, places) \in Seq(ToSet(AtPlaces(rows, places)))
      /\ ToSet(AtPlaces(rows, places)) \subseteq ToSet(rows)
  BY <1>2, OfItsOwn
<1> QED
  BY <1>1, <1>3 DEF IsLog

\* A log filtered, and then cut or searched, is readable.
LEMMA FilteredAreKnown ==
    ASSUME VisitOK, ~HoldsOperatorToken, NEW rows, IsLog(rows)
    PROVE  LET seen == FilterRows(visit.site, PageAudience(visit), rows)
           IN /\ \A r \in ToSet(seen) : KnownRow(r)
              /\ seen \in Seq(ToSet(seen))
              /\ \A n \in Nat : \A r \in ToSet(Newest(seen, n)) : KnownRow(r)
              /\ \A places \in SUBSET (DOMAIN seen) : \A r \in ToSet(AtPlaces(seen, places)) : KnownRow(r)
<1> DEFINE seen == FilterRows(visit.site, PageAudience(visit), rows)
           S == ReadBy(visit.site, PageAudience(visit), rows)
<1>1. seen \in Seq(S) /\ \A r \in S : KnownRow(r)
  BY FilteredAre, LogsAreKnown
<1> HIDE DEF seen, S
<1>2. seen \in Seq(ToSet(seen)) /\ ToSet(seen) \subseteq S
  BY <1>1, OfItsOwn
<1>3. ASSUME NEW n \in Nat
      PROVE  ToSet(Newest(seen, n)) \subseteq S
  <2>1. Newest(seen, n) \in Seq(S)
    BY <1>1, NewestAre
  <2> QED
    BY <2>1, OfItsOwn
<1>4. ASSUME NEW places \in SUBSET (DOMAIN seen)
      PROVE  ToSet(AtPlaces(seen, places)) \subseteq S
  <2>1. AtPlaces(seen, places) \in Seq(S)
    BY <1>1, TakenAreElements
  <2> QED
    BY <2>1, OfItsOwn
<1>5. /\ \A r \in ToSet(seen) : KnownRow(r)
      /\ \A n \in Nat : \A r \in ToSet(Newest(seen, n)) : KnownRow(r)
      /\ \A places \in SUBSET (DOMAIN seen) : \A r \in ToSet(AtPlaces(seen, places)) : KnownRow(r)
  BY <1>1, <1>2, <1>3, <1>4
<1> QED
  BY <1>2, <1>5 DEF seen

\* An answer whose marks are those of its cards, and fit to be read.
Honest(what) ==
    what.kind = "found" =>
        /\ FitsReader(what)
        /\ what.overall = Overall(what.cards)
        /\ what.quiet => Quiet(what.cards)

\* The parts of an answer.
LEMMA FoundIs ==
    ASSUME NEW cards, NEW rows, NEW streams
    PROVE  LET what == Found(cards, rows, streams)
           IN /\ what.kind = "found" /\ what.cards = cards /\ what.rows = rows
              /\ what.streams = streams /\ what.overall = Overall(cards)
              /\ what.quiet = Quiet(cards) /\ what.banners = {}
  BY DEF Found

\* What is found is honest once its cards and rows may be read.
LEMMA FoundIsHonest ==
    ASSUME NEW cards, NEW rows, NEW streams,
           \/ HoldsOperatorToken
           \/ /\ \A id \in DOMAIN cards : KnownCard(id, cards[id])
              /\ \A r \in ToSet(rows) : KnownRow(r)
              /\ ~streams
    PROVE  Honest(Found(cards, rows, streams))
<1>1. FitsReader(Found(cards, rows, streams))
  <2>1. CASE HoldsOperatorToken
    BY <2>1, OperatorReadsAll
  <2>2. CASE ~HoldsOperatorToken
    BY <2>2, FoundIs DEF FitsReader
  <2> QED
    BY <2>1, <2>2
<1>2. /\ Found(cards, rows, streams).overall = Overall(Found(cards, rows, streams).cards)
      /\ Found(cards, rows, streams).quiet = Quiet(Found(cards, rows, streams).cards)
  BY FoundIs
<1> QED
  BY <1>1, <1>2 DEF Honest

\* Announcing maintenance adds its banners and changes nothing else.
LEMMA AnnouncingKeeps ==
    ASSUME NEW cards, NEW rows, NEW streams, NEW windows
    PROVE  LET found == Found(cards, rows, streams)
               what == Announcing(found, windows)
           IN /\ what.kind = "found" /\ what.cards = cards /\ what.rows = rows
              /\ what.streams = streams /\ what.banners = windows
              /\ Honest(found) => Honest(what)
<1> DEFINE found == Found(cards, rows, streams)
           what == Announcing(found, windows)
<1>1. /\ what.kind = "found" /\ what.cards = cards /\ what.rows = rows
      /\ what.streams = streams /\ what.banners = windows
      /\ what.overall = Overall(cards) /\ what.quiet = Quiet(cards)
  BY DEF Found, Announcing
<1>2. /\ found.kind = "found" /\ found.cards = cards /\ found.rows = rows
      /\ found.streams = streams
  BY FoundIs
<1> HIDE DEF found, what
<1>3. Honest(found) => Honest(what)
  BY <1>1, <1>2 DEF Honest, FitsReader
<1> QED
  BY <1>1, <1>3 DEF found, what

\* What is not found tells nothing.
LEMMA MissingIsHonest == Honest(Missing) /\ Honest(Denied)
  BY DEF Honest, Missing, Denied, Found

\* The summary of an audience.
LEMMA SummaryIsRead ==
    ASSUME VisitOK, ~HoldsOperatorToken, IsLog(built.logged)
    PROVE  LET whole == Summary(visit.site, PageAudience(visit), built)
           IN /\ \A id \in DOMAIN whole.cards : KnownCard(id, whole.cards[id])
              /\ \A r \in ToSet(whole.rows) : KnownRow(r)
              /\ whole.rows \in Seq(ToSet(whole.rows))
              /\ ~whole.streams
              /\ whole.kind = "found"
<1> DEFINE s == visit.site
           a == PageAudience(visit)
           whole == Summary(s, a, built)
           cards == CardsFor(s, a, built)
<1>1. a # "operator"
  BY Entitled
<1>2. /\ whole.cards = cards /\ whole.rows = Recent(s, a, built.logged, cards)
      /\ whole.streams = (a = "operator") /\ whole.kind = "found"
  BY AnnouncingKeeps DEF Summary
<1>3. \A id \in DOMAIN cards : KnownCard(id, cards[id])
  <2>1. cards = [id \in {i \in DOMAIN built.cards : CanSee(s, a, i) /\ i \in MonitorsOf(s)} |->
                   Card(s, a, built.levels, {i \in DOMAIN built.cards : built.cards[i].open},
                        built.cards[id].group, id)]
    BY <1>1 DEF CardsFor, Derived
  <2> QED
    BY <2>1, CardsAreKnown
<1>4. \E listed : IsLog(listed) /\ whole.rows = FilterRows(s, a, listed)
  <2> DEFINE places == {i \in DOMAIN built.logged :
                          /\ built.logged[i].ended # "old"
                          /\ CanSee(s, a, built.logged[i].monitor)
                          /\ built.logged[i].monitor \in DOMAIN cards}
  <2>1. whole.rows = FilterRows(s, a, Newest(AtPlaces(built.logged, places), RECENT_SHOWN))
    BY <1>2 DEF Recent, Passing
  <2>2. places \in SUBSET (DOMAIN built.logged)
    OBVIOUS
  <2>3. RECENT_SHOWN \in Nat
    BY AudienceAssumption DEF AudienceAssumption
  <2> HIDE DEF places, whole
  <2>4. IsLog(AtPlaces(built.logged, places))
    BY <2>2, PartsAreLogs
  <2>5. IsLog(Newest(AtPlaces(built.logged, places), RECENT_SHOWN))
    BY <2>3, <2>4, LogsAreKept
  <2> QED
    BY <2>1, <2>5
<1>5. (\A r \in ToSet(whole.rows) : KnownRow(r)) /\ whole.rows \in Seq(ToSet(whole.rows))
  <2>1. PICK listed : IsLog(listed) /\ whole.rows = FilterRows(s, a, listed)
    BY <1>4
  <2> HIDE DEF whole
  <2> QED
    BY <2>1, FilteredAreKnown
<1> HIDE DEF whole
<1> QED
  BY <1>1, <1>2, <1>3, <1>5 DEF whole

\* What a page needs to answer by.
Ready == VisitOK /\ IsLog(built.logged) /\ IsLog(logged)

\* The page answers honestly.
Answers == \E what : Returns(what) /\ Honest(what)

\* The status page, its text, the summary and the metrics.
LEMMA StatusPagesAnswer == ASSUME Ready, StatusPages PROVE Answers
<1> DEFINE whole == Summary(visit.site, PageAudience(visit), built)
<1>1. Returns(whole)
  BY DEF StatusPages
<1>2. Honest(whole)
  <2>1. PICK cards, rows, streams :
            /\ whole = Announcing(Found(cards, rows, streams), built.banners)
            /\ whole.cards = cards /\ whole.rows = rows /\ whole.streams = streams
    BY AnnouncingKeeps DEF Summary
  <2> HIDE DEF whole
  <2>2. CASE HoldsOperatorToken
    <3>1. Honest(Found(cards, rows, streams))
      BY <2>2, FoundIsHonest
    <3> QED
      BY <2>1, <3>1, AnnouncingKeeps
  <2>3. CASE ~HoldsOperatorToken
    <3>1. /\ \A id \in DOMAIN whole.cards : KnownCard(id, whole.cards[id])
          /\ (\A r \in ToSet(whole.rows) : KnownRow(r)) /\ ~whole.streams
      BY <2>3, SummaryIsRead DEF Ready, whole
    <3>2. Honest(Found(cards, rows, streams))
      BY <2>1, <3>1, FoundIsHonest
    <3> QED
      BY <2>1, <3>2, AnnouncingKeeps
  <2> QED
    BY <2>2, <2>3
<1> QED
  BY <1>1, <1>2 DEF Answers

\* The banners are those of the windows in progress that touch what is shown.
HearsItsOwn(what) ==
    what.kind = "found" =>
        what.banners = {w \in visit.site.maintenance :
                            w = {} \/ \E id \in w : id \in DOMAIN what.cards}

\* The page of a group: the cards, the rows and the banners of that group only.
LEMMA GroupPageAnswers ==
    ASSUME Ready, GroupPage
    PROVE  \E what : Returns(what) /\ Honest(what) /\ HearsItsOwn(what)
<1> DEFINE whole == Summary(visit.site, PageAudience(visit), built)
           ids == {id \in DOMAIN whole.cards : whole.cards[id].group = visit.arg}
           cards == [id \in ids |-> whole.cards[id]]
           places == {i \in DOMAIN whole.rows : whole.rows[i].monitor \in ids}
           rows == AtPlaces(whole.rows, places)
           windows == Touching(visit.site.maintenance, ids)
           what == ForGroup(visit.site, whole, visit.arg)
<1>1. Returns(what)
  BY DEF GroupPage
<1>2. what = IF ids = {} THEN Missing
             ELSE Announcing(Found(cards, rows, whole.streams), windows)
  <2> HIDE DEF whole
  <2> QED
    BY DEF ForGroup, Passing
<1>3. ~HoldsOperatorToken => /\ \A id \in DOMAIN cards : KnownCard(id, cards[id])
                             /\ (\A r \in ToSet(rows) : KnownRow(r)) /\ ~whole.streams
  <2> SUFFICES ASSUME ~HoldsOperatorToken
               PROVE  /\ \A id \in DOMAIN cards : KnownCard(id, cards[id])
                      /\ (\A r \in ToSet(rows) : KnownRow(r)) /\ ~whole.streams
    OBVIOUS
  <2>1. /\ \A id \in DOMAIN whole.cards : KnownCard(id, whole.cards[id])
        /\ (\A r \in ToSet(whole.rows) : KnownRow(r)) /\ ~whole.streams
        /\ whole.rows \in Seq(ToSet(whole.rows))
    BY SummaryIsRead DEF Ready
  <2> HIDE DEF whole
  <2>2. places \in SUBSET (DOMAIN whole.rows)
    OBVIOUS
  <2>3. \A id \in DOMAIN cards : KnownCard(id, cards[id])
    BY <2>1
  <2> HIDE DEF places
  <2>4. rows \in Seq(ToSet(whole.rows))
    BY <2>1, <2>2, TakenAreElements
  <2>5. ToSet(rows) \subseteq ToSet(whole.rows)
    BY <2>4, OfItsOwn
  <2> QED
    BY <2>1, <2>3, <2>5
<1>4. Honest(Found(cards, rows, whole.streams))
  <2> HIDE DEF whole, cards, rows
  <2> QED
    BY <1>3, FoundIsHonest
<1>5. Honest(what)
  <2> HIDE DEF what, whole, cards, rows, windows
  <2> QED
    BY <1>2, <1>4, MissingIsHonest, AnnouncingKeeps
<1>6. HearsItsOwn(what)
  <2>1. CASE ids = {}
    <3>1. what.kind # "found"
      <4> HIDE DEF whole, ids
      <4> QED
        BY <1>2, <2>1 DEF Missing, Found
    <3> QED
      BY <3>1 DEF HearsItsOwn
  <2>2. CASE ids # {}
    <3>1. what = Announcing(Found(cards, rows, whole.streams), windows)
      <4> HIDE DEF what, whole, ids, cards, rows, windows
      <4> QED
        BY <1>2, <2>2
    <3>2. what.cards = cards /\ what.banners = windows
      <4> HIDE DEF what, whole, ids, cards, rows, windows
      <4> QED
        BY <3>1, AnnouncingKeeps
    <3>3. DOMAIN cards = ids
      OBVIOUS
    <3>4. windows = {w \in visit.site.maintenance : w = {} \/ \E id \in w : id \in ids}
      <4> HIDE DEF whole, ids
      <4> QED
        BY DEF Touching
    <3> HIDE DEF what, whole, ids, cards, rows, windows
    <3> QED
      BY <3>2, <3>3, <3>4 DEF HearsItsOwn
  <2> QED
    BY <2>1, <2>2
<1> HIDE DEF what
<1> QED
  BY <1>1, <1>5, <1>6

\* The page of a monitor, for those who see it, with its own rows.
LEMMA MonitorPageAnswers == ASSUME Ready, MonitorPage PROVE Answers
<1> DEFINE s == visit.site
           a == PageAudience(visit)
           cards == CardsFor(s, a, built)
           places == {i \in DOMAIN logged : logged[i].monitor = visit.arg /\ logged[i].ended # "old"}
           own == AtPlaces(logged, places)
           shown == [id \in {visit.arg} |-> cards[id]]
           rows == [i \in DOMAIN own |-> Sanitized(s, a, own[i])]
           here == visit.arg \in MonitorsOf(s) /\ CanSee(s, a, visit.arg) /\ visit.arg \in DOMAIN cards
<1>1. Returns(IF here THEN Found(shown, rows, a = "operator") ELSE Missing)
  BY DEF MonitorPage, Passing
<1>2. IsLog(own) /\ \A row \in ToSet(own) : row.monitor = visit.arg
  <2>1. logged \in Seq(ToSet(logged)) /\ DOMAIN logged = 1..Len(logged)
    BY LenProperties DEF Ready, IsLog
  <2>2. \A row \in ToSet(Passing(logged, LAMBDA row : row.monitor = visit.arg /\ row.ended # "old")) :
            row.monitor = visit.arg
    <3>1. places \in SUBSET (DOMAIN logged)
      OBVIOUS
    <3>2. /\ own \in Seq(ToSet(logged)) /\ Len(own) = Cardinality(places)
          /\ \A k \in 1..Cardinality(places) :
                Place(places, k) \in places /\ own[k] = logged[Place(places, k)]
      <4> HIDE DEF places
      <4> QED
        BY <2>1, <3>1, TakenAreElements
    <3>3. DOMAIN own = 1..Cardinality(places)
      BY <3>2, LenProperties
    <3>4. ASSUME NEW row \in ToSet(own) PROVE row.monitor = visit.arg
      <4>1. PICK k \in 1..Cardinality(places) : row = own[k]
        BY <3>3 DEF ToSet
      <4> QED
        BY <3>2, <4>1
    <3> QED
      BY <3>4 DEF Passing
  <2>3. places \in SUBSET (DOMAIN logged)
    OBVIOUS
  <2>4. IsLog(own)
    <3> HIDE DEF places
    <3> QED
      BY <2>3, PartsAreLogs DEF Ready
  <2> QED
    BY <2>2, <2>4 DEF Passing
<1>3. ASSUME here, ~HoldsOperatorToken
      PROVE  /\ \A id \in DOMAIN shown : KnownCard(id, shown[id])
             /\ \A r \in ToSet(rows) : KnownRow(r)
             /\ ~(a = "operator")
  <2>1. a # "operator"
    BY <1>3, Entitled DEF Ready
  <2>2. cards = [id \in {i \in DOMAIN built.cards : CanSee(s, a, i) /\ i \in MonitorsOf(s)} |->
                   Card(s, a, built.levels, {i \in DOMAIN built.cards : built.cards[i].open},
                        built.cards[id].group, id)]
    BY <2>1 DEF CardsFor, Derived
  <2>3. KnownCard(visit.arg, cards[visit.arg])
    BY <1>3, <2>2, CardsAreKnown DEF Ready
  <2>4. \A r \in ToSet(rows) : KnownRow(r)
    <3>1. \A row \in ToSet(own) : IsRow(row) /\ CanSee(s, a, row.monitor)
      BY <1>2, <1>3 DEF IsLog
    <3>2. \A row \in ToSet(own) : KnownRow(Sanitized(s, a, row))
      <4> HIDE DEF own
      <4> QED
        BY <1>3, <3>1, RowsAreKnown DEF Ready
    <3> HIDE DEF own
    <3> QED
      BY <3>2 DEF ToSet
  <2> QED
    BY <2>1, <2>3, <2>4
<1> HIDE DEF shown, rows, cards
<1>4. here => Honest(Found(shown, rows, a = "operator"))
  BY <1>3, FoundIsHonest
<1> QED
  BY <1>1, <1>4, MissingIsHonest DEF Answers

\* The series, the heatmaps and the badges, for those who see the monitor.
LEMMA VisibleMonitorAnswers == ASSUME Ready, VisibleMonitor PROVE Answers
<1> DEFINE s == visit.site
           card(id) == [Card(s, "public", levels, {}, NoName, id)
                           EXCEPT !.cause = NoName, !.impacted = {}, !.raw = FALSE]
           cards == [id \in {visit.arg} \cap DOMAIN levels |-> card(id)]
           here == visit.arg \in MonitorsOf(s) /\ CanSee(s, PageAudience(visit), visit.arg)
<1>1. Returns(IF here THEN Found(cards, <<>>, FALSE) ELSE Missing)
  BY DEF VisibleMonitor
<1>2. ASSUME here, ~HoldsOperatorToken
      PROVE  /\ \A id \in DOMAIN cards : KnownCard(id, cards[id])
             /\ \A r \in ToSet(<<>>) : KnownRow(r)
  <2>1. MayKnow(visit.arg)
    BY <1>2, Entitled DEF Ready
  <2>2. \A id : card(id).cause = NoName /\ card(id).impacted = {} /\ card(id).raw = FALSE
    BY DEF Card
  <2>3. \A id \in DOMAIN cards : id = visit.arg /\ cards[id] = card(id)
    OBVIOUS
  <2> HIDE DEF cards, card
  <2> QED
    BY <2>1, <2>2, <2>3 DEF KnownCard, ToSet
<1> HIDE DEF cards
<1>3. here => Honest(Found(cards, <<>>, FALSE))
  BY <1>2, FoundIsHonest
<1> QED
  BY <1>1, <1>3, MissingIsHonest DEF Answers

\* The timeline of the rows that may be read.
LEMMA TimelinePageAnswers == ASSUME Ready, TimelinePage PROVE Answers
<1> DEFINE a == PageAudience(visit)
           seen == FilterRows(visit.site, a, logged)
           places == {i \in DOMAIN seen : seen[i].ended # "old"}
           rows == AtPlaces(seen, places)
<1>1. Returns(Found(<<>>, rows, a = "operator"))
  BY DEF TimelinePage, Passing
<1>2. ASSUME ~HoldsOperatorToken
      PROVE  (\A r \in ToSet(rows) : KnownRow(r)) /\ a # "operator"
  <2>1. places \in SUBSET (DOMAIN seen)
    OBVIOUS
  <2>2. \A them \in SUBSET (DOMAIN seen) : \A r \in ToSet(AtPlaces(seen, them)) : KnownRow(r)
    BY <1>2, FilteredAreKnown DEF Ready
  <2>3. a # "operator"
    BY <1>2, Entitled DEF Ready
  <2> HIDE DEF places, seen, a
  <2> QED
    BY <2>1, <2>2, <2>3
<1>3. \A id \in DOMAIN <<>> : KnownCard(id, (<<>>)[id])
  OBVIOUS
<1> HIDE DEF rows
<1>4. Honest(Found(<<>>, rows, a = "operator"))
  BY <1>2, <1>3, FoundIsHonest
<1> QED
  BY <1>1, <1>4 DEF Answers

\* One incident, found among those that may be read or not at all.
LEMMA IncidentPageAnswers == ASSUME Ready, IncidentPage PROVE Answers
<1> DEFINE a == PageAudience(visit)
           places == {i \in DOMAIN logged : logged[i].id = visit.arg}
           rows == AtPlaces(logged, places)
           seen == FilterRows(visit.site, a, rows)
<1>1. Returns(IF seen = <<>> THEN Missing ELSE Found(<<>>, seen, a = "operator"))
  BY DEF IncidentPage, Passing
<1>2. IsLog(rows)
  <2>1. places \in SUBSET (DOMAIN logged)
    OBVIOUS
  <2> HIDE DEF places
  <2> QED
    BY <2>1, PartsAreLogs DEF Ready
<1> HIDE DEF rows
<1>3. ASSUME ~HoldsOperatorToken
      PROVE  (\A r \in ToSet(seen) : KnownRow(r)) /\ a # "operator"
  BY <1>2, <1>3, FilteredAreKnown, Entitled DEF Ready
<1>4. \A id \in DOMAIN <<>> : KnownCard(id, (<<>>)[id])
  OBVIOUS
<1> HIDE DEF seen
<1>5. Honest(Found(<<>>, seen, a = "operator"))
  BY <1>3, <1>4, FoundIsHonest
<1> QED
  BY <1>1, <1>5, MissingIsHonest DEF Answers

\* The report, of the monitors that may be seen.
LEMMA ReportPageAnswers == ASSUME Ready, ReportPage PROVE Answers
<1> DEFINE s == visit.site
           ids == {id \in MonitorsOf(s) : /\ CanSee(s, PageAudience(visit), id)
                                          /\ visit.arg # NoName => GroupOf(s, id) = visit.arg}
           card(id) == [status |-> "up", group |-> GroupOf(s, id), open |-> FALSE, raw |-> FALSE,
                        cause |-> NoName, impacted |-> {}]
           cards == [id \in ids |-> card(id)]
<1>1. Returns(IF ids = {} /\ visit.arg # NoName THEN Missing ELSE Found(cards, <<>>, FALSE))
  BY DEF ReportPage
<1>2. ASSUME ~HoldsOperatorToken
      PROVE  /\ \A id \in DOMAIN cards : KnownCard(id, cards[id])
             /\ \A r \in ToSet(<<>>) : KnownRow(r)
  <2>1. \A id \in ids : MayKnow(id)
    BY <1>2, Entitled DEF Ready
  <2>2. \A id : card(id).cause = NoName /\ card(id).impacted = {} /\ card(id).raw = FALSE
    OBVIOUS
  <2> HIDE DEF ids, card
  <2> QED
    BY <2>1, <2>2 DEF KnownCard, ToSet
<1> HIDE DEF cards, ids
<1>3. Honest(Found(cards, <<>>, FALSE))
  BY <1>2, FoundIsHonest
<1> QED
  BY <1>1, <1>3, MissingIsHonest DEF Answers

\* What only the operator is answered.
LEMMA OperatorOnlyAnswers == ASSUME Ready, OperatorOnly PROVE Answers
<1> DEFINE what == CASE IsOperator(visit) /\ visit.page = "write" -> Found(<<>>, <<>>, TRUE)
                     [] IsOperator(visit) /\ visit.page = "watchers" ->
                            Found(CardsFor(visit.site, "operator", built), logged, TRUE)
                     [] ~IsOperator(visit) /\ visit.page = "watchers" -> Missing
                     [] OTHER -> Denied
<1>1. Returns(what)
  BY DEF OperatorOnly
<1>2. visit.page \in {"watchers", "write"}
  BY DEF OperatorOnly, On
<1>3. Honest(what)
  <2>1. CASE IsOperator(visit)
    <3>1. \A cards, rows : Honest(Found(cards, rows, TRUE))
      BY <2>1, OperatorHolds, FoundIsHonest
    <3> QED
      BY <1>2, <2>1, <3>1
  <2>2. CASE ~IsOperator(visit)
    BY <2>2, MissingIsHonest
  <2> QED
    BY <2>1, <2>2
<1> QED
  BY <1>1, <1>3 DEF Answers

(* And the whole *)

\* A log read from the newest rows that sufficed, or as far as a scan goes.
LEMMA CollectRoundAnswers ==
    ASSUME Ready, CollectRound
    PROVE  \/ visit'.pc = "asked" /\ VisitOK' /\ UNCHANGED <<site, levels, logged, built, answer, news>>
           \/ \E what : /\ Returns(what) /\ Honest(what)
                        /\ LET all == FilterRows(visit.site, PageAudience(visit), logged)
                           IN /\ IsPrefix(what.rows, all)
                              /\ Len(what.rows) < LogLimit /\ Len(what.rows) < Len(all)
                                    => Len(logged) > MAX_VISIBILITY_SCAN
<1> DEFINE s == visit.site
           a == PageAudience(visit)
           w == visit.window
           rows == Newest(logged, w)
           seen == FilterRows(s, a, rows)
           all == FilterRows(s, a, logged)
           cut == Newest(seen, LogLimit)
           what == Found(<<>>, cut, a = "operator")
           enough == \/ Len(seen) >= LogLimit \/ Len(rows) < w \/ w >= MAX_VISIBILITY_SCAN
<1>1. /\ w \in Nat /\ LogLimit \in Nat /\ MAX_VISIBILITY_SCAN \in Nat
      /\ logged \in Seq(ToSet(logged)) /\ Len(logged) \in Nat
  BY AudienceAssumption, LenProperties DEF AudienceAssumption, Ready, VisitOK, IsLog
<1>2. /\ IsLog(rows) /\ Len(rows) = (IF w < Len(logged) THEN w ELSE Len(logged))
      /\ rows = SubSeq(logged, 1, Len(rows))
  <2>1. Len(rows) = (IF w < Len(logged) THEN w ELSE Len(logged))
    BY <1>1, NewestAre
  <2> QED
    BY <1>1, <2>1, LogsAreKept DEF Ready, Newest
<1>3. CASE enough
  <2>1. Returns(what)
    BY <1>3 DEF CollectRound
  <2>2. seen \in Seq(ReadBy(s, a, rows)) /\ Len(seen) \in Nat
    <3> HIDE DEF rows
    <3> QED
      BY <1>2, FilteredAre, LenProperties
  <2>3. all \in Seq(ReadBy(s, a, logged)) /\ Len(all) \in Nat
    BY FilteredAre, LenProperties DEF Ready
  <2>4. Len(seen) <= Len(all) /\ \A k \in 1..Len(seen) : seen[k] = all[k]
    <3>1. Len(rows) \in 0..Len(logged)
      BY <1>1, <1>2
    <3> DEFINE m == Len(rows)
    <3>2. m \in 0..Len(logged) /\ rows = SubSeq(logged, 1, m)
      BY <1>2, <3>1
    <3> HIDE DEF m, rows
    <3>3. LET short == FilterRows(s, a, SubSeq(logged, 1, m))
              whole == FilterRows(s, a, logged)
          IN /\ Len(short) <= Len(whole)
             /\ \A k \in 1..Len(short) : short[k] = whole[k]
      BY <3>2, FilteredComeFirst DEF Ready
    <3> QED
      BY <3>2, <3>3
  <2>5. /\ cut \in Seq(ReadBy(s, a, rows)) /\ Len(cut) \in Nat
        /\ Len(cut) = (IF LogLimit < Len(seen) THEN LogLimit ELSE Len(seen))
        /\ \A k \in 1..Len(cut) : cut[k] = seen[k]
    <3> HIDE DEF seen, rows
    <3> QED
      BY <1>1, <2>2, NewestAre, LenProperties
  <2>6. IsPrefix(cut, all)
    <3> HIDE DEF cut, seen, rows, all
    <3>1. Len(cut) <= Len(all)
      BY <1>1, <2>2, <2>3, <2>4, <2>5
    <3>2. \A k \in 1..Len(cut) : cut[k] = all[k]
      BY <1>1, <2>2, <2>3, <2>4, <2>5
    <3> QED
      BY <2>3, <2>5, <3>1, <3>2, PrefixByElements
  <2>7. ASSUME Len(cut) < LogLimit, Len(cut) < Len(all)
        PROVE  Len(logged) > MAX_VISIBILITY_SCAN
    <3>1. rows = logged => seen = all
      OBVIOUS
    <3>2. Len(rows) = Len(logged) => rows = logged
      <4>1. SubSeq(logged, 1, Len(logged)) = logged
        BY <1>1, SubSeqFull
      <4> QED
        BY <1>2, <4>1
    <3> HIDE DEF cut, seen, rows, all, w
    <3>3. Len(seen) < LogLimit /\ Len(seen) < Len(all)
      BY <1>1, <2>2, <2>3, <2>5, <2>7
    <3>4. Len(rows) # Len(logged)
      BY <3>1, <3>2, <3>3, <2>3
    <3> QED
      BY <1>1, <1>2, <1>3, <2>2, <3>3, <3>4
  <2>8. Honest(what)
    <3>1. ASSUME ~HoldsOperatorToken
          PROVE  (\A r \in ToSet(cut) : KnownRow(r)) /\ a # "operator"
      <4>1. \A n \in Nat : \A r \in ToSet(Newest(seen, n)) : KnownRow(r)
        <5> HIDE DEF rows
        <5> QED
          BY <1>2, <3>1, FilteredAreKnown DEF Ready
      <4>2. a # "operator"
        BY <3>1, Entitled DEF Ready
      <4> HIDE DEF seen, a
      <4> QED
        BY <1>1, <4>1, <4>2
    <3>2. \A id \in DOMAIN <<>> : KnownCard(id, (<<>>)[id])
      OBVIOUS
    <3> HIDE DEF cut
    <3> QED
      BY <3>1, <3>2, FoundIsHonest
  <2>9. what.rows = cut
    <3> HIDE DEF cut
    <3> QED
      BY FoundIs
  <2> HIDE DEF what, cut, all
  <2> QED
    BY <2>1, <2>6, <2>7, <2>8, <2>9 DEF all
<1>4. CASE ~enough
  <2>1. /\ visit' = [visit EXCEPT !.window = IF 4 * @ < MAX_VISIBILITY_SCAN THEN 4 * @
                                             ELSE MAX_VISIBILITY_SCAN]
        /\ UNCHANGED <<site, levels, logged, built, answer, news>>
    BY <1>4 DEF CollectRound
  <2>2. visit.pc = "asked"
    BY DEF CollectRound, On
  <2>3. (IF 4 * w < MAX_VISIBILITY_SCAN THEN 4 * w ELSE MAX_VISIBILITY_SCAN) \in Nat
    BY <1>1
  <2>4. /\ visit' = [pc |-> visit.pc, page |-> visit.page, arg |-> visit.arg, bearer |-> visit.bearer,
                     query |-> visit.query, site |-> visit.site, window |-> visit'.window]
        /\ visit'.window \in Nat
    BY <2>1, <2>3 DEF Ready, VisitOK
  <2>5. VisitOK'
    BY <2>4 DEF Ready, VisitOK
  <2> QED
    BY <2>1, <2>2, <2>4, <2>5
<1> QED
  BY <1>3, <1>4

\* What is answered does not change who asked.
LEMMA SameAsker ==
    ASSUME VisitOK, NEW what, Returns(what)
    PROVE  /\ visit'.pc = "answered" /\ VisitOK' /\ answer' = what
           /\ HoldsOperatorToken' <=> HoldsOperatorToken
           /\ \A id : MayKnow(id)' <=> MayKnow(id)
           /\ \A id : MayReadDetail(id)' <=> MayReadDetail(id)
           /\ PageAudience(visit') = PageAudience(visit)
<1>1. /\ visit' = [pc |-> "answered", page |-> visit.page, arg |-> visit.arg, bearer |-> visit.bearer,
                   query |-> visit.query, site |-> visit.site, window |-> visit.window]
      /\ answer' = what
  BY DEF VisitOK, Returns
<1>2. /\ visit'.pc = "answered" /\ visit'.page = visit.page /\ visit'.arg = visit.arg
      /\ visit'.bearer = visit.bearer /\ visit'.query = visit.query
      /\ visit'.site = visit.site /\ visit'.window = visit.window
  BY <1>1
<1>3. VisitOK'
  <2>1. visit' = [pc |-> visit'.pc, page |-> visit'.page, arg |-> visit'.arg, bearer |-> visit'.bearer,
                  query |-> visit'.query, site |-> visit'.site, window |-> visit'.window]
    BY <1>1
  <2> QED
    BY <1>2, <2>1 DEF VisitOK
<1>4. HoldsOperatorToken' <=> HoldsOperatorToken
  BY <1>2 DEF HoldsOperatorToken
<1>5. \A g : OwnPageOf(g)' <=> OwnPageOf(g)
  BY <1>2 DEF OwnPageOf
<1>6. \A id : MayKnow(id)' <=> MayKnow(id)
  BY <1>2, <1>4, <1>5 DEF MayKnow
<1>7. \A id : MayReadDetail(id)' <=> MayReadDetail(id)
  BY <1>2, <1>4, <1>5, <1>6 DEF MayReadDetail
<1>8. IsOperator(visit') <=> IsOperator(visit)
  BY <1>2 DEF IsOperator, Matches, Expected
<1>9. \A g : AudienceForGroup(visit', g) = AudienceForGroup(visit, g)
  BY <1>2, <1>8 DEF AudienceForGroup, Presented
<1>10. PageAudience(visit') = PageAudience(visit)
  BY <1>2, <1>8, <1>9 DEF PageAudience, AudienceOf
<1> QED
  BY <1>1, <1>2, <1>3, <1>4, <1>6, <1>7, <1>10

\* The answers given, and what they are given from.
AudienceInv ==
    /\ site \in Sites /\ Ready
    /\ visit.pc \in {"idle", "asked", "answered"}
    /\ visit.pc # "answered" => answer.kind # "found"
    /\ AudiencesSeeTheirOwn

\* An honest answer is one that was due.
LEMMA HonestIsRight ==
    ASSUME AudienceInv, NEW what, Returns(what), Honest(what),
           visit.page = "log" =>
               LET all == FilterRows(visit.site, PageAudience(visit), logged)
               IN /\ IsPrefix(what.rows, all)
                  /\ Len(what.rows) < LogLimit /\ Len(what.rows) < Len(all)
                        => Len(logged) > MAX_VISIBILITY_SCAN,
           visit.page = "group" => HearsItsOwn(what)
    PROVE  AudienceInv'
<1>1. /\ visit'.pc = "answered" /\ VisitOK' /\ answer' = what
      /\ HoldsOperatorToken' <=> HoldsOperatorToken
      /\ \A id : MayKnow(id)' <=> MayKnow(id)
      /\ \A id : MayReadDetail(id)' <=> MayReadDetail(id)
      /\ PageAudience(visit') = PageAudience(visit)
  BY SameAsker DEF AudienceInv, Ready
<1>2. /\ visit'.site = visit.site /\ visit'.page = visit.page
      /\ UNCHANGED <<site, levels, logged, built, news>>
  BY DEF AudienceInv, Ready, VisitOK, Returns
<1>3. site' \in Sites /\ Ready' /\ visit'.pc \in {"idle", "asked", "answered"}
  BY <1>1, <1>2 DEF AudienceInv, Ready
<1>4. OthersStayUnnamed'
  <2> SUFFICES ASSUME what.kind = "found"
               PROVE  OthersStayUnnamed'
    BY <1>1 DEF OthersStayUnnamed
  <2>1. FitsReader(what)
    BY DEF Honest
  <2>2. MentionedIds' = DOMAIN what.cards
          \cup (UNION {{what.cards[id].cause} \cup what.cards[id].impacted : id \in DOMAIN what.cards})
          \cup (UNION {{r.monitor, r.cause} \cup r.impacted : r \in ToSet(what.rows)})
    BY <1>1 DEF MentionedIds
  <2>3. \A id \in MentionedIds' \ {NoName} : MayKnow(id)'
    <3>1. ASSUME NEW id \in DOMAIN what.cards, NEW d \in {id, what.cards[id].cause} \cup what.cards[id].impacted,
                 d # NoName
          PROVE  MayKnow(d)
      BY <2>1, <3>1 DEF FitsReader, KnownCard
    <3>2. ASSUME NEW r \in ToSet(what.rows), NEW d \in {r.monitor, r.cause} \cup r.impacted, d # NoName
          PROVE  MayKnow(d)
      BY <2>1, <3>2 DEF FitsReader, KnownRow
    <3> QED
      BY <1>1, <2>2, <3>1, <3>2
  <2>4. \A id \in DOMAIN answer'.cards : answer'.cards[id].raw => MayReadDetail(id)'
    BY <1>1, <2>1 DEF FitsReader, KnownCard
  <2>5. \A r \in ToSet(answer'.rows) :
            /\ r.raw => MayReadDetail(r.monitor)'
            /\ r.event => HoldsOperatorToken' \/ /\ MayReadDetail(r.monitor)'
                                                 /\ visit'.site.monitors[r.monitor].published
    BY <1>1, <1>2, <2>1 DEF FitsReader, KnownRow
  <2>6. answer'.streams => HoldsOperatorToken'
    BY <1>1, <2>1 DEF FitsReader
  <2> QED
    BY <2>3, <2>4, <2>5, <2>6 DEF OthersStayUnnamed
<1>5. ShownIsWhole'
  <2> SUFFICES ASSUME what.kind = "found"
               PROVE  ShownIsWhole'
    BY <1>1 DEF ShownIsWhole
  <2>1. what.overall = Overall(what.cards) /\ (what.quiet => Quiet(what.cards))
    BY DEF Honest
  <2>2. answer'.overall = Worst({answer'.cards[id].status : id \in DOMAIN answer'.cards})
    BY <1>1, <2>1 DEF Overall
  <2>3. answer'.quiet => \A id \in DOMAIN answer'.cards : ~answer'.cards[id].open
    BY <1>1, <2>1 DEF Quiet
  <2> QED
    BY <1>1, <1>2, <2>2, <2>3 DEF ShownIsWhole
<1>6. HearsItsWindows'
  <2>1. answer'.kind = "found" /\ visit'.page = "group" => HearsItsOwn(what)
    BY <1>1, <1>2
  <2> QED
    BY <1>1, <1>2, <2>1 DEF HearsItsWindows, HearsItsOwn
<1> QED
  BY <1>1, <1>3, <1>4, <1>5, <1>6 DEF AudienceInv, AudiencesSeeTheirOwn

\* Nothing is answered at the start.
LEMMA AudienceInvInit == AudiencesInit => AudienceInv
<1> SUFFICES ASSUME AudiencesInit PROVE AudienceInv
  OBVIOUS
<1>1. site \in Sites /\ IsLog(logged)
  BY AudienceAssumption DEF AudiencesInit, AudienceAssumption
<1>2. IsLog(built.logged)
  <2>1. built.logged = Newest(logged, RECENT_SCAN)
    BY DEF AudiencesInit, Build
  <2>2. RECENT_SCAN \in Nat
    BY AudienceAssumption DEF AudienceAssumption
  <2> QED
    BY <1>1, <2>1, <2>2, LogsAreKept
<1>3. visit = NoVisit /\ VisitOK
  BY <1>1 DEF AudiencesInit, NoVisit, VisitOK
<1>4. visit.pc = "idle" /\ answer.kind # "found"
  BY DEF AudiencesInit, NoVisit, Unanswered, Missing, Found
<1> QED
  BY <1>1, <1>2, <1>3, <1>4 DEF AudienceInv, Ready, AudiencesSeeTheirOwn, OthersStayUnnamed, ShownIsWhole,
     HearsItsWindows

\* While nothing is answered, what happens next leaves the answer alone.
LEMMA NotYetAnswered ==
    ASSUME AudienceInv, visit'.pc # "answered", answer'.kind # "found", VisitOK',
           visit'.pc \in {"idle", "asked", "answered"},
           site' \in Sites, IsLog(built'.logged), IsLog(logged')
    PROVE  AudienceInv'
  BY DEF AudienceInv, Ready, AudiencesSeeTheirOwn, OthersStayUnnamed, ShownIsWhole,
     HearsItsWindows

\* Outages, builds and reloads answer nothing.
LEMMA NewsKeeps ==
    ASSUME AudienceInv, (\E id \in DOMAIN levels : Opens(id)) \/ Refreshes \/ Reloads
    PROVE  AudienceInv'
<1>1. /\ visit.pc # "answered" /\ visit' = visit /\ answer' = answer
  BY DEF Opens, Refreshes, Reloads, News
<1>2. VisitOK' /\ answer'.kind # "found" /\ visit'.pc \in {"idle", "asked", "answered"}
  BY <1>1 DEF AudienceInv, Ready, VisitOK
<1>3. ASSUME NEW id \in DOMAIN levels, Opens(id)
      PROVE  site' \in Sites /\ IsLog(built'.logged) /\ IsLog(logged')
  <2>1. PICK row : IsRow(row) /\ logged' = <<row>> \o logged
    <3> DEFINE row == Row(Len(logged) + 1, id, "open", Cause(site, "operator", levels', id),
                          Impacted(site, "operator", levels', id))
    <3>1. logged' = <<row>> \o logged
      BY <1>3 DEF Opens
    <3>2. IsRow(row)
      BY DEF IsRow, Row
    <3> HIDE DEF row
    <3> QED
      BY <3>1, <3>2
  <2>2. site' = site /\ built' = built
    BY <1>3 DEF Opens
  <2> QED
    BY <2>1, <2>2, LogsAreKept DEF AudienceInv, Ready
<1>4. CASE Refreshes
  <2>1. built'.logged = Newest(logged, RECENT_SCAN) /\ UNCHANGED <<site, logged>>
    BY <1>4 DEF Refreshes, Build
  <2>2. RECENT_SCAN \in Nat
    BY AudienceAssumption DEF AudienceAssumption
  <2>3. IsLog(built'.logged) /\ IsLog(logged') /\ site' \in Sites
    BY <2>1, <2>2, LogsAreKept DEF AudienceInv, Ready
  <2> QED
    BY <1>1, <1>2, <2>3, NotYetAnswered
<1>5. CASE Reloads
  <2>1. site' \in Sites /\ IsLog(built'.logged) /\ IsLog(logged')
    BY <1>5 DEF Reloads, AudienceInv, Ready
  <2> QED
    BY <1>1, <1>2, <2>1, NotYetAnswered
<1>6. CASE \E id \in DOMAIN levels : Opens(id)
  <2>1. site' \in Sites /\ IsLog(built'.logged) /\ IsLog(logged')
    BY <1>3, <1>6
  <2> QED
    BY <1>1, <1>2, <2>1, NotYetAnswered
<1> QED
  BY <1>4, <1>5, <1>6

\* A request received is answered nothing yet.
LEMMA VisitsKeep == ASSUME AudienceInv, Visits PROVE AudienceInv'
<1>1. /\ visit.pc = "idle" /\ UNCHANGED <<site, levels, logged, built, answer, news>>
      /\ \E p \in Pages, bearer, query \in Tokens :
            visit' = [pc |-> "asked", page |-> p.page, arg |-> p.arg, bearer |-> bearer,
                      query |-> query, site |-> site, window |-> LogLimit]
  BY DEF Visits
<1>2. PICK p \in Pages, bearer \in Tokens, query \in Tokens :
            visit' = [pc |-> "asked", page |-> p.page, arg |-> p.arg, bearer |-> bearer,
                      query |-> query, site |-> site, window |-> LogLimit]
  BY <1>1
<1>3. /\ p.page = "group" => p.arg \in Groups
      /\ p.page = "report" => p.arg \in Groups \cup {NoName}
  BY DEF Pages
<1>4. LogLimit \in Nat
  BY AudienceAssumption DEF AudienceAssumption
<1>5. VisitOK' /\ visit'.pc = "asked"
  BY <1>2, <1>3, <1>4 DEF VisitOK, AudienceInv
<1> QED
  BY <1>1, <1>5, NotYetAnswered DEF AudienceInv, Ready

\* Whoever asks and whatever the configuration, the log and the summary at hand
\* (visibility.rs, auth.rs, summary and the handlers): the cards, rows and
\* annotations of an answer name and tell only what the tokens presented entitle
\* to under the configuration the request goes by (its banners of maintenance are
\* not so confined), its marks are those of the monitors it shows, a log lists the
\* newest incidents its reader may see, all of them within the scan, and the page
\* of a group announces just the windows that touch what it shows.
THEOREM AudiencesSeeTheirOwnHolds == AudienceSpec => []AudiencesSeeTheirOwn
<1>1. ASSUME AudienceInv, [AudiencesNext]_audienceVars
      PROVE  AudienceInv'
  <2>1. CASE UNCHANGED audienceVars
    BY <1>1, <2>1 DEF audienceVars, AudienceInv, Ready, VisitOK, AudiencesSeeTheirOwn, OthersStayUnnamed,
       ShownIsWhole, HearsItsWindows, MentionedIds, MayKnow, MayReadDetail, HoldsOperatorToken, OwnPageOf
  <2>2. CASE (\E id \in DOMAIN levels : Opens(id)) \/ Refreshes \/ Reloads
    BY <1>1, <2>2, NewsKeeps
  <2>3. CASE Visits
    BY <1>1, <2>3, VisitsKeep
  <2>4. CASE GroupPage
    <3>1. PICK what : Returns(what) /\ Honest(what) /\ HearsItsOwn(what)
      BY <1>1, <2>4, GroupPageAnswers DEF AudienceInv
    <3>2. visit.page = "group"
      BY <2>4 DEF GroupPage, On
    <3> QED
      BY <1>1, <3>1, <3>2, HonestIsRight
  <2>5. CASE \/ StatusPages \/ MonitorPage \/ VisibleMonitor
             \/ TimelinePage \/ IncidentPage \/ ReportPage \/ OperatorOnly
    <3>1. Ready
      BY <1>1 DEF AudienceInv
    <3>2. Answers
      BY <2>5, <3>1, StatusPagesAnswer, MonitorPageAnswers, VisibleMonitorAnswers,
         TimelinePageAnswers, IncidentPageAnswers, ReportPageAnswers, OperatorOnlyAnswers
    <3>3. visit.page # "log" /\ visit.page # "group"
      BY <2>5 DEF StatusPages, MonitorPage, VisibleMonitor, TimelinePage, IncidentPage,
         ReportPage, OperatorOnly, On
    <3>4. PICK what : Returns(what) /\ Honest(what)
      BY <3>2 DEF Answers
    <3> QED
      BY <1>1, <3>3, <3>4, HonestIsRight
  <2>6. CASE CollectRound
    <3>1. Ready /\ visit.page = "log"
      BY <1>1, <2>6 DEF AudienceInv, CollectRound, On
    <3>2. CASE visit'.pc = "asked" /\ VisitOK' /\ UNCHANGED <<site, levels, logged, built, answer, news>>
      <4>1. visit.pc = "asked"
        BY <2>6 DEF CollectRound, On
      <4> QED
        BY <1>1, <3>2, <4>1, NotYetAnswered DEF AudienceInv, Ready
    <3> QED
      BY <1>1, <2>6, <3>1, <3>2, CollectRoundAnswers, HonestIsRight
  <2> QED
    BY <1>1, <2>1, <2>2, <2>3, <2>4, <2>5, <2>6 DEF AudiencesNext
<1>2. AudienceInv => AudiencesSeeTheirOwn
  BY DEF AudienceInv
<1> QED
  BY <1>1, <1>2, AudienceInvInit, PTL DEF AudienceSpec
---------------------------------------------------------------------------
(* What `hora top` shows and sends *)

DashboardSpec == DashboardInit /\ [][DashboardNext]_dashboardVars

\* A sequence, whatever it holds.
IsSequence(s) == s \in Seq(ToSet(s))

LEMMA SequencesAre ==
    ASSUME NEW S, NEW s \in Seq(S)
    PROVE  /\ IsSequence(s) /\ ToSet(s) \subseteq S
           /\ Len(s) \in Nat /\ DOMAIN s = 1..Len(s)
<1>1. Len(s) \in Nat /\ s \in [1..Len(s) -> S] /\ DOMAIN s = 1..Len(s)
  BY LenProperties
<1>2. ToSet(s) \subseteq S
  BY <1>1 DEF ToSet
<1>3. \A i \in 1..Len(s) : s[i] \in ToSet(s)
  BY <1>1 DEF ToSet
<1>4. s \in [1..Len(s) -> ToSet(s)]
  BY <1>1, <1>3
<1> QED
  BY <1>1, <1>2, <1>4 DEF IsSequence

\* One more at the end.
LEMMA OneMore ==
    ASSUME NEW s, IsSequence(s), NEW x
    PROVE  /\ IsSequence(Append(s, x)) /\ ToSet(Append(s, x)) = ToSet(s) \cup {x}
           /\ Len(Append(s, x)) = Len(s) + 1 /\ Len(s) \in Nat
           /\ DOMAIN s = 1..Len(s) /\ DOMAIN Append(s, x) = 1..(Len(s) + 1)
           /\ \A i \in 1..Len(s) : Append(s, x)[i] = s[i]
           /\ Append(s, x)[Len(s) + 1] = x
<1> DEFINE S == ToSet(s) \cup {x}
           t == Append(s, x)
<1>1. s \in Seq(S) /\ x \in S
  <2>1. s \in Seq(ToSet(s))
    BY DEF IsSequence
  <2>2. Len(s) \in Nat /\ s \in [1..Len(s) -> ToSet(s)]
    BY <2>1, LenProperties
  <2> QED
    BY <2>2
<1>2. /\ t \in Seq(S) /\ Len(t) = Len(s) + 1 /\ t[Len(s) + 1] = x
      /\ \A i \in 1..Len(s) : t[i] = s[i]
  BY <1>1, AppendProperties
<1>3. Len(s) \in Nat /\ DOMAIN s = 1..Len(s)
  BY <1>1, LenProperties
<1> HIDE DEF S, t
<1>4. IsSequence(t) /\ DOMAIN t = 1..(Len(s) + 1)
  BY <1>2, SequencesAre
<1>5. ToSet(t) = ToSet(s) \cup {x}
  <2>1. ToSet(t) \subseteq ToSet(s) \cup {x}
    BY <1>2, SequencesAre DEF S
  <2>2. x \in ToSet(t)
    BY <1>2, <1>3, <1>4 DEF ToSet
  <2>3. \A y \in ToSet(s) : y \in ToSet(t)
    <3> TAKE y \in ToSet(s)
    <3>1. PICK i \in 1..Len(s) : s[i] = y
      BY <1>3 DEF ToSet
    <3>2. i \in DOMAIN t /\ t[i] = y
      BY <1>2, <1>3, <1>4, <3>1
    <3> QED
      BY <3>2 DEF ToSet
  <2> QED
    BY <2>1, <2>2, <2>3
<1> QED
  BY <1>2, <1>3, <1>4, <1>5 DEF t

\* The first taken off.
LEMMA OneLess ==
    ASSUME NEW s, IsSequence(s), s # <<>>
    PROVE  /\ IsSequence(Tail(s)) /\ Len(s) \in Nat \ {0} /\ Len(Tail(s)) = Len(s) - 1
           /\ DOMAIN s = 1..Len(s) /\ DOMAIN Tail(s) = 1..(Len(s) - 1)
           /\ Head(s) = s[1]
           /\ \A i \in 1..(Len(s) - 1) : Tail(s)[i] = s[i + 1]
<1>1. s \in Seq(ToSet(s))
  BY DEF IsSequence
<1>2. Len(s) \in Nat /\ DOMAIN s = 1..Len(s) /\ Len(s) # 0
  <2>1. Len(s) \in Nat /\ DOMAIN s = 1..Len(s)
    BY <1>1, LenProperties
  <2>2. Len(s) = 0 => s = <<>>
    BY <1>1, EmptySeq
  <2> QED
    BY <2>1, <2>2
<1>3. /\ Tail(s) \in Seq(ToSet(s)) /\ Len(Tail(s)) = Len(s) - 1
      /\ \A i \in 1..Len(Tail(s)) : Tail(s)[i] = s[i + 1]
  BY <1>1, HeadTailProperties
<1>4. IsSequence(Tail(s)) /\ DOMAIN Tail(s) = 1..Len(Tail(s))
  BY <1>3, SequencesAre
<1>5. Head(s) = s[1]
  BY <1>1 DEF Head
<1> QED
  BY <1>2, <1>3, <1>4, <1>5

\* The last position taken with the rest.
LEMMA OnePlaceMore ==
    ASSUME NEW rows, IsSequence(rows), rows # <<>>, NEW places \in SUBSET (DOMAIN rows),
           Len(rows) \notin places
    PROVE  AtPlaces(rows, places \cup {Len(rows)}) = Append(AtPlaces(rows, places), rows[Len(rows)])
<1> DEFINE n == Len(rows)
           more == places \cup {n}
           c == Cardinality(places)
           S == ToSet(rows)
<1>1. rows \in Seq(S) /\ n \in Nat /\ n >= 1 /\ DOMAIN rows = 1..n
  BY OneLess DEF IsSequence
<1>2. /\ IsFiniteSet(places) /\ c \in Nat /\ places \in SUBSET (1..n)
      /\ more \in SUBSET (1..n) /\ n \in more
  <2>1. places \in SUBSET (1..n) /\ more \in SUBSET (1..n) /\ n \in more
    BY <1>1
  <2> HIDE DEF n
  <2> QED
    BY <1>1, <2>1, PlacesAreNumbered
<1>3. Cardinality(more) = c + 1
  BY <1>2, FS_AddElement
<1> HIDE DEF c
<1>4. /\ AtPlaces(rows, places) \in Seq(S) /\ Len(AtPlaces(rows, places)) = c
      /\ \A k \in 1..c : AtPlaces(rows, places)[k] = rows[Place(places, k)]
  BY <1>1, <1>2, TakenAreElements DEF c
<1>5. /\ AtPlaces(rows, more) \in Seq(S) /\ Len(AtPlaces(rows, more)) = c + 1
      /\ \A k \in 1..(c + 1) : AtPlaces(rows, more)[k] = rows[Place(more, k)]
  <2>1. more \in SUBSET (DOMAIN rows)
    BY <1>1, <1>2
  <2> HIDE DEF more, n
  <2>2. /\ AtPlaces(rows, more) \in Seq(S) /\ Len(AtPlaces(rows, more)) = Cardinality(more)
        /\ \A k \in 1..Cardinality(more) : AtPlaces(rows, more)[k] = rows[Place(more, k)]
    BY <1>1, <2>1, TakenAreElements
  <2> QED
    BY <1>3, <2>2
<1>6. \A p, q \in more : UpTo(more, p) = UpTo(more, q) => p = q
  <2> HIDE DEF more
  <2> QED
    BY <1>1, <1>2, PlacesAreNumbered
<1>7. \A k \in 1..(c + 1) : Place(more, k) \in more /\ UpTo(more, Place(more, k)) = k
  <2> HIDE DEF more
  <2> QED
    BY <1>1, <1>2, <1>3, PlacesAreTaken
<1>8. ASSUME NEW k \in 1..c
      PROVE  Place(more, k) = Place(places, k)
  <2> DEFINE i == Place(places, k)
  <2>1. i \in places /\ UpTo(places, i) = k
    BY <1>1, <1>2, PlacesAreTaken DEF c
  <2> HIDE DEF i
  <2>2. i \in 1..n /\ i < n
    BY <1>1, <1>2, <2>1
  <2>3. {j \in more : j <= i} = {j \in places : j <= i}
    BY <1>1, <1>2, <2>2
  <2>4. UpTo(more, i) = k /\ i \in more
    BY <2>1, <2>3 DEF UpTo
  <2>5. k \in 1..(c + 1)
    BY <1>2
  <2>6. Place(more, k) = i
    BY <1>6, <1>7, <2>4, <2>5
  <2> QED
    BY <2>6 DEF i
<1>9. Place(more, c + 1) = n
  <2>1. {j \in more : j <= n} = more
    BY <1>1, <1>2
  <2>2. UpTo(more, n) = c + 1
    BY <1>3, <2>1 DEF UpTo
  <2>3. c + 1 \in 1..(c + 1)
    BY <1>2
  <2> HIDE DEF more
  <2> QED
    BY <1>2, <1>6, <1>7, <2>2, <2>3
<1> DEFINE short == AtPlaces(rows, places)
           long == AtPlaces(rows, more)
           x == rows[n]
<1>10. x \in S
  BY <1>1 DEF ToSet
<1> HIDE DEF short, long, more, x
<1>11. /\ Append(short, x) \in Seq(S) /\ Len(Append(short, x)) = c + 1
       /\ \A k \in 1..c : Append(short, x)[k] = short[k]
       /\ Append(short, x)[c + 1] = x
  BY <1>4, <1>10, AppendProperties DEF short
<1>12. \A k \in 1..(c + 1) : long[k] = Append(short, x)[k]
  <2> TAKE k \in 1..(c + 1)
  <2>1. k \in 1..c \/ k = c + 1
    BY <1>2
  <2>2. CASE k \in 1..c
    BY <1>4, <1>5, <1>8, <1>11, <2>2 DEF short, long
  <2>3. CASE k = c + 1
    BY <1>5, <1>9, <1>11, <2>3 DEF long, x
  <2> QED
    BY <2>1, <2>2, <2>3
<1>13. long = Append(short, x)
  <2> DEFINE other == Append(short, x)
  <2>1. /\ long \in [1..Len(long) -> S] /\ Len(long) = c + 1
        /\ other \in [1..Len(other) -> S] /\ Len(other) = c + 1
    BY <1>5, <1>11, LenProperties DEF long
  <2> HIDE DEF other
  <2>2. /\ long = [k \in 1..(c + 1) |-> long[k]] /\ other = [k \in 1..(c + 1) |-> other[k]]
    BY <2>1
  <2>3. \A k \in 1..(c + 1) : long[k] = other[k]
    BY <1>12 DEF other
  <2>4. long = other
    BY <2>2, <2>3
  <2> QED
    BY <2>4 DEF other
<1> QED
  BY <1>13 DEF long, short, x, more

\* What is taken from a sequence stays when another is added to it.
LEMMA PlacesStay ==
    ASSUME NEW rows, IsSequence(rows), NEW places \in SUBSET (DOMAIN rows), NEW x
    PROVE  /\ AtPlaces(Append(rows, x), places) = AtPlaces(rows, places)
           /\ places \in SUBSET (DOMAIN Append(rows, x))
<1> DEFINE n == Len(rows)
           c == Cardinality(places)
           longer == Append(rows, x)
<1>1. /\ DOMAIN rows = 1..n /\ n \in Nat /\ DOMAIN longer = 1..(n + 1)
      /\ \A i \in 1..n : longer[i] = rows[i]
  BY OneMore
<1> HIDE DEF longer
<1>2. \A k \in 1..c : Place(places, k) \in places
  BY <1>1, PlacesAreTaken
<1> HIDE DEF c, n
<1>3. \A k \in 1..c : longer[Place(places, k)] = rows[Place(places, k)]
  BY <1>1, <1>2
<1>4. /\ AtPlaces(longer, places) = [k \in 1..c |-> longer[Place(places, k)]]
      /\ AtPlaces(rows, places) = [k \in 1..c |-> rows[Place(places, k)]]
  BY DEF AtPlaces, Place, UpTo, c
<1>5. places \in SUBSET (DOMAIN longer)
  BY <1>1
<1> QED
  BY <1>3, <1>4, <1>5 DEF longer

AppFields == {"loop", "token", "summary", "row", "spark", "sparkDue", "input", "aimed", "cooling"}
TaskFields == {"kind", "what", "pc", "answer"}
TaskKinds == {"summary", "spark", "action"}

IsTask(t) ==
    /\ DOMAIN t = TaskFields /\ t.kind \in TaskKinds /\ t.pc \in {"asked", "answered"}
    /\ t.pc = "asked" => t.answer = Nothing

\* An open bar aims at a monitor or at none.
DashTypes ==
    /\ session \in Sessions /\ DOMAIN app = AppFields
    /\ app.summary \in Summaries(session) \cup {Nothing}
    /\ \/ app.input = Nothing
       \/ app.input = [kind |-> "announce", id |-> Nothing]
       \/ app.input = [kind |-> "silence", id |-> app.aimed]
    /\ server \in [rows : Listed(session), reloads : 0..session.reloads]
    /\ \A t \in tasks : IsTask(t)
    /\ IsSequence(results)
    /\ \A i \in 1..Len(results) : results[i].kind \in TaskKinds

\* What the loop does to the tasks: some are dropped, and one may be started, with its
\* write handed over when it is an action.
IsNew(x) ==
    /\ IsTask(x) /\ x.pc = "asked"
    /\ x.kind # "spark" => ~InFlight(x.kind)
Hands(x) == IF x.kind = "action" THEN handed' = Append(handed, x.what) ELSE UNCHANGED handed
TaskStarts == \E x : tasks' \subseteq tasks \cup {x} /\ IsNew(x) /\ Hands(x)

\* A summary that came.
Told(x) == x.kind = "summary" /\ x.answer.status = "ok"

\* What a step of the loop keeps, but for a result it takes.
LoopStep ==
    /\ UNCHANGED <<session, results, server, performed>> /\ TaskStarts
    /\ app'.summary = app.summary
TakeStep ==
    /\ UNCHANGED <<session, server, performed>> /\ TaskStarts
    /\ results # <<>> /\ results' = Tail(results)
    /\ \/ app'.summary = app.summary
       \/ /\ Told(results[1])
          /\ app'.summary = [rows |-> results[1].answer.rows, ver |-> results[1].answer.ver]

LEMMA NewTasks ==
    ASSUME NEW kind \in TaskKinds, NEW what
    PROVE  /\ IsTask(Task(kind, what)) /\ Task(kind, what).pc = "asked"
           /\ Task(kind, what).kind = kind /\ Task(kind, what).what = what
  BY DEF Task, IsTask, TaskFields

\* The ways to change the tasks.
LEMMA NothingStarts ==
    ASSUME UNCHANGED <<tasks, handed>> PROVE TaskStarts
<1> DEFINE x == Task("spark", Nothing)
<1>1. IsTask(x) /\ x.pc = "asked" /\ x.kind = "spark"
  BY NewTasks DEF TaskKinds
<1> HIDE DEF x
<1>2. IsNew(x) /\ Hands(x)
  BY <1>1 DEF IsNew, Hands
<1> QED
  BY <1>2 DEF TaskStarts

LEMMA SummaryStarts ==
    ASSUME tasks' = WithSummary, UNCHANGED handed PROVE TaskStarts
<1>1. CASE InFlight("summary")
  BY <1>1, NothingStarts DEF WithSummary
<1>2. CASE ~InFlight("summary")
  <2> DEFINE x == Task("summary", Nothing)
  <2>1. IsTask(x) /\ x.pc = "asked" /\ x.kind = "summary"
    BY NewTasks DEF TaskKinds
  <2>2. tasks' = tasks \cup {x}
    BY <1>2 DEF WithSummary
  <2> HIDE DEF x
  <2>3. IsNew(x) /\ Hands(x)
    BY <1>2, <2>1 DEF IsNew, Hands
  <2> QED
    BY <2>2, <2>3 DEF TaskStarts
<1> QED
  BY <1>1, <1>2

LEMMA SparkStarts ==
    ASSUME NEW id, tasks' = WithSpark(id), UNCHANGED handed PROVE TaskStarts
<1> DEFINE x == Task("spark", id)
<1>1. IsTask(x) /\ x.pc = "asked" /\ x.kind = "spark"
  BY NewTasks DEF TaskKinds
<1>2. tasks' \subseteq tasks \cup {x}
  BY DEF WithSpark
<1> HIDE DEF x
<1>3. IsNew(x) /\ Hands(x)
  BY <1>1 DEF IsNew, Hands
<1> QED
  BY <1>2, <1>3 DEF TaskStarts

\* The write handed over is the one typed.
LEMMA ActionStarts ==
    ASSUME NEW write, StartAction(write),
           \/ write = [kind |-> "announce", id |-> Nothing]
           \/ write = [kind |-> "clear", id |-> Nothing]
           \/ write = [kind |-> "silence", id |-> app.aimed]
    PROVE  TaskStarts
<1>1. CASE app.token /\ ~InFlight("action") /\ Len(handed) < session.writes
  <2> DEFINE x == Task("action", write)
  <2>1. IsTask(x) /\ x.pc = "asked" /\ x.kind = "action" /\ x.what = write
    BY NewTasks DEF TaskKinds
  <2>2. [write EXCEPT !.id = IF write.kind = "silence" THEN app.aimed ELSE Nothing] = write
    OBVIOUS
  <2>3. tasks' = tasks \cup {x} /\ handed' = Append(handed, write)
    BY <1>1, <2>2 DEF StartAction
  <2> HIDE DEF x
  <2>4. IsNew(x) /\ Hands(x)
    BY <1>1, <2>1, <2>3 DEF IsNew, Hands
  <2> QED
    BY <2>3, <2>4 DEF TaskStarts
<1>2. CASE ~(app.token /\ ~InFlight("action") /\ Len(handed) < session.writes)
  BY <1>2, NothingStarts DEF StartAction
<1> QED
  BY <1>1, <1>2

\* The loop: its actions but the taking of a result.
LEMMA LoopSteps ==
    ASSUME DashTypes, UNCHANGED session,
           \/ TopTick \/ CooldownEnds \/ SparkTimer
           \/ \E delta \in {-1, 1} : Moves(delta)
           \/ OpensBar \/ Submits \/ Escapes \/ Clears \/ Quits
    PROVE  /\ LoopStep /\ DOMAIN app' = AppFields
           /\ \/ app'.input = Nothing
              \/ app'.input = [kind |-> "announce", id |-> Nothing]
              \/ app'.input = [kind |-> "silence", id |-> app'.aimed]
<1> DEFINE InputIs == \/ app'.input = Nothing
                      \/ app'.input = [kind |-> "announce", id |-> Nothing]
                      \/ app'.input = [kind |-> "silence", id |-> app'.aimed]
           Goal == LoopStep /\ DOMAIN app' = AppFields /\ InputIs
<1>0. DOMAIN app = AppFields
  BY DEF DashTypes
<1>1. CASE TopTick
  <2>1. TaskStarts
    BY <1>1, NothingStarts, SummaryStarts DEF TopTick
  <2> QED
    BY <1>1, <2>1 DEF TopTick, ServerRests, LoopStep, DashTypes
<1>2. CASE CooldownEnds
  <2>1. TaskStarts
    BY <1>2, NothingStarts DEF CooldownEnds
  <2>2. /\ DOMAIN app' = AppFields /\ app'.summary = app.summary
        /\ app'.input = app.input /\ app'.aimed = app.aimed
    BY <1>0, <1>2 DEF CooldownEnds, AppFields
  <2> QED
    BY <1>2, <2>1, <2>2 DEF CooldownEnds, ServerRests, LoopStep, DashTypes
<1>3. CASE SparkTimer
  <2>1. TaskStarts
    BY <1>3, NothingStarts, SparkStarts DEF SparkTimer
  <2>2. /\ DOMAIN app' = AppFields /\ app'.summary = app.summary
        /\ app'.input = app.input /\ app'.aimed = app.aimed
    BY <1>0, <1>3 DEF SparkTimer, AppFields
  <2> QED
    BY <1>3, <2>1, <2>2 DEF SparkTimer, ServerRests, LoopStep, DashTypes
<1>4. ASSUME NEW delta \in {-1, 1}, Moves(delta) PROVE Goal
  <2>1. TaskStarts
    BY <1>4, NothingStarts DEF Moves
  <2>2. /\ DOMAIN app' = AppFields /\ app'.summary = app.summary
        /\ app'.input = app.input /\ app'.aimed = app.aimed
    BY <1>0, <1>4 DEF Moves, AppFields
  <2> QED
    BY <1>4, <2>1, <2>2 DEF Moves, ServerRests, LoopStep, DashTypes
<1>5. CASE OpensBar
  <2>1. TaskStarts
    BY <1>5, NothingStarts DEF OpensBar
  <2>2. DOMAIN app' = AppFields /\ app'.summary = app.summary /\ InputIs
    BY <1>0, <1>5 DEF OpensBar, AppFields
  <2> QED
    BY <1>5, <2>1, <2>2 DEF OpensBar, ServerRests, LoopStep
<1>6. CASE Submits
  <2>1. /\ DOMAIN app' = AppFields /\ app'.summary = app.summary /\ app'.input = Nothing
    BY <1>0, <1>6 DEF Submits, AppFields
  <2>2. CASE UNCHANGED <<tasks, handed>>
    BY <1>6, <2>1, <2>2, NothingStarts DEF Submits, ServerRests, LoopStep
  <2>3. CASE StartAction(app.input)
    <3>1. app.input # Nothing
      BY <1>6 DEF Submits
    <3>2. TaskStarts
      BY <2>3, <3>1, ActionStarts DEF DashTypes
    <3> QED
      BY <1>6, <2>1, <3>2 DEF Submits, ServerRests, LoopStep
  <2> QED
    BY <1>6, <2>2, <2>3 DEF Submits
<1>7. CASE Escapes
  <2>1. /\ DOMAIN app' = AppFields /\ app'.summary = app.summary /\ app'.input = Nothing
    BY <1>0, <1>7 DEF Escapes, AppFields
  <2> QED
    BY <1>7, <2>1, NothingStarts DEF Escapes, ServerRests, LoopStep
<1>8. CASE Clears
  <2>1. TaskStarts
    BY <1>8, ActionStarts DEF Clears
  <2> QED
    BY <1>8, <2>1 DEF Clears, ServerRests, LoopStep, DashTypes
<1>9. CASE Quits
  <2>1. DOMAIN app' = AppFields /\ app'.summary = app.summary
        /\ app'.input = app.input /\ app'.aimed = app.aimed
    BY <1>0, <1>9 DEF Quits, AppFields
  <2>2. TaskStarts
    <3> DEFINE x == Task("spark", Nothing)
    <3>1. IsTask(x) /\ x.pc = "asked" /\ x.kind = "spark"
      BY NewTasks DEF TaskKinds
    <3> HIDE DEF x
    <3>2. IsNew(x) /\ Hands(x) /\ tasks' \subseteq tasks \cup {x}
      BY <1>9, <3>1 DEF IsNew, Hands, Quits
    <3> QED
      BY <3>2 DEF TaskStarts
  <2> QED
    BY <1>9, <2>1, <2>2 DEF Quits, ServerRests, LoopStep, DashTypes
<1> QED
  BY <1>1, <1>2, <1>3, <1>4, <1>5, <1>6, <1>7, <1>8, <1>9

\* The result taken is the first.
LEMMA Takes ==
    ASSUME DashTypes, Apply
    PROVE  /\ IsOn /\ results # <<>> /\ results' = Tail(results)
           /\ UNCHANGED <<server, handed, performed>>
           /\ \/ results[1].kind = "summary" /\ ApplySummary(results[1].answer)
              \/ results[1].kind = "spark" /\ ApplySpark(results[1].what, results[1].answer)
              \/ results[1].kind = "action" /\ ApplyAction
<1>1. IsOn /\ results # <<>> /\ results' = Tail(results) /\ UNCHANGED <<server, handed, performed>>
  BY DEF Apply
<1>2. Head(results) = results[1] /\ 1 \in 1..Len(results)
  BY <1>1, OneLess DEF DashTypes
<1>3. results[1].kind \in TaskKinds
  BY <1>2 DEF DashTypes
<1> DEFINE done == results[1]
<1>4. CASE done.kind = "summary"
  <2>1. ApplySummary(done.answer)
    BY <1>2, <1>4 DEF Apply
  <2> QED
    BY <1>1, <1>4, <2>1
<1>5. CASE done.kind = "spark"
  <2>1. ApplySpark(done.what, done.answer)
    BY <1>2, <1>5 DEF Apply
  <2> QED
    BY <1>1, <1>5, <2>1
<1>6. CASE done.kind = "action"
  <2>1. ApplyAction
    BY <1>2, <1>6 DEF Apply
  <2> QED
    BY <1>1, <1>6, <2>1
<1> QED
  BY <1>3, <1>4, <1>5, <1>6 DEF TaskKinds

\* A summary that came is folded in, and its sparkline asked for.
LEMMA SummaryIsApplied ==
    ASSUME NEW reply, ApplySummary(reply), DOMAIN app = AppFields
    PROVE  /\ DOMAIN app' = AppFields /\ app'.input = app.input /\ app'.aimed = app.aimed
           /\ app'.loop = app.loop /\ app'.spark = app.spark
           /\ \/ reply.status # "ok" /\ UNCHANGED tasks /\ app'.summary = app.summary
                 /\ app'.row = app.row
              \/ /\ reply.status = "ok"
                 /\ app'.summary = [rows |-> reply.rows, ver |-> reply.ver]
                 /\ Selected # Nothing =>
                      \/ \A i \in DOMAIN reply.rows : reply.rows[i] # Selected
                      \/ app'.row \in DOMAIN reply.rows /\ reply.rows[app'.row] = Selected
                 /\ tasks' = IF SelectedIn(app'.summary, app'.row) = Nothing THEN tasks
                             ELSE WithSpark(SelectedIn(app'.summary, app'.row))
<1>1. CASE reply.status # "ok"
  <2>1. app' = [app EXCEPT !.cooling = @ \/ reply.status = "limited"] /\ UNCHANGED tasks
    BY <1>1 DEF ApplySummary
  <2> QED
    BY <1>1, <2>1 DEF AppFields
<1>2. CASE reply.status = "ok"
  <2> DEFINE at == {i \in DOMAIN reply.rows : reply.rows[i] = Selected}
             here == IF Selected = Nothing THEN app.row
                     ELSE IF at = {} THEN 1
                     ELSE CHOOSE i \in at : TRUE
             summary == [rows |-> reply.rows, ver |-> reply.ver]
  <2>1. /\ app' = [app EXCEPT !.summary = summary, !.row = here]
        /\ tasks' = IF SelectedIn(summary, here) = Nothing THEN tasks
                    ELSE WithSpark(SelectedIn(summary, here))
    BY <1>2 DEF ApplySummary
  <2>2. Selected # Nothing => at = {} \/ here \in at
    OBVIOUS
  <2>3. Selected # Nothing =>
           \/ \A i \in DOMAIN reply.rows : reply.rows[i] # Selected
           \/ here \in DOMAIN reply.rows /\ reply.rows[here] = Selected
    BY <2>2
  <2> HIDE DEF at, here, summary
  <2>4. /\ DOMAIN app' = AppFields /\ app'.input = app.input /\ app'.aimed = app.aimed
        /\ app'.loop = app.loop /\ app'.spark = app.spark
        /\ app'.summary = summary /\ app'.row = here
    BY <2>1 DEF AppFields
  <2>5. tasks' = IF SelectedIn(app'.summary, app'.row) = Nothing THEN tasks
                 ELSE WithSpark(SelectedIn(app'.summary, app'.row))
    BY <2>1, <2>4
  <2> QED
    BY <1>2, <2>3, <2>4, <2>5 DEF summary
<1> QED
  BY <1>1, <1>2

LEMMA TakeSteps ==
    ASSUME DashTypes, UNCHANGED session, Apply
    PROVE  /\ TakeStep /\ DOMAIN app' = AppFields
           /\ app'.input = app.input /\ app'.aimed = app.aimed
<1>0. DOMAIN app = AppFields
  BY DEF DashTypes
<1>1. IsOn /\ results # <<>> /\ results' = Tail(results) /\ UNCHANGED <<server, handed, performed>>
  BY Takes
<1>2. CASE results[1].kind = "summary" /\ ApplySummary(results[1].answer)
  <2>1. CASE results[1].answer.status # "ok"
    <3>1. /\ DOMAIN app' = AppFields /\ app'.input = app.input /\ app'.aimed = app.aimed
          /\ UNCHANGED tasks /\ app'.summary = app.summary
      BY <1>0, <1>2, <2>1, SummaryIsApplied
    <3>2. TaskStarts
      BY <1>1, <3>1, NothingStarts
    <3> QED
      BY <1>1, <3>1, <3>2 DEF TakeStep
  <2>2. CASE results[1].answer.status = "ok"
    <3>1. /\ DOMAIN app' = AppFields /\ app'.input = app.input /\ app'.aimed = app.aimed
          /\ app'.summary = [rows |-> results[1].answer.rows, ver |-> results[1].answer.ver]
          /\ tasks' = IF SelectedIn(app'.summary, app'.row) = Nothing THEN tasks
                      ELSE WithSpark(SelectedIn(app'.summary, app'.row))
      BY <1>0, <1>2, <2>2, SummaryIsApplied
    <3>2. TaskStarts
      BY <1>1, <3>1, NothingStarts, SparkStarts
    <3> QED
      BY <1>1, <1>2, <2>2, <3>1, <3>2 DEF TakeStep, Told
  <2> QED
    BY <2>1, <2>2
<1>3. CASE results[1].kind = "spark" /\ ApplySpark(results[1].what, results[1].answer)
  <2>1. /\ DOMAIN app' = AppFields /\ app'.input = app.input /\ app'.aimed = app.aimed
        /\ UNCHANGED tasks /\ app'.summary = app.summary
    BY <1>0, <1>3 DEF ApplySpark, AppFields
  <2> QED
    BY <1>1, <2>1, NothingStarts DEF TakeStep
<1>4. CASE results[1].kind = "action" /\ ApplyAction
  <2>1. TaskStarts
    BY <1>1, <1>4, SummaryStarts DEF ApplyAction
  <2> QED
    BY <1>0, <1>1, <1>4, <2>1 DEF TakeStep, ApplyAction
<1> QED
  BY <1>2, <1>3, <1>4, Takes

\* A task answered, and one that reports.
AnswerStep(t, u) ==
    /\ t \in tasks /\ t.pc = "asked" /\ t.kind # "spark"
    /\ tasks' = (tasks \ {t}) \cup {u}
    /\ IsTask(u) /\ u.pc = "answered" /\ u.kind = t.kind /\ u.what = t.what
    /\ UNCHANGED <<app, results, server, handed>>
    /\ Told(u) => u.answer.rows = server.rows /\ u.answer.ver = server.reloads
    /\ \/ UNCHANGED performed /\ (u.kind = "action" => u.answer.status # "ok")
       \/ u.kind = "action" /\ performed' = Append(performed, u.what)
ReportStep(t, r) ==
    /\ t \in tasks /\ tasks' = tasks \ {t} /\ results' = Append(results, r)
    /\ UNCHANGED <<app, server, handed, performed>>
    /\ r.kind = t.kind /\ r.what = t.what
    /\ r.kind # "spark" => t.pc = "answered" /\ r.answer = t.answer

LEMMA AnswerSteps ==
    ASSUME DashTypes, NEW t \in tasks, Serves(t) \/ Refuses(t)
    PROVE  \E u : AnswerStep(t, u)
<1>0. IsTask(t) /\ DOMAIN t = TaskFields
  BY DEF DashTypes, IsTask
<1>1. ASSUME NEW reply
      PROVE  LET u == [t EXCEPT !.pc = "answered", !.answer = reply]
             IN /\ IsTask(u) /\ u.pc = "answered" /\ u.kind = t.kind /\ u.what = t.what
                /\ u.answer = reply
  BY <1>0 DEF IsTask, TaskFields
<1>2. CASE Serves(t)
  <2> DEFINE reply == IF t.kind = "summary"
                       THEN [status |-> "ok", rows |-> server.rows, ver |-> server.reloads]
                       ELSE [status |-> "ok"]
             u == [t EXCEPT !.pc = "answered", !.answer = reply]
  <2>1. /\ IsTask(u) /\ u.pc = "answered" /\ u.kind = t.kind /\ u.what = t.what
        /\ u.answer = reply
    BY <1>1
  <2>2. /\ t.pc = "asked" /\ t.kind # "spark" /\ tasks' = (tasks \ {t}) \cup {u}
        /\ UNCHANGED <<app, results, server, handed>>
        /\ performed' = IF t.kind = "action" THEN Append(performed, t.what) ELSE performed
    BY <1>2 DEF Serves, Becomes
  <2>3. t.kind = "summary" => reply.rows = server.rows /\ reply.ver = server.reloads
    OBVIOUS
  <2> HIDE DEF u, reply
  <2>4. AnswerStep(t, u)
    BY <2>1, <2>2, <2>3 DEF AnswerStep, Told
  <2> QED
    BY <2>4
<1>3. CASE Refuses(t)
  <2>1. /\ t.pc = "asked" /\ t.kind # "spark" /\ UNCHANGED <<app, results, server, handed>>
        /\ UNCHANGED performed \/ (t.kind = "action" /\ performed' = Append(performed, t.what))
    BY <1>3 DEF Refuses
  <2>2. PICK status \in {"limited", "error"} : Becomes(t, "answered", [status |-> status])
    BY <1>3 DEF Refuses
  <2> DEFINE reply == [status |-> status]
             u == [t EXCEPT !.pc = "answered", !.answer = reply]
  <2>3. /\ IsTask(u) /\ u.pc = "answered" /\ u.kind = t.kind /\ u.what = t.what
        /\ u.answer = reply
    BY <1>1
  <2>4. tasks' = (tasks \ {t}) \cup {u}
    BY <2>2 DEF Becomes
  <2>5. reply.status # "ok"
    OBVIOUS
  <2> HIDE DEF u, reply
  <2>6. AnswerStep(t, u)
    BY <2>1, <2>3, <2>4, <2>5 DEF AnswerStep, Told
  <2> QED
    BY <2>6
<1> QED
  BY <1>2, <1>3

LEMMA ReportSteps ==
    ASSUME DashTypes, NEW t \in tasks, Reports(t)
    PROVE  \E r : ReportStep(t, r)
<1>0. IsTask(t)
  BY DEF DashTypes
<1>1. PICK reply \in IF t.kind = "spark" THEN [status : {"ok", "error"}] ELSE {t.answer} :
         /\ reply # Nothing
         /\ results' = Append(results, [kind |-> t.kind, what |-> t.what, answer |-> reply])
  BY DEF Reports
<1> DEFINE r == [kind |-> t.kind, what |-> t.what, answer |-> reply]
<1>2. tasks' = tasks \ {t} /\ UNCHANGED <<app, server, handed, performed>>
  BY DEF Reports
<1>3. r.kind = t.kind /\ r.what = t.what /\ r.answer = reply
  OBVIOUS
<1>4. t.kind # "spark" => reply = t.answer /\ t.pc = "answered"
  BY <1>0, <1>1 DEF IsTask
<1> HIDE DEF r
<1>5. results' = Append(results, r)
  BY <1>1 DEF r
<1>6. ReportStep(t, r)
  BY <1>2, <1>3, <1>4, <1>5 DEF ReportStep
<1> QED
  BY <1>6

\* Every step is one of these.
Steps ==
    \/ LoopStep \/ TakeStep
    \/ \E t, u : UNCHANGED session /\ AnswerStep(t, u)
    \/ \E t, r : UNCHANGED session /\ ReportStep(t, r)
    \/ UNCHANGED session /\ ServerReloads

LEMMA StepsAre ==
    ASSUME DashTypes, DashboardNext
    PROVE  /\ Steps /\ UNCHANGED session /\ DOMAIN app' = AppFields
           /\ \/ app'.input = Nothing
              \/ app'.input = [kind |-> "announce", id |-> Nothing]
              \/ app'.input = [kind |-> "silence", id |-> app'.aimed]
<1>1. UNCHANGED session
  BY DEF DashboardNext
<1>2. CASE \/ TopTick \/ CooldownEnds \/ SparkTimer
           \/ \E delta \in {-1, 1} : Moves(delta)
           \/ OpensBar \/ Submits \/ Escapes \/ Clears \/ Quits
  BY <1>1, <1>2, LoopSteps DEF Steps
<1>3. CASE Apply
  BY <1>1, <1>3, TakeSteps DEF Steps, DashTypes
<1>4. CASE ServerReloads
  BY <1>1, <1>4 DEF Steps, ServerReloads, DashTypes
<1>5. ASSUME NEW t \in tasks, Serves(t) \/ Refuses(t)
      PROVE  Steps /\ UNCHANGED app
  <2>1. PICK u : AnswerStep(t, u)
    BY <1>5, AnswerSteps
  <2> QED
    BY <1>1, <2>1 DEF Steps, AnswerStep
<1>6. ASSUME NEW t \in tasks, Reports(t)
      PROVE  Steps /\ UNCHANGED app
  <2>1. PICK r : ReportStep(t, r)
    BY <1>6, ReportSteps
  <2> QED
    BY <1>1, <2>1 DEF Steps, ReportStep
<1> QED
  BY <1>1, <1>2, <1>3, <1>4, <1>5, <1>6 DEF DashboardNext, DashTypes

\* A summary on its way is of a list the server may show, and no older than the one
\* on the screen.
Newer(reply) ==
    /\ reply.rows \in Listed(session) /\ reply.ver \in 0..server.reloads
    /\ app.summary # Nothing => app.summary.ver <= reply.ver

\* Summaries arrive in the order they were made: one is asked for at a time.
VersionsInv ==
    /\ app.summary # Nothing => app.summary.ver <= server.reloads
    /\ \A t, u \in tasks : t.kind = "summary" /\ u.kind = "summary" => t = u
    /\ \A i \in 1..Len(results) : Told(results[i]) => Newer(results[i].answer)
    /\ \A i, j \in 1..Len(results) :
          i < j /\ Told(results[i]) /\ Told(results[j])
            => results[i].answer.ver <= results[j].answer.ver
    /\ \A t \in tasks : t.pc = "answered" /\ Told(t) =>
          /\ Newer(t.answer)
          /\ \A i \in 1..Len(results) :
                Told(results[i]) => results[i].answer.ver <= t.answer.ver

LEMMA ServerIs ==
    ASSUME DashTypes
    PROVE  /\ session \in Sessions /\ session.reloads \in Nat
           /\ server = [rows |-> server.rows, reloads |-> server.reloads]
           /\ server.rows \in Listed(session) /\ server.reloads \in Nat
           /\ server.reloads <= session.reloads
           /\ Nothing \notin Summaries(session)
           /\ app.summary # Nothing =>
                /\ app.summary = [rows |-> app.summary.rows, ver |-> app.summary.ver]
                /\ app.summary.rows \in Listed(session) /\ app.summary.ver \in 0..session.reloads
<1>1. session \in Sessions /\ server \in [rows : Listed(session), reloads : 0..session.reloads]
      /\ app.summary \in Summaries(session) \cup {Nothing}
  BY DEF DashTypes
<1>2. session.reloads \in Nat /\ Nothing \notin Summaries(session)
  BY <1>1, DashboardAssumption
<1>3. app.summary # Nothing => app.summary \in [rows : Listed(session), ver : 0..session.reloads]
  BY <1>1 DEF Summaries
<1> QED
  BY <1>1, <1>2, <1>3

\* One of a kind stays one of a kind.
LEMMA OneOfAKind ==
    ASSUME NEW kind \in {"summary", "action"},
           \A t, u \in tasks : t.kind = kind /\ u.kind = kind => t = u, TaskStarts
    PROVE  \A t, u \in tasks' : t.kind = kind /\ u.kind = kind => t = u
<1>1. PICK x : tasks' \subseteq tasks \cup {x} /\ IsNew(x)
  BY DEF TaskStarts
<1>2. x.kind = kind => \A t \in tasks : t.kind # kind
  BY <1>1 DEF IsNew, InFlight
<1> QED
  BY <1>1, <1>2

LEMMA TypesStep ==
    ASSUME DashTypes, VersionsInv, DashboardNext
    PROVE  DashTypes'
<1>1. /\ Steps /\ UNCHANGED session /\ DOMAIN app' = AppFields
      /\ \/ app'.input = Nothing
         \/ app'.input = [kind |-> "announce", id |-> Nothing]
         \/ app'.input = [kind |-> "silence", id |-> app'.aimed]
  BY StepsAre
<1>2. TaskStarts => \A t \in tasks' : IsTask(t)
  BY DEF TaskStarts, IsNew, DashTypes
<1>3. CASE LoopStep
  <2>1. \A t \in tasks' : IsTask(t)
    BY <1>2, <1>3 DEF LoopStep
  <2>2. UNCHANGED <<results, server>> /\ app'.summary = app.summary
    BY <1>3 DEF LoopStep
  <2> QED
    BY <1>1, <2>1, <2>2 DEF DashTypes, IsTask
<1>4. CASE TakeStep
  <2>1. \A t \in tasks' : IsTask(t)
    BY <1>2, <1>4 DEF TakeStep
  <2>2. /\ results # <<>> /\ results' = Tail(results) /\ UNCHANGED server
        /\ \/ app'.summary = app.summary
           \/ /\ Told(results[1])
              /\ app'.summary = [rows |-> results[1].answer.rows, ver |-> results[1].answer.ver]
    BY <1>4 DEF TakeStep
  <2>3. /\ IsSequence(results') /\ Len(results) \in Nat \ {0} /\ Len(results') = Len(results) - 1
        /\ \A i \in 1..(Len(results) - 1) : results'[i] = results[i + 1]
    BY <2>2, OneLess DEF DashTypes
  <2>4. \A i \in 1..Len(results') : results'[i].kind \in TaskKinds
    BY <2>3 DEF DashTypes
  <2>5. app'.summary \in Summaries(session) \cup {Nothing}
    <3>1. CASE app'.summary = app.summary
      BY <3>1 DEF DashTypes
    <3>2. CASE /\ Told(results[1])
               /\ app'.summary = [rows |-> results[1].answer.rows, ver |-> results[1].answer.ver]
      <4>1. 1 \in 1..Len(results)
        BY <2>3
      <4>2. results[1].answer.rows \in Listed(session) /\ results[1].answer.ver \in 0..server.reloads
        BY <3>2, <4>1 DEF VersionsInv, Newer
      <4>3. results[1].answer.ver \in 0..session.reloads
        BY <4>2, ServerIs
      <4> QED
        BY <3>2, <4>2, <4>3 DEF Summaries
    <3> QED
      BY <2>2, <3>1, <3>2
  <2> QED
    BY <1>1, <2>1, <2>2, <2>3, <2>4, <2>5 DEF DashTypes, IsTask
<1>5. ASSUME NEW t, NEW u, AnswerStep(t, u) PROVE DashTypes'
  <2>1. UNCHANGED <<app, results, server>> /\ \A v \in tasks' : IsTask(v)
    BY <1>5 DEF AnswerStep, DashTypes
  <2> QED
    BY <1>1, <2>1 DEF DashTypes, IsTask
<1>6. ASSUME NEW t, NEW r, ReportStep(t, r) PROVE DashTypes'
  <2>1. /\ UNCHANGED <<app, server>> /\ \A v \in tasks' : IsTask(v)
        /\ results' = Append(results, r) /\ r.kind \in TaskKinds
    BY <1>6 DEF ReportStep, DashTypes, IsTask
  <2>2. /\ IsSequence(results') /\ Len(results') = Len(results) + 1 /\ Len(results) \in Nat
        /\ \A i \in 1..Len(results) : results'[i] = results[i]
        /\ results'[Len(results) + 1] = r
    BY <2>1, OneMore DEF DashTypes
  <2>3. \A i \in 1..Len(results') : results'[i].kind \in TaskKinds
    <3> TAKE i \in 1..Len(results')
    <3>1. i \in 1..Len(results) \/ i = Len(results) + 1
      BY <2>2
    <3> QED
      BY <2>1, <2>2, <3>1 DEF DashTypes
  <2> QED
    BY <1>1, <2>1, <2>2, <2>3 DEF DashTypes, IsTask
<1>7. CASE ServerReloads
  <2>1. UNCHANGED <<app, tasks, results>>
    BY <1>7 DEF ServerReloads
  <2>2. server' \in [rows : Listed(session), reloads : 0..session.reloads]
    <3>1. PICK rows \in session.rows : server' = [rows |-> rows, reloads |-> server.reloads + 1]
      BY <1>7 DEF ServerReloads
    <3>2. server.reloads + 1 \in 0..session.reloads
      BY <1>7, ServerIs DEF ServerReloads
    <3> QED
      BY <3>1, <3>2 DEF Listed
  <2> QED
    BY <1>1, <2>1, <2>2 DEF DashTypes, IsTask
<1> QED
  BY <1>1, <1>3, <1>4, <1>5, <1>6, <1>7 DEF Steps

\* The same once a step was taken.
NewerNow(reply) ==
    /\ reply.rows \in Listed(session') /\ reply.ver \in 0..server'.reloads
    /\ app'.summary # Nothing => app'.summary.ver <= reply.ver

LEMMA VersionsStep ==
    ASSUME DashTypes, VersionsInv, DashboardNext
    PROVE  /\ VersionsInv'
           /\ app.summary # Nothing => app'.summary # Nothing /\ app'.summary.ver >= app.summary.ver
<1> DEFINE Goal == /\ VersionsInv'
                   /\ app.summary # Nothing =>
                        app'.summary # Nothing /\ app'.summary.ver >= app.summary.ver
<1>1. Steps /\ UNCHANGED session
  BY StepsAre
<1>2. /\ server.reloads \in Nat
      /\ app.summary # Nothing => app.summary.ver \in Nat
      /\ Nothing \notin Summaries(session)
  BY ServerIs
<1>3. ASSUME TaskStarts, UNCHANGED <<server, results>>, app'.summary = app.summary
      PROVE  VersionsInv'
  <2>1. \A t, u \in tasks' : t.kind = "summary" /\ u.kind = "summary" => t = u
    BY <1>3, OneOfAKind DEF VersionsInv
  <2>2. \A t \in tasks' : t \in tasks \/ t.pc = "asked"
    BY <1>3 DEF TaskStarts, IsNew
  <2> QED
    BY <1>1, <1>3, <2>1, <2>2 DEF VersionsInv, Newer, Told
<1>4. CASE LoopStep
  BY <1>2, <1>3, <1>4 DEF LoopStep
<1>5. CASE TakeStep
  <2>1. /\ results # <<>> /\ results' = Tail(results) /\ UNCHANGED server /\ TaskStarts
        /\ \/ app'.summary = app.summary
           \/ /\ Told(results[1])
              /\ app'.summary = [rows |-> results[1].answer.rows, ver |-> results[1].answer.ver]
    BY <1>5 DEF TakeStep
  <2>2. /\ Len(results) \in Nat \ {0} /\ Len(results') = Len(results) - 1
        /\ \A i \in 1..(Len(results) - 1) : results'[i] = results[i + 1]
    BY <2>1, OneLess DEF DashTypes
  <2>3. \A t, u \in tasks' : t.kind = "summary" /\ u.kind = "summary" => t = u
    BY <2>1, OneOfAKind DEF VersionsInv
  <2>4. \A t \in tasks' : t \in tasks \/ t.pc = "asked"
    BY <2>1 DEF TaskStarts, IsNew
  <2>5. ASSUME NEW i \in 1..Len(results')
        PROVE  i + 1 \in 1..Len(results) /\ results'[i] = results[i + 1] /\ 1 < i + 1
    BY <2>2
  <2>6. 1 \in 1..Len(results)
    BY <2>2
  <2>7. \A i, j \in 1..Len(results') :
           i < j /\ Told(results'[i]) /\ Told(results'[j])
             => results'[i].answer.ver <= results'[j].answer.ver
    <3> TAKE i, j \in 1..Len(results')
    <3>1. i < j => i + 1 < j + 1
      OBVIOUS
    <3> QED
      BY <2>5, <3>1 DEF VersionsInv
  <2>8. ASSUME NEW reply, Newer(reply),
               Told(results[1]) => results[1].answer.ver <= reply.ver
        PROVE  NewerNow(reply)
    BY <1>1, <2>1, <2>8 DEF Newer, NewerNow
  <2>9. \A i \in 1..Len(results') : Told(results'[i]) => NewerNow(results'[i].answer)
    <3> TAKE i \in 1..Len(results')
    <3> HAVE Told(results'[i])
    <3>1. Newer(results[i + 1].answer) /\ results'[i] = results[i + 1]
      BY <2>5 DEF VersionsInv
    <3>2. Told(results[1]) => results[1].answer.ver <= results[i + 1].answer.ver
      BY <2>5, <2>6 DEF VersionsInv
    <3> QED
      BY <2>8, <3>1, <3>2
  <2>10. \A t \in tasks' : t.pc = "answered" /\ Told(t) =>
            /\ NewerNow(t.answer)
            /\ \A i \in 1..Len(results') :
                  Told(results'[i]) => results'[i].answer.ver <= t.answer.ver
    <3> TAKE t \in tasks'
    <3> HAVE t.pc = "answered" /\ Told(t)
    <3>1. /\ Newer(t.answer)
          /\ \A i \in 1..Len(results) :
                Told(results[i]) => results[i].answer.ver <= t.answer.ver
      BY <2>4 DEF VersionsInv
    <3>2. NewerNow(t.answer)
      BY <2>6, <2>8, <3>1
    <3> QED
      BY <2>5, <3>1, <3>2
  <2>11. /\ app'.summary # Nothing => app'.summary.ver <= server'.reloads
         /\ app.summary # Nothing => app'.summary # Nothing /\ app'.summary.ver >= app.summary.ver
    <3>1. CASE app'.summary = app.summary
      BY <1>2, <2>1, <3>1 DEF VersionsInv
    <3>2. CASE /\ Told(results[1])
               /\ app'.summary = [rows |-> results[1].answer.rows, ver |-> results[1].answer.ver]
      <4>1. Newer(results[1].answer)
        BY <2>6, <3>2 DEF VersionsInv
      <4>2. results[1].answer.ver \in 0..session.reloads
        BY <4>1, ServerIs DEF Newer
      <4>3. app'.summary \in Summaries(session)
        BY <3>2, <4>1, <4>2 DEF Summaries, Newer
      <4>4. app'.summary.ver = results[1].answer.ver
        BY <3>2
      <4> QED
        BY <1>2, <2>1, <4>1, <4>3, <4>4 DEF Newer
    <3> QED
      BY <2>1, <3>1, <3>2
  <2> QED
    BY <2>3, <2>7, <2>9, <2>10, <2>11 DEF VersionsInv, Told, Newer, NewerNow
<1>6. ASSUME NEW t, NEW u, AnswerStep(t, u) PROVE Goal
  <2>1. /\ UNCHANGED <<app, results, server>> /\ tasks' = (tasks \ {t}) \cup {u}
        /\ t \in tasks /\ u.kind = t.kind
        /\ Told(u) => u.answer.rows = server.rows /\ u.answer.ver = server.reloads
    BY <1>6 DEF AnswerStep
  <2>2. \A v, w \in tasks' : v.kind = "summary" /\ w.kind = "summary" => v = w
    BY <2>1 DEF VersionsInv
  <2>3. Told(u) => /\ Newer(u.answer)
                   /\ \A i \in 1..Len(results) :
                         Told(results[i]) => results[i].answer.ver <= u.answer.ver
    <3> HAVE Told(u)
    <3>1. u.answer.rows \in Listed(session) /\ u.answer.ver \in 0..server.reloads
      BY <2>1, ServerIs
    <3> QED
      BY <1>2, <2>1, <3>1 DEF Newer, VersionsInv
  <2>4. \A v \in tasks' : v.pc = "answered" /\ Told(v) =>
           /\ Newer(v.answer)
           /\ \A i \in 1..Len(results) :
                 Told(results[i]) => results[i].answer.ver <= v.answer.ver
    BY <2>1, <2>3 DEF VersionsInv
  <2> QED
    BY <1>1, <1>2, <2>1, <2>2, <2>4 DEF VersionsInv, Newer, Told
<1>7. ASSUME NEW t, NEW r, ReportStep(t, r) PROVE Goal
  <2>1. /\ UNCHANGED <<app, server>> /\ t \in tasks /\ tasks' = tasks \ {t}
        /\ results' = Append(results, r) /\ r.kind = t.kind
        /\ r.kind # "spark" => t.pc = "answered" /\ r.answer = t.answer
    BY <1>7 DEF ReportStep
  <2>2. /\ Len(results') = Len(results) + 1 /\ Len(results) \in Nat
        /\ \A i \in 1..Len(results) : results'[i] = results[i]
        /\ results'[Len(results) + 1] = r
    BY <2>1, OneMore DEF DashTypes
  <2>3. \A i \in 1..Len(results') :
           (i \in 1..Len(results) /\ results'[i] = results[i]) \/ (i = Len(results) + 1 /\ results'[i] = r)
    BY <2>2
  <2>4. Told(r) => Told(t) /\ t.pc = "answered" /\ r.answer = t.answer
    BY <2>1 DEF Told
  <2>5. Told(r) => /\ Newer(r.answer)
                   /\ \A i \in 1..Len(results) :
                         Told(results[i]) => results[i].answer.ver <= r.answer.ver
                   /\ \A v \in tasks' : ~Told(v)
    BY <2>1, <2>4 DEF VersionsInv, Told
  <2>6. \A i \in 1..Len(results') : Told(results'[i]) => Newer(results'[i].answer)
    BY <2>3, <2>5 DEF VersionsInv
  <2>7. \A i, j \in 1..Len(results') :
           i < j /\ Told(results'[i]) /\ Told(results'[j])
             => results'[i].answer.ver <= results'[j].answer.ver
    <3> TAKE i, j \in 1..Len(results')
    <3> HAVE i < j /\ Told(results'[i]) /\ Told(results'[j])
    <3>1. i \in 1..Len(results) /\ results'[i] = results[i]
      BY <2>2, <2>3
    <3> QED
      BY <2>3, <2>5, <3>1 DEF VersionsInv
  <2>8. \A v \in tasks' : v.pc = "answered" /\ Told(v) =>
           /\ Newer(v.answer)
           /\ \A i \in 1..Len(results') :
                 Told(results'[i]) => results'[i].answer.ver <= v.answer.ver
    <3> TAKE v \in tasks'
    <3> HAVE v.pc = "answered" /\ Told(v)
    <3>1. v \in tasks /\ ~Told(r)
      BY <2>1, <2>5
    <3> QED
      BY <2>3, <3>1 DEF VersionsInv
  <2>9. \A v, w \in tasks' : v.kind = "summary" /\ w.kind = "summary" => v = w
    BY <2>1 DEF VersionsInv
  <2> QED
    BY <1>1, <1>2, <2>1, <2>6, <2>7, <2>8, <2>9 DEF VersionsInv, Newer, Told
<1>8. CASE ServerReloads
  <2>1. UNCHANGED <<app, tasks, results>> /\ server'.reloads = server.reloads + 1
    BY <1>8 DEF ServerReloads
  <2>2. ASSUME NEW reply, Newer(reply) PROVE NewerNow(reply)
    BY <1>1, <1>2, <2>1, <2>2 DEF Newer, NewerNow
  <2>3. app'.summary # Nothing => app'.summary.ver <= server'.reloads
    BY <1>2, <2>1 DEF VersionsInv
  <2>4. \A i \in 1..Len(results') : Told(results'[i]) => NewerNow(results'[i].answer)
    BY <2>1, <2>2 DEF VersionsInv
  <2>5. \A t \in tasks' : t.pc = "answered" /\ Told(t) => NewerNow(t.answer)
    BY <2>1, <2>2 DEF VersionsInv
  <2> QED
    BY <1>2, <2>1, <2>3, <2>4, <2>5 DEF VersionsInv, Told, Newer, NewerNow
<1> QED
  BY <1>1, <1>4, <1>5, <1>6, <1>7, <1>8 DEF Steps

\* The writes the server did are some of those handed over, in their order; the one
\* asked for, if any, is the last of them and not done yet.
Yet(places) ==
    /\ places \in SUBSET (DOMAIN handed) /\ performed = AtPlaces(handed, places)
    /\ \A t \in tasks : t.kind = "action" /\ t.pc = "asked" =>
          handed # <<>> /\ handed[Len(handed)] = t.what /\ Len(handed) \notin places

IsDone(x) == x.answer.status = "ok" => x.what \in ToSet(performed)

MeantInv ==
    /\ IsSequence(handed) /\ IsSequence(performed)
    /\ \A t, u \in tasks : t.kind = "action" /\ u.kind = "action" => t = u
    /\ \E places : Yet(places)
    /\ \A t \in tasks : t.kind = "action" /\ t.pc = "answered" => IsDone(t)
    /\ \A i \in 1..Len(results) : results[i].kind = "action" => IsDone(results[i])

LEMMA MeantMeans == ASSUME DashTypes, MeantInv PROVE WritesAreMeant
<1>1. PICK places : Yet(places)
  BY DEF MeantInv
<1>2. DOMAIN results = 1..Len(results)
  BY SequencesAre DEF DashTypes, IsSequence
<1>3. /\ places \in SUBSET DOMAIN handed
      /\ performed = [i \in 1..Cardinality(places) |->
                         handed[CHOOSE k \in places : Cardinality({j \in places : j <= k}) = i]]
  BY <1>1 DEF Yet, AtPlaces
<1>4. \A i \in DOMAIN results :
         results[i].kind = "action" /\ results[i].answer.status = "ok"
           => results[i].what \in ToSet(performed)
  BY <1>2 DEF MeantInv, IsDone
<1> QED
  BY <1>3, <1>4 DEF WritesAreMeant

LEMMA MeantStarts == ASSUME DashboardInit PROVE MeantInv
<1>1. handed = <<>> /\ performed = <<>> /\ tasks = {} /\ results = <<>>
  BY DEF DashboardInit
<1>2. <<>> \in Seq({}) /\ Len(<<>>) = 0 /\ DOMAIN <<>> = {}
  OBVIOUS
<1>3. IsSequence(<<>>)
  BY <1>2, SequencesAre
<1>4. AtPlaces(<<>>, {}) = <<>>
  <2>1. Cardinality({}) = 0 /\ 1..0 = {}
    BY FS_EmptySet
  <2>2. /\ AtPlaces(<<>>, {}) \in Seq({}) /\ Len(AtPlaces(<<>>, {})) = 0
    BY <1>2, <2>1, TakenAreElements
  <2> QED
    BY <2>2, EmptySeq
<1>5. Yet({})
  BY <1>1, <1>4 DEF Yet
<1> QED
  BY <1>1, <1>2, <1>3, <1>5 DEF MeantInv

\* What starts may hand one more write over.
LEMMA MeantWhenStarted ==
    ASSUME MeantInv, TaskStarts, UNCHANGED performed, IsSequence(results), IsSequence(results'),
           \A i \in 1..Len(results') : \E j \in 1..Len(results) : results'[i] = results[j]
    PROVE  MeantInv'
<1>1. PICK x : tasks' \subseteq tasks \cup {x} /\ IsNew(x) /\ Hands(x)
  BY DEF TaskStarts
<1>2. PICK places : Yet(places)
  BY DEF MeantInv
<1>3. \A t, u \in tasks' : t.kind = "action" /\ u.kind = "action" => t = u
  BY OneOfAKind DEF MeantInv
<1>4. \A t \in tasks' : t.pc = "answered" => t \in tasks
  BY <1>1 DEF IsNew
<1>5. /\ \A t \in tasks' : t.kind = "action" /\ t.pc = "answered" => IsDone(t)
      /\ \A i \in 1..Len(results') : results'[i].kind = "action" => IsDone(results'[i])
  BY <1>4 DEF MeantInv
<1>6. CASE x.kind = "action"
  <2>1. handed' = Append(handed, x.what)
    BY <1>1, <1>6 DEF Hands
  <2>2. /\ IsSequence(handed') /\ Len(handed') = Len(handed) + 1 /\ Len(handed) \in Nat
        /\ DOMAIN handed = 1..Len(handed) /\ handed'[Len(handed) + 1] = x.what
    BY <2>1, OneMore DEF MeantInv
  <2>3. places \in SUBSET DOMAIN handed' /\ performed' = AtPlaces(handed', places)
    BY <1>2, <2>1, PlacesStay DEF Yet, MeantInv
  <2>4. \A t \in tasks' : t.kind = "action" => t = x
    BY <1>1, <1>6 DEF IsNew, InFlight
  <2>5. Len(handed') \notin places
    BY <1>2, <2>2 DEF Yet
  <2>6. handed' # <<>>
    BY <2>2
  <2>7. Yet(places)'
    BY <2>2, <2>3, <2>4, <2>5, <2>6 DEF Yet
  <2> QED
    BY <1>3, <1>5, <2>2, <2>7 DEF MeantInv, IsDone
<1>7. CASE x.kind # "action"
  <2>1. UNCHANGED handed
    BY <1>1, <1>7 DEF Hands
  <2>2. \A t \in tasks' : t.kind = "action" => t \in tasks
    BY <1>1, <1>7
  <2>3. Yet(places)'
    BY <1>2, <2>1, <2>2 DEF Yet
  <2> QED
    BY <1>3, <1>5, <2>1, <2>3 DEF MeantInv, IsDone
<1> QED
  BY <1>6, <1>7

LEMMA MeantStep ==
    ASSUME DashTypes, MeantInv, DashboardNext
    PROVE  MeantInv'
<1>1. Steps /\ UNCHANGED session
  BY StepsAre
<1>2. PICK places : Yet(places)
  BY DEF MeantInv
<1>3. CASE LoopStep
  <2>1. UNCHANGED <<results, performed>> /\ TaskStarts
    BY <1>3 DEF LoopStep
  <2>2. \A i \in 1..Len(results') : \E j \in 1..Len(results) : results'[i] = results[j]
    BY <2>1
  <2>3. IsSequence(results) /\ IsSequence(results')
    BY <2>1 DEF DashTypes, IsSequence
  <2> QED
    BY <2>1, <2>2, <2>3, MeantWhenStarted
<1>4. CASE TakeStep
  <2>1. results # <<>> /\ results' = Tail(results) /\ UNCHANGED performed /\ TaskStarts
    BY <1>4 DEF TakeStep
  <2>2. /\ Len(results) \in Nat \ {0} /\ Len(results') = Len(results) - 1 /\ IsSequence(results')
        /\ \A i \in 1..(Len(results) - 1) : results'[i] = results[i + 1]
    BY <2>1, OneLess DEF DashTypes
  <2>3. \A i \in 1..Len(results') : \E j \in 1..Len(results) : results'[i] = results[j]
    <3> TAKE i \in 1..Len(results')
    <3>1. i + 1 \in 1..Len(results) /\ results'[i] = results[i + 1]
      BY <2>2
    <3> QED
      BY <3>1
  <2> QED
    BY <2>1, <2>2, <2>3, MeantWhenStarted DEF DashTypes
<1>5. ASSUME NEW t, NEW u, AnswerStep(t, u) PROVE MeantInv'
  <2>1. /\ t \in tasks /\ t.pc = "asked" /\ tasks' = (tasks \ {t}) \cup {u}
        /\ u.pc = "answered" /\ u.kind = t.kind /\ u.what = t.what
        /\ UNCHANGED <<results, handed>>
        /\ \/ UNCHANGED performed /\ (u.kind = "action" => u.answer.status # "ok")
           \/ u.kind = "action" /\ performed' = Append(performed, u.what)
    BY <1>5 DEF AnswerStep
  <2>2. \A v, w \in tasks' : v.kind = "action" /\ w.kind = "action" => v = w
    BY <2>1 DEF MeantInv
  <2>3. CASE UNCHANGED performed /\ (u.kind = "action" => u.answer.status # "ok")
    <3>1. Yet(places)'
      BY <1>2, <2>1, <2>3 DEF Yet
    <3>2. \A v \in tasks' : v.kind = "action" /\ v.pc = "answered" => IsDone(v)
      BY <2>1, <2>3 DEF MeantInv, IsDone
    <3> QED
      BY <2>1, <2>2, <2>3, <3>1, <3>2 DEF MeantInv, IsDone
  <2>4. CASE u.kind = "action" /\ performed' = Append(performed, u.what)
    <3>1. IsSequence(performed') /\ ToSet(performed') = ToSet(performed) \cup {u.what}
      BY <2>4, OneMore DEF MeantInv
    <3>2. handed # <<>> /\ handed[Len(handed)] = u.what /\ Len(handed) \notin places
          /\ places \in SUBSET (DOMAIN handed) /\ performed = AtPlaces(handed, places)
      BY <1>2, <2>1, <2>4 DEF Yet
    <3>3. performed' = AtPlaces(handed, places \cup {Len(handed)})
      BY <2>4, <3>2, OnePlaceMore DEF MeantInv
    <3>4. Len(handed) \in DOMAIN handed
      BY <3>2, OneLess DEF MeantInv
    <3>5. \A v \in tasks' : v.kind = "action" => v = u
      BY <2>1, <2>2, <2>4
    <3>6. Yet(places \cup {Len(handed)})'
      BY <2>1, <3>2, <3>3, <3>4, <3>5 DEF Yet
    <3>7. \E more : Yet(more)'
      BY <3>6
    <3>8. /\ \A v \in tasks' : v.kind = "action" /\ v.pc = "answered" => IsDone(v)'
          /\ \A i \in 1..Len(results) : results[i].kind = "action" => IsDone(results[i])'
      BY <2>1, <3>1, <3>5 DEF MeantInv, IsDone
    <3> QED
      BY <2>1, <2>2, <3>1, <3>7, <3>8 DEF MeantInv, IsDone
  <2> QED
    BY <2>1, <2>3, <2>4
<1>6. ASSUME NEW t, NEW r, ReportStep(t, r) PROVE MeantInv'
  <2>1. /\ t \in tasks /\ tasks' = tasks \ {t} /\ results' = Append(results, r)
        /\ UNCHANGED <<handed, performed>> /\ r.kind = t.kind /\ r.what = t.what
        /\ r.kind # "spark" => t.pc = "answered" /\ r.answer = t.answer
    BY <1>6 DEF ReportStep
  <2>2. /\ Len(results') = Len(results) + 1 /\ Len(results) \in Nat
        /\ \A i \in 1..Len(results) : results'[i] = results[i]
        /\ results'[Len(results) + 1] = r
    BY <2>1, OneMore DEF DashTypes
  <2>3. r.kind = "action" => IsDone(r)
    BY <2>1 DEF MeantInv, IsDone
  <2>4. \A i \in 1..Len(results') : results'[i].kind = "action" => IsDone(results'[i])
    <3> TAKE i \in 1..Len(results')
    <3>1. i \in 1..Len(results) \/ i = Len(results) + 1
      BY <2>2
    <3> QED
      BY <2>2, <2>3, <3>1 DEF MeantInv
  <2>5. Yet(places)'
    BY <1>2, <2>1 DEF Yet
  <2> QED
    BY <2>1, <2>4, <2>5 DEF MeantInv, IsDone
<1>7. CASE ServerReloads
  BY <1>7 DEF ServerReloads, MeantInv, Yet, IsDone
<1> QED
  BY <1>1, <1>3, <1>4, <1>5, <1>6, <1>7 DEF Steps

\* The selected monitor's sparkline is asked for or on its way.
SparkComes(id) ==
    \/ \E t \in tasks : t.kind = "spark" /\ t.what = id
    \/ \E i \in DOMAIN results : results[i].kind = "spark" /\ results[i].what = id

LEMMA SparkKept ==
    ASSUME DashTypes, SparkIsOfTheSelected, app'.loop = app.loop, app'.spark = app.spark,
           app'.summary = app.summary, app'.row = app.row,
           \A id : SparkComes(id) => SparkComes(id)'
    PROVE  SparkIsOfTheSelected'
<1>1. Selected' = Selected
  BY DEF Selected, SelectedIn
<1> QED
  BY <1>1 DEF SparkIsOfTheSelected, IsOn, SparkComes

\* Whatever a task does, and whatever the loop takes, one for the selection is left.
LEMMA SparkStep ==
    ASSUME DashTypes, SparkIsOfTheSelected, DashboardNext
    PROVE  SparkIsOfTheSelected'
<1>0. DOMAIN app = AppFields
  BY DEF DashTypes
<1>1. ASSUME UNCHANGED results, tasks \subseteq tasks', app'.loop = app.loop,
             app'.spark = app.spark, app'.summary = app.summary, app'.row = app.row
      PROVE  SparkIsOfTheSelected'
  <2>1. \A id : SparkComes(id) => SparkComes(id)'
    BY <1>1 DEF SparkComes
  <2> QED
    BY <1>1, <2>1, SparkKept
<1>2. ASSUME NEW write, StartAction(write) PROVE tasks \subseteq tasks'
  BY <1>2 DEF StartAction
<1>3. CASE TopTick
  <2>1. tasks \subseteq tasks' /\ UNCHANGED <<app, results>>
    BY <1>3 DEF TopTick, WithSummary, ServerRests
  <2> QED
    BY <1>1, <2>1
<1>4. CASE CooldownEnds
  BY <1>0, <1>1, <1>4 DEF CooldownEnds, ServerRests, AppFields
<1>5. CASE SparkTimer
  <2>1. /\ UNCHANGED results /\ app'.loop = app.loop
        /\ app'.spark = app.spark /\ app'.summary = app.summary /\ app'.row = app.row
    BY <1>0, <1>5 DEF SparkTimer, ServerRests, AppFields
  <2>2. CASE Selected = Nothing
    BY <1>1, <1>5, <2>1, <2>2 DEF SparkTimer
  <2>3. CASE Selected # Nothing
    <3>1. tasks' = WithSpark(Selected)
      BY <1>5, <2>3 DEF SparkTimer
    <3>2. Selected' = Selected
      BY <2>1 DEF Selected, SelectedIn
    <3>3. /\ Task("spark", Selected) \in tasks' /\ Task("spark", Selected).kind = "spark"
          /\ Task("spark", Selected).what = Selected
      BY <3>1 DEF WithSpark, Task
    <3> QED
      BY <3>2, <3>3 DEF SparkIsOfTheSelected
  <2> QED
    BY <2>2, <2>3
<1>6. ASSUME NEW delta \in {-1, 1}, Moves(delta) PROVE SparkIsOfTheSelected'
  <2>1. app'.spark = Nothing
    BY <1>0, <1>6 DEF Moves, AppFields
  <2> QED
    BY <2>1 DEF SparkIsOfTheSelected
<1>7. CASE OpensBar
  BY <1>0, <1>1, <1>7 DEF OpensBar, ServerRests, AppFields
<1>8. CASE Submits
  <2>1. tasks \subseteq tasks'
    BY <1>2, <1>8 DEF Submits
  <2> QED
    BY <1>0, <1>1, <1>8, <2>1 DEF Submits, ServerRests, AppFields
<1>9. CASE Escapes
  BY <1>0, <1>1, <1>9 DEF Escapes, ServerRests, AppFields
<1>10. CASE Clears
  BY <1>0, <1>1, <1>2, <1>10 DEF Clears, ServerRests, AppFields
<1>11. CASE Quits
  <2>1. app'.loop = "off"
    BY <1>0, <1>11 DEF Quits, AppFields
  <2> QED
    BY <2>1 DEF SparkIsOfTheSelected, IsOn
<1>12. CASE ServerReloads
  BY <1>1, <1>12 DEF ServerReloads
<1>13. ASSUME NEW t \in tasks, Serves(t) \/ Refuses(t) PROVE SparkIsOfTheSelected'
  <2>1. PICK u : AnswerStep(t, u)
    BY <1>13, AnswerSteps
  <2>2. \A id : SparkComes(id) => SparkComes(id)'
    BY <2>1 DEF SparkComes, AnswerStep
  <2> QED
    BY <2>1, <2>2, SparkKept DEF AnswerStep
<1>14. ASSUME NEW t \in tasks, Reports(t) PROVE SparkIsOfTheSelected'
  <2>1. PICK r : ReportStep(t, r)
    BY <1>14, ReportSteps
  <2>2. /\ UNCHANGED app /\ tasks' = tasks \ {t} /\ results' = Append(results, r)
        /\ r.kind = t.kind /\ r.what = t.what
    BY <2>1 DEF ReportStep
  <2>3. /\ DOMAIN results = 1..Len(results) /\ DOMAIN results' = 1..(Len(results) + 1)
        /\ \A i \in 1..Len(results) : results'[i] = results[i]
        /\ results'[Len(results) + 1] = r /\ Len(results) \in Nat
    BY <2>2, OneMore DEF DashTypes
  <2>4. ASSUME NEW id, SparkComes(id) PROVE SparkComes(id)'
    <3>1. CASE t.kind = "spark" /\ t.what = id
      <4>1. Len(results) + 1 \in DOMAIN results'
        BY <2>3
      <4> QED
        BY <2>2, <2>3, <3>1, <4>1 DEF SparkComes
    <3>2. ASSUME NEW v \in tasks, v # t, v.kind = "spark", v.what = id PROVE SparkComes(id)'
      BY <2>2, <3>2 DEF SparkComes
    <3>3. ASSUME NEW i \in DOMAIN results, results[i].kind = "spark", results[i].what = id
          PROVE  SparkComes(id)'
      <4>1. i \in DOMAIN results' /\ results'[i] = results[i]
        BY <2>3
      <4> QED
        BY <3>3, <4>1 DEF SparkComes
    <3> QED
      BY <2>4, <3>1, <3>2, <3>3 DEF SparkComes
  <2> QED
    BY <2>2, <2>4, SparkKept
<1>15. CASE Apply
  <2>1. /\ IsOn /\ results # <<>> /\ results' = Tail(results)
        /\ \/ results[1].kind = "summary" /\ ApplySummary(results[1].answer)
           \/ results[1].kind = "spark" /\ ApplySpark(results[1].what, results[1].answer)
           \/ results[1].kind = "action" /\ ApplyAction
    BY <1>15, Takes
  <2>2. /\ DOMAIN results = 1..Len(results) /\ DOMAIN results' = 1..(Len(results) - 1)
        /\ \A i \in 1..(Len(results) - 1) : results'[i] = results[i + 1]
        /\ Len(results) \in Nat \ {0}
    BY <2>1, OneLess DEF DashTypes
  <2>3. ASSUME tasks \subseteq tasks', NEW id, SparkComes(id),
               ~(results[1].kind = "spark" /\ results[1].what = id)
        PROVE  SparkComes(id)'
    <3>1. CASE \E t \in tasks : t.kind = "spark" /\ t.what = id
      BY <2>3, <3>1 DEF SparkComes
    <3>2. ASSUME NEW i \in DOMAIN results, results[i].kind = "spark", results[i].what = id
          PROVE  SparkComes(id)'
      <4>1. i # 1
        BY <2>3, <3>2
      <4>2. i - 1 \in 1..(Len(results) - 1) /\ (i - 1) + 1 = i
        BY <2>2, <4>1
      <4>3. i - 1 \in DOMAIN results' /\ results'[i - 1] = results[i]
        BY <2>2, <4>2
      <4> QED
        BY <3>2, <4>3 DEF SparkComes
    <3> QED
      BY <2>3, <3>1, <3>2 DEF SparkComes
  <2>4. CASE results[1].kind = "summary" /\ ApplySummary(results[1].answer)
    <3>1. CASE results[1].answer.status # "ok"
      <4>1. /\ app'.loop = app.loop /\ app'.spark = app.spark /\ app'.summary = app.summary
            /\ app'.row = app.row /\ UNCHANGED tasks
        BY <1>0, <2>4, <3>1, SummaryIsApplied
      <4>2. \A id : SparkComes(id) => SparkComes(id)'
        BY <2>3, <2>4, <4>1
      <4> QED
        BY <4>1, <4>2, SparkKept
    <3>2. CASE results[1].answer.status = "ok"
      <4> DEFINE now == SelectedIn(app'.summary, app'.row)
      <4>1. tasks' = IF now = Nothing THEN tasks ELSE WithSpark(now)
        BY <1>0, <2>4, <3>2, SummaryIsApplied
      <4>2. Selected' = now
        BY DEF Selected, SelectedIn
      <4>3. CASE now = Nothing
        BY <4>2, <4>3 DEF SparkIsOfTheSelected
      <4>4. CASE now # Nothing
        <5>1. tasks' = WithSpark(now)
          BY <4>1, <4>4
        <5> HIDE DEF now
        <5>2. /\ Task("spark", now) \in tasks' /\ Task("spark", now).kind = "spark"
              /\ Task("spark", now).what = now
          BY <5>1 DEF WithSpark, Task
        <5> QED
          BY <4>2, <5>2 DEF SparkIsOfTheSelected
      <4> QED
        BY <4>3, <4>4
    <3> QED
      BY <3>1, <3>2
  <2>5. CASE results[1].kind = "spark" /\ ApplySpark(results[1].what, results[1].answer)
    <3>1. UNCHANGED tasks
      BY <2>5 DEF ApplySpark
    <3>2. CASE Selected = results[1].what
      <4>1. /\ app'.summary = app.summary /\ app'.row = app.row
            /\ app'.spark \in {results[1].what, Nothing}
        BY <1>0, <2>5, <3>2 DEF ApplySpark, AppFields
      <4>2. Selected' = Selected
        BY <4>1 DEF Selected, SelectedIn
      <4> QED
        BY <3>2, <4>1, <4>2 DEF SparkIsOfTheSelected
    <3>3. CASE Selected # results[1].what
      <4>1. UNCHANGED app
        BY <2>5, <3>3 DEF ApplySpark
      <4>2. Selected' = Selected
        BY <4>1 DEF Selected, SelectedIn
      <4>3. ASSUME NEW id, id = Selected, SparkComes(id) PROVE SparkComes(id)'
        BY <2>3, <3>1, <3>3, <4>3
      <4> QED
        BY <4>1, <4>2, <4>3 DEF SparkIsOfTheSelected, IsOn, SparkComes
    <3> QED
      BY <3>2, <3>3
  <2>6. CASE results[1].kind = "action" /\ ApplyAction
    <3>1. tasks \subseteq tasks' /\ UNCHANGED app
      BY <2>6 DEF ApplyAction, WithSummary
    <3>2. \A id : SparkComes(id) => SparkComes(id)'
      BY <2>3, <2>6, <3>1
    <3> QED
      BY <3>1, <3>2, SparkKept
  <2> QED
    BY <2>1, <2>4, <2>5, <2>6
<1> QED
  BY <1>3, <1>4, <1>5, <1>6, <1>7, <1>8, <1>9, <1>10, <1>11, <1>12, <1>13, <1>14, <1>15
     DEF DashboardNext

\* The selection moves by a key, or with the list.
LEMMA SelectionStep ==
    ASSUME DashTypes, VersionsInv, DashboardNext
    PROVE  SelectionIsKept
<1>0. DOMAIN app = AppFields
  BY DEF DashTypes
<1>1. app.summary # Nothing => app'.summary.ver >= app.summary.ver
  BY VersionsStep
<1>2. ASSUME app'.summary = app.summary, app'.row = app.row PROVE SelectionIsKept
  <2>1. Selected' = Selected
    BY <1>2 DEF Selected, SelectedIn
  <2> QED
    BY <1>1, <2>1 DEF SelectionIsKept
<1>3. CASE TopTick \/ Clears \/ ServerReloads
  BY <1>2, <1>3 DEF TopTick, Clears, ServerReloads
<1>4. CASE CooldownEnds
  BY <1>0, <1>2, <1>4 DEF CooldownEnds, AppFields
<1>5. CASE SparkTimer
  BY <1>0, <1>2, <1>5 DEF SparkTimer, AppFields
<1>6. ASSUME NEW delta \in {-1, 1}, Moves(delta) PROVE SelectionIsKept
  <2>1. app'.sparkDue /\ app'.summary = app.summary
    BY <1>0, <1>6 DEF Moves, AppFields
  <2> QED
    BY <1>1, <2>1 DEF SelectionIsKept
<1>7. CASE OpensBar
  BY <1>0, <1>2, <1>7 DEF OpensBar, AppFields
<1>8. CASE Submits
  BY <1>0, <1>2, <1>8 DEF Submits, AppFields
<1>9. CASE Escapes
  BY <1>0, <1>2, <1>9 DEF Escapes, AppFields
<1>10. CASE Quits
  BY <1>0, <1>2, <1>10 DEF Quits, AppFields
<1>11. ASSUME NEW t \in tasks, Serves(t) \/ Refuses(t) \/ Reports(t) PROVE SelectionIsKept
  BY <1>2, <1>11 DEF Serves, Refuses, Reports
<1>12. CASE Apply
  <2>1. /\ results # <<>>
        /\ \/ results[1].kind = "summary" /\ ApplySummary(results[1].answer)
           \/ results[1].kind = "spark" /\ ApplySpark(results[1].what, results[1].answer)
           \/ results[1].kind = "action" /\ ApplyAction
    BY <1>12, Takes
  <2>2. CASE results[1].kind = "summary" /\ ApplySummary(results[1].answer)
    <3> DEFINE reply == results[1].answer
    <3>1. CASE reply.status # "ok"
      <4>1. app'.summary = app.summary /\ app'.row = app.row
        BY <1>0, <2>2, <3>1, SummaryIsApplied
      <4> QED
        BY <1>2, <4>1
    <3>2. CASE reply.status = "ok"
      <4>1. /\ app'.summary = [rows |-> reply.rows, ver |-> reply.ver]
            /\ Selected # Nothing =>
                 \/ \A i \in DOMAIN reply.rows : reply.rows[i] # Selected
                 \/ app'.row \in DOMAIN reply.rows /\ reply.rows[app'.row] = Selected
        BY <1>0, <2>2, <3>2, SummaryIsApplied
      <4>2. 1 \in 1..Len(results)
        BY <2>1, OneLess DEF DashTypes
      <4>3. reply.rows \in Listed(session) /\ reply.ver \in 0..server.reloads
        BY <2>2, <3>2, <4>2 DEF VersionsInv, Told, Newer
      <4>4. app'.summary # Nothing
        <5>1. reply.ver \in 0..session.reloads
          BY <4>3, ServerIs
        <5>2. [rows |-> reply.rows, ver |-> reply.ver] \in Summaries(session)
          BY <4>3, <5>1 DEF Summaries
        <5> QED
          BY <4>1, <5>2, ServerIs
      <4>5. reply.rows \in Seq(ToSet(reply.rows))
        BY <4>3, ServerIs, DashboardAssumption
      <4>6. DOMAIN reply.rows = 1..Len(reply.rows) /\ Len(reply.rows) \in Nat
        BY <4>5, LenProperties
      <4> HIDE DEF reply
      <4>7. app'.summary.rows = reply.rows
        BY <4>1
      <4>8. CASE Selected = Nothing
        BY <1>1, <4>8 DEF SelectionIsKept
      <4>9. CASE \A i \in DOMAIN reply.rows : reply.rows[i] # Selected
        <5>1. Selected \notin ToSet(app'.summary.rows)
          BY <4>7, <4>9 DEF ToSet
        <5> QED
          BY <1>1, <5>1 DEF SelectionIsKept
      <4>10. CASE app'.row \in DOMAIN reply.rows /\ reply.rows[app'.row] = Selected
        <5>1. ~(app'.row > Len(reply.rows))
          BY <4>6, <4>10
        <5>2. Selected' = Selected
          <6>1. SelectedIn(app'.summary, app'.row) = Selected
            BY <4>4, <4>7, <4>10, <5>1 DEF SelectedIn
          <6> QED
            BY <6>1 DEF Selected, SelectedIn
        <5> QED
          BY <1>1, <5>2 DEF SelectionIsKept
      <4> QED
        BY <4>1, <4>8, <4>9, <4>10
    <3> QED
      BY <3>1, <3>2
  <2>3. CASE results[1].kind = "spark" /\ ApplySpark(results[1].what, results[1].answer)
    <3>1. app'.summary = app.summary /\ app'.row = app.row
      BY <1>0, <2>3 DEF ApplySpark, AppFields
    <3> QED
      BY <1>2, <3>1
  <2>4. CASE results[1].kind = "action" /\ ApplyAction
    BY <1>2, <2>4 DEF ApplyAction
  <2> QED
    BY <2>1, <2>2, <2>3, <2>4
<1> QED
  BY <1>3, <1>4, <1>5, <1>6, <1>7, <1>8, <1>9, <1>10, <1>11, <1>12 DEF DashboardNext

DashInv == DashTypes /\ VersionsInv /\ MeantInv /\ SparkIsOfTheSelected

LEMMA DashInvInit == DashboardInit => DashInv
<1> SUFFICES ASSUME DashboardInit PROVE DashInv
  OBVIOUS
<1>1. /\ session \in Sessions /\ tasks = {} /\ results = <<>>
      /\ server = [rows |-> session.first, reloads |-> 0]
      /\ DOMAIN app = AppFields /\ app.summary = Nothing /\ app.input = Nothing
      /\ app.spark = Nothing
  BY DEF DashboardInit, AppFields
<1>2. IsSequence(<<>>) /\ 1..Len(<<>>) = {}
  <2>1. <<>> \in Seq({}) /\ Len(<<>>) = 0 /\ 1..0 = {}
    OBVIOUS
  <2>2. IsSequence(<<>>)
    BY <2>1, SequencesAre
  <2> QED
    BY <2>1, <2>2
<1>3. session.reloads \in Nat /\ session.first \in Listed(session)
  BY <1>1, DashboardAssumption DEF Listed
<1>4. server \in [rows : Listed(session), reloads : 0..session.reloads]
  BY <1>1, <1>3
<1>5. DashTypes
  BY <1>1, <1>2, <1>4 DEF DashTypes
<1>6. VersionsInv
  BY <1>1, <1>2 DEF VersionsInv
<1>7. SparkIsOfTheSelected
  BY <1>1 DEF SparkIsOfTheSelected
<1> QED
  BY <1>5, <1>6, <1>7, MeantStarts DEF DashInv

LEMMA DashInvStep ==
    DashInv /\ [DashboardNext]_dashboardVars
      => DashInv' /\ [SelectionIsKept /\ SparkIsOfTheSelected']_dashboardVars
<1> SUFFICES ASSUME DashInv, [DashboardNext]_dashboardVars
             PROVE  DashInv' /\ [SelectionIsKept /\ SparkIsOfTheSelected']_dashboardVars
  OBVIOUS
<1>1. CASE UNCHANGED dashboardVars
  <2>1. DashTypes'
    BY <1>1 DEF DashInv, DashTypes, dashboardVars, IsTask
  <2>2. VersionsInv'
    BY <1>1 DEF DashInv, VersionsInv, dashboardVars, Newer
  <2>3. MeantInv'
    BY <1>1 DEF DashInv, MeantInv, dashboardVars, Yet, IsDone
  <2>4. SparkIsOfTheSelected'
    BY <1>1 DEF DashInv, SparkIsOfTheSelected, dashboardVars, IsOn, Selected, SelectedIn
  <2> QED
    BY <1>1, <2>1, <2>2, <2>3, <2>4 DEF DashInv
<1>2. CASE DashboardNext
  <2>1. DashTypes' /\ VersionsInv' /\ MeantInv' /\ SparkIsOfTheSelected' /\ SelectionIsKept
    BY <1>2, TypesStep, VersionsStep, MeantStep, SparkStep, SelectionStep DEF DashInv
  <2> QED
    BY <2>1 DEF DashInv
<1> QED
  BY <1>1, <1>2

\* However keys, timers, answers, refusals and reloads interleave, what `hora top`
\* shows stays on its monitor and never goes back in time, its sparkline is of the
\* selected monitor, and its writes are the ones meant, in order and at most once.
THEOREM ScreenIsTrueHolds == DashboardSpec => ScreenIsTrue
<1>1. DashInv /\ [DashboardNext]_dashboardVars
        => DashInv' /\ [SelectionIsKept /\ SparkIsOfTheSelected']_dashboardVars
  BY DashInvStep
<1>2. DashInv => WritesAreMeant
  BY MeantMeans DEF DashInv
<1> QED
  BY <1>1, <1>2, DashInvInit, PTL DEF DashboardSpec, ScreenIsTrue
=============================================================================
