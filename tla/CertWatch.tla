----------------------------- MODULE CertWatch -----------------------------
(***************************************************************************)
(* The certificate watcher over one monitor (cert.rs): the sweep that      *)
(* reads the certificate the server presents, warns once of an expiry and  *)
(* once of a certificate that cannot be read, and the pin: a key that does *)
(* not match is remembered only once its alert went out.                   *)
(*                                                                         *)
(* A fingerprint is a key; the pin is the key it wants.  The warnings are  *)
(* in memory, the last key and the pin it was judged against in the        *)
(* database, in two tables.                                                *)
(***************************************************************************)
EXTENDS Integers

CONSTANTS
    Fingerprints,   \* keys, and pins
    NoKey,          \* nothing configured, nothing stored
    MaxChanges,     \* bound: changes of the server, the file, the schedule
    MaxCertFaults   \* bound: statements that fail, crashes

ASSUME CertAssumption ==
    NoKey \notin Fingerprints /\ MaxChanges \in Nat /\ MaxCertFaults \in Nat

VARIABLES
    server,      \* what the server presents: [readable, expiring, key]
    around,      \* the rest of the world: [present, pin] as configured,
                 \*   [muted] by maintenance, [incident] open
    sweep,       \* the sweep in progress
    warned,      \* the entry of warned, FALSE without one
    unreadable,  \* the monitor is in unreadable
    pins,        \* cert_pins and the meta key beside it: [stored, against]
    expiryTold,  \* history: told since the certificate started to expire
    unreadTold,  \* history: told since the certificate could not be read
    reported,    \* history: the <<key, pin>> whose alert was delivered
    accepted,    \* history: the <<key, pin>> a check let pass
    torn,        \* history: a key was stored without the pin it goes with
    changed, certFaults   \* bound counters

certVars == <<server, around, sweep, warned, unreadable, pins, expiryTold, unreadTold,
              reported, accepted, torn, changed, certFaults>>
watcher == <<sweep, warned, unreadable, pins>>
told == <<expiryTold, unreadTold, reported, accepted, torn>>

NoSweep == [pc |-> "idle", pin |-> NoKey, key |-> NoKey, expiring |-> FALSE, muted |-> FALSE]

CertInit ==
    /\ server \in [readable: {TRUE}, expiring: {FALSE}, key: Fingerprints]
    /\ around \in [present: {TRUE}, pin: Fingerprints \cup {NoKey},
                   muted: {FALSE}, incident: {FALSE}]
    /\ sweep = NoSweep /\ warned = FALSE /\ unreadable = FALSE
    /\ pins = [stored |-> NoKey, against |-> NoKey]
    /\ expiryTold = FALSE /\ unreadTold = FALSE
    /\ reported = {} /\ accepted = {} /\ torn = FALSE
    /\ changed = 0 /\ certFaults = 0

CertFault == certFaults < MaxCertFaults /\ certFaults' = certFaults + 1
Changing == changed < MaxChanges /\ changed' = changed + 1

---------------------------------------------------------------------------
(* The world *)

\* A certificate is good for many sweeps: one of them, outside maintenance,
\* saw it fresh before it expires; the same for one that is read again.
ServerChanges ==
    /\ Changing
    /\ \E s \in [readable: BOOLEAN, expiring: BOOLEAN, key: Fingerprints] :
          /\ s # server
          /\ s.expiring /\ ~server.expiring => ~warned
          /\ ~s.readable /\ server.readable => ~unreadable
          /\ server' = s
          /\ expiryTold' = (expiryTold /\ s.expiring)
          /\ unreadTold' = (unreadTold /\ ~s.readable)
    /\ UNCHANGED <<watcher, around, reported, accepted, torn, certFaults>>

WorldChanges ==
    /\ Changing
    /\ around' \in {[around EXCEPT !.present = ~@], [around EXCEPT !.muted = ~@],
                    [around EXCEPT !.incident = ~@]}
                   \cup {[around EXCEPT !.pin = p] : p \in (Fingerprints \cup {NoKey}) \ {around.pin}}
    /\ UNCHANGED <<watcher, server, told, certFaults>>

---------------------------------------------------------------------------
(* One sweep *)

SweepAt(pc) == [sweep EXCEPT !.pc = pc]

\* The snapshot of the configuration; the entries of a monitor it has not are
\* forgotten.
BeginSweep ==
    /\ sweep.pc = "idle"
    /\ sweep' = IF around.present THEN [NoSweep EXCEPT !.pc = "reading", !.pin = around.pin] ELSE NoSweep
    /\ warned' = (warned /\ around.present)
    /\ unreadable' = (unreadable /\ around.present)
    /\ UNCHANGED <<server, around, pins, told, changed, certFaults>>

ReadCert ==
    /\ sweep.pc = "reading" /\ server.readable
    /\ unreadable' = FALSE
    /\ sweep' = [sweep EXCEPT !.pc = "expiry", !.key = server.key, !.expiring = server.expiring]
    /\ UNCHANGED <<server, around, warned, pins, told, changed, certFaults>>

\* Left out: the sweep's deadline passed first, or the incidents of a monitor
\* that could not be read are not readable either.
LeftOut ==
    /\ sweep.pc = "reading" /\ CertFault
    /\ sweep' = NoSweep
    /\ UNCHANGED <<server, around, warned, unreadable, pins, told, changed>>

\* Told once a streak, not while an incident or a maintenance says it already.
ReportUnreadable ==
    /\ sweep.pc = "reading" /\ ~server.readable
    /\ sweep' = IF unreadable \/ around.muted \/ around.incident THEN NoSweep
                ELSE SweepAt("telling_unreadable")
    /\ UNCHANGED <<server, around, warned, unreadable, pins, told, changed, certFaults>>

TellUnreadable ==
    /\ sweep.pc = "telling_unreadable"
    /\ sweep' = NoSweep /\ unreadable' = TRUE /\ unreadTold' = TRUE
    /\ UNCHANGED <<server, around, warned, pins, expiryTold, reported, accepted, torn,
                   changed, certFaults>>

\* Mutant: the warning is recorded although maintenance mutes it.
RecordedMuted(muted) == TRUE

Recorded(muted) == ~muted

JudgeExpiry ==
    /\ sweep.pc = "expiry"
    /\ LET muted == around.muted
           tell == ~muted /\ sweep.expiring /\ ~warned
       IN /\ sweep' = [sweep EXCEPT !.pc = IF tell THEN "telling_expiry" ELSE "pin", !.muted = muted]
          /\ warned' = IF Recorded(muted) /\ ~tell THEN sweep.expiring ELSE warned
    /\ UNCHANGED <<server, around, unreadable, pins, told, changed, certFaults>>

TellExpiry ==
    /\ sweep.pc = "telling_expiry"
    /\ sweep' = SweepAt("pin") /\ warned' = TRUE /\ expiryTold' = TRUE
    /\ UNCHANGED <<server, around, unreadable, pins, unreadTold, reported, accepted, torn,
                   changed, certFaults>>

---------------------------------------------------------------------------
(* The pin *)

SamePin(pin) == pins.against \in {NoKey, pin}

\* Mutant: a key reported against another pin passes for this one.
ReportedAnywhere(pin, key) == pins.stored = key

\* The key was last seen matching, or was reported, against this pin.
HasVerdict(pin, key) == SamePin(pin) /\ pins.stored = key

PinMatters == sweep.pc = "pin" /\ sweep.pin # NoKey
Known == sweep.key = sweep.pin \/ HasVerdict(sweep.pin, sweep.key)

NoPin ==
    /\ sweep.pc = "pin" /\ sweep.pin = NoKey
    /\ sweep' = NoSweep
    /\ UNCHANGED <<server, around, warned, unreadable, pins, told, changed, certFaults>>

PinUnread ==
    /\ PinMatters /\ CertFault
    /\ sweep' = NoSweep
    /\ UNCHANGED <<server, around, warned, unreadable, pins, told, changed>>

\* No alert: a key not stored yet, or stored without a pin, is remembered.
PinPasses ==
    /\ PinMatters /\ Known
    /\ accepted' = accepted \cup {<<sweep.key, sweep.pin>>}
    /\ sweep' = IF pins.stored # sweep.key \/ pins.against = NoKey THEN SweepAt("remember") ELSE NoSweep
    /\ UNCHANGED <<server, around, warned, unreadable, pins, expiryTold, unreadTold, reported,
                   torn, changed, certFaults>>

PinDiffers ==
    /\ PinMatters /\ ~Known
    /\ sweep' = IF sweep.muted THEN NoSweep ELSE SweepAt("alerting")
    /\ UNCHANGED <<server, around, warned, unreadable, pins, told, changed, certFaults>>

AlertDelivered ==
    /\ sweep.pc = "alerting"
    /\ sweep' = SweepAt("remember")
    /\ reported' = reported \cup {<<sweep.key, sweep.pin>>}
    /\ UNCHANGED <<server, around, warned, unreadable, pins, expiryTold, unreadTold, accepted,
                   torn, changed, certFaults>>

AlertFails ==
    /\ sweep.pc = "alerting" /\ CertFault
    /\ sweep' = NoSweep
    /\ UNCHANGED <<server, around, warned, unreadable, pins, told, changed>>

\* upsert_cert_pin, then meta_set: two statements.
RememberKey ==
    /\ sweep.pc = "remember"
    /\ pins' = [pins EXCEPT !.stored = sweep.key]
    /\ sweep' = SweepAt("remember_against")
    /\ UNCHANGED <<server, around, warned, unreadable, told, changed, certFaults>>

RememberPin ==
    /\ sweep.pc = "remember_against"
    /\ pins' = [pins EXCEPT !.against = sweep.pin]
    /\ sweep' = NoSweep
    /\ UNCHANGED <<server, around, warned, unreadable, told, changed, certFaults>>

RememberFails ==
    /\ sweep.pc \in {"remember", "remember_against"} /\ CertFault
    /\ sweep' = NoSweep
    /\ torn' = (torn \/ sweep.pc = "remember_against")
    /\ UNCHANGED <<server, around, warned, unreadable, pins, expiryTold, unreadTold, reported,
                   accepted, changed>>

CertCrash ==
    /\ sweep.pc # "idle" /\ CertFault
    /\ sweep' = NoSweep /\ warned' = FALSE /\ unreadable' = FALSE
    /\ torn' = (torn \/ sweep.pc = "remember_against")
    /\ UNCHANGED <<server, around, pins, expiryTold, unreadTold, reported, accepted, changed>>

Sweeping ==
    \/ BeginSweep \/ ReadCert \/ ReportUnreadable \/ TellUnreadable \/ JudgeExpiry \/ TellExpiry
    \/ NoPin \/ PinPasses \/ PinDiffers \/ AlertDelivered \/ RememberKey \/ RememberPin

CertNext ==
    \/ Sweeping \/ ServerChanges \/ WorldChanges \/ LeftOut \/ PinUnread \/ AlertFails
    \/ RememberFails \/ CertCrash

---------------------------------------------------------------------------
(* Properties *)

IsWatched == around.present /\ ~around.muted

\* A warning held back (maintenance, an incident, a restart) still comes: a
\* certificate that goes on expiring, or cannot be read, is told in the end.
WarningsAreTold ==
    /\ <>[](IsWatched /\ server.readable /\ server.expiring) => <>[]expiryTold
    /\ <>[](IsWatched /\ ~server.readable /\ ~around.incident) => <>[]unreadTold

\* No check lets a key pass that does not match its pin unless an alert about
\* this key and this pin was delivered, through maintenance, lost alerts,
\* crashes and changes of the pin; remember_pin is not cut in two.
RogueIsReported ==
    torn \/ \A rogue \in accepted : rogue[1] = rogue[2] \/ rogue \in reported

\* Both, after every step: neither an expiry nor a key that is not the pinned one goes untold.
CertificatesAreWatched == WarningsAreTold /\ [][RogueIsReported']_certVars
=============================================================================
