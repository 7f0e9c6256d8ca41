----------------------------- MODULE Compaction -----------------------------
(***************************************************************************)
(* hora compact (db/compact.rs, cli/compact.rs) against everything else    *)
(* that opens the database: the daemon (serve.rs), which holds <db>.lock,  *)
(* and the commands (cli/mod.rs), which hold <db>.writers.lock shared.     *)
(* Compaction takes both, rewrites the database into <db>.compact and      *)
(* renames it over the original.                                           *)
(*                                                                         *)
(* A file is told from another by its number, 0 for no file, and holds     *)
(* commits.  What was committed since the last checkpoint is in the WAL    *)
(* beside the file it was written for.  A process that dies leaves its     *)
(* files; the kernel releases its locks.                                   *)
(***************************************************************************)
EXTENDS Naturals

CONSTANTS
    Commands,        \* commands run next to the daemon
    MaxCommits,      \* bound: commits ever made
    MaxCompactions,  \* bound: compactions ever started
    MaxFaults        \* bound: processes killed, steps of a compaction that fail

ASSUME CompactionAssumption ==
    /\ "daemon" \notin Commands
    /\ MaxCommits \in Nat /\ MaxCompactions \in Nat /\ MaxFaults \in Nat

VARIABLES
    db,        \* the number of the file at <db>
    rows,      \* the commits in it
    wal,       \* the file the WAL was written for, 0 without a WAL
    frames,    \* the commits in the WAL
    tmp,       \* the number of <db>.compact
    copy,      \* the commits in it
    bak,       \* the number of <db>.bak
    kept,      \* the commits in it
    pc,        \* the daemon and each command: what it does
    conn,      \* the file each of them has open
    ck,        \* the compaction: its step
    keep,      \* its --keep
    ckconn,    \* the file it has open
    acked,     \* the commits acknowledged
    split,     \* history: a --keep compaction ended between its two renames
    files,     \* files ever made
    runs,      \* bound counter
    faults     \* bound counter

fileVars == <<db, rows, wal, frames, tmp, copy, bak, kept>>
procVars == <<pc, conn>>
ckVars == <<ck, keep, ckconn>>
counters == <<acked, split, files, runs, faults>>
compactionVars == <<fileVars, procVars, ckVars, counters>>

Writers == Commands \cup {"daemon"}

CompactionInit ==
    /\ db = 0 /\ rows = {} /\ wal = 0 /\ frames = {}
    /\ tmp = 0 /\ copy = {} /\ bak = 0 /\ kept = {}
    /\ pc = [p \in Writers |-> "idle"] /\ conn = [p \in Writers |-> 0]
    /\ ck = "idle" /\ keep = FALSE /\ ckconn = 0
    /\ acked = {} /\ split = FALSE /\ files = 0 /\ runs = 0 /\ faults = 0

(***************************************************************************)
(* Locks: held by who is past taking them.                                 *)
(***************************************************************************)
Running(p) == pc[p] \in {"locked", "open"}
Compacting == ck # "idle"
HoldsWriters == ck \notin {"idle", "locked"}

\* (mutated: commands do not take the lock)
SharedAlways == TRUE

\* lock_writers(path, false): refused while it is held exclusive.
SharedFree == ~HoldsWriters

\* (mutated: compaction does not wait for the commands)
ExclusiveAlways == TRUE

\* lock_writers(path, true): refused while a command holds it.
ExclusiveFree == \A c \in Commands : ~Running(c)

(***************************************************************************)
(* SQLite, as it is used here.                                             *)
(***************************************************************************)
Others(p) == \E q \in Writers \ {p} : conn[q] = conn[p] /\ conn[q] # 0

\* db::connect: precreate_private, then the file is open.
Connect(p) ==
    /\ conn' = [conn EXCEPT ![p] = IF db = 0 THEN files + 1 ELSE db]
    /\ IF db = 0
         THEN db' = files + 1 /\ files' = files + 1 /\ rows' = {}
         ELSE UNCHANGED <<db, files, rows>>

\* A commit goes to the WAL of the file that is open; the WAL of a file that is
\* no longer at <db> is one nobody will read.
Commit(file) ==
    /\ \E n \in 1 .. MaxCommits \ acked :
         /\ acked' = acked \cup {n}
         /\ frames' = IF file # db THEN frames ELSE
                      IF wal = db THEN frames \cup {n} ELSE {n}
    /\ wal' = IF file = db THEN db ELSE wal

\* The last connection closed checkpoints the WAL and removes it.
Checkpoint(file) ==
    /\ rows' = IF file = db /\ wal = db THEN rows \cup frames ELSE rows
    /\ frames' = IF file = db THEN {} ELSE frames

Close(file, last) ==
    IF last
      THEN Checkpoint(file) /\ wal' = IF file = db THEN 0 ELSE wal
      ELSE UNCHANGED <<rows, frames, wal>>

(***************************************************************************)
(* The daemon and the commands.                                            *)
(***************************************************************************)
bystander == <<tmp, copy, bak, kept, ckVars, split, runs>>

\* serve: lock_exclusive.
Serve ==
    /\ pc["daemon"] = "idle" /\ ~Compacting
    /\ pc' = [pc EXCEPT !["daemon"] = "locked"]
    /\ UNCHANGED <<bystander, db, rows, wal, frames, conn, acked, files, faults>>

\* open_database_with: a missing file is refused before the lock is taken...
Find(c) ==
    /\ pc[c] = "idle" /\ db # 0
    /\ pc' = [pc EXCEPT ![c] = "found"]
    /\ UNCHANGED <<bystander, db, rows, wal, frames, conn, acked, files, faults>>

\* ... and the command refuses while compaction holds it.
Share(c) ==
    /\ pc[c] = "found"
    /\ pc' = [pc EXCEPT ![c] = IF SharedFree THEN "locked" ELSE "idle"]
    /\ UNCHANGED <<bystander, db, rows, wal, frames, conn, acked, files, faults>>

Open(p) ==
    /\ pc[p] = "locked" /\ pc' = [pc EXCEPT ![p] = "open"]
    /\ Connect(p)
    /\ UNCHANGED <<bystander, wal, frames, acked, faults>>

Write(p) ==
    /\ pc[p] = "open" /\ Commit(conn[p])
    /\ UNCHANGED <<bystander, db, rows, procVars, files, faults>>

\* SQLite checkpoints on its own while it is open.
AutoCheckpoint ==
    /\ \E p \in Writers : conn[p] = db
    /\ db # 0 /\ wal = db /\ Checkpoint(db)
    /\ UNCHANGED <<bystander, db, wal, procVars, acked, files, faults>>

Leave(p) ==
    /\ pc' = [pc EXCEPT ![p] = "idle"] /\ conn' = [conn EXCEPT ![p] = 0]

\* The process ends.
Exit(p) ==
    /\ pc[p] = "open" /\ Leave(p) /\ Close(conn[p], ~Others(p))
    /\ UNCHANGED <<bystander, db, acked, files, faults>>

Fault == faults < MaxFaults /\ faults' = faults + 1

Die(p) ==
    /\ pc[p] # "idle" /\ Fault /\ Leave(p)
    /\ UNCHANGED <<bystander, db, rows, wal, frames, acked, files>>

Process(p) == Open(p) \/ Write(p) \/ Exit(p) \/ Die(p)

(***************************************************************************)
(* compact, then vacuum_swap.                                              *)
(***************************************************************************)
Goto(step) == ck' = step /\ UNCHANGED keep

Compact ==
    /\ ~Compacting /\ ~Running("daemon")
    /\ runs < MaxCompactions /\ runs' = runs + 1
    /\ ck' = "locked" /\ keep' \in BOOLEAN
    /\ UNCHANGED <<fileVars, procVars, ckconn, acked, split, files, faults>>

\* The process ends without the database open: its locks are released.
Give == ck' = "idle" /\ keep' = FALSE /\ ckconn' = 0

\* take_writers_lock, or the command says who is in the way and ends.
Exclude ==
    /\ ck = "locked"
    /\ IF ExclusiveFree THEN Goto("alone") /\ UNCHANGED ckconn ELSE Give
    /\ UNCHANGED <<fileVars, procVars, counters>>

\* open_database_with(HeldExclusive): a missing file is an error.
OpenAlone ==
    /\ ck = "alone"
    /\ IF db = 0 THEN Give ELSE Goto("retention") /\ ckconn' = db
    /\ UNCHANGED <<fileVars, procVars, counters>>

\* apply_retention: what it deletes is one more commit.
Retain ==
    /\ ck = "retention" /\ Goto("swap")
    /\ (\/ Commit(ckconn) \/ UNCHANGED <<acked, frames, wal>>)
    /\ UNCHANGED <<db, rows, tmp, copy, bak, kept, procVars, ckconn, split, files, runs,
                   faults>>

\* (mutated: an older backup is replaced)
BackupMayBeReplaced == FALSE

BackupInTheWay == keep /\ bak # 0

\* A stale copy is removed, an empty file made in its place; a backup that
\* would be replaced ends the compaction.
Prepare ==
    /\ ck = "swap"
    /\ IF BackupInTheWay
         THEN Give /\ Close(ckconn, TRUE) /\ UNCHANGED <<tmp, copy, files>>
         ELSE /\ Goto("copy") /\ tmp' = files + 1 /\ files' = files + 1 /\ copy' = {}
              /\ UNCHANGED <<rows, frames, wal, ckconn>>
    /\ UNCHANGED <<db, bak, kept, procVars, acked, split, runs, faults>>

\* wal_checkpoint(TRUNCATE), then VACUUM INTO.
Copy ==
    /\ ck = "copy" /\ Goto("close") /\ Checkpoint(ckconn)
    /\ copy' = IF ckconn = db THEN rows' ELSE {}
    /\ UNCHANGED <<db, wal, tmp, bak, kept, procVars, ckconn, counters>>

CloseStore ==
    /\ ck = "close"
    /\ IF keep THEN Goto("keep") ELSE Goto("replace")
    /\ Close(ckconn, \A p \in Writers : conn[p] # ckconn) /\ ckconn' = 0
    /\ UNCHANGED <<db, tmp, copy, bak, kept, procVars, counters>>

\* rename(path, backup).
Keep ==
    /\ ck = "keep" /\ Goto("replace")
    /\ bak' = db /\ kept' = rows /\ db' = 0 /\ rows' = {}
    /\ UNCHANGED <<wal, frames, tmp, copy, procVars, ckconn, counters>>

\* rename(tmp, path).
Replace ==
    /\ ck = "replace" /\ Goto("sidecars")
    /\ db' = tmp /\ rows' = copy /\ tmp' = 0 /\ copy' = {}
    /\ UNCHANGED <<wal, frames, bak, kept, procVars, ckconn, counters>>

\* The -wal and -shm of the old file.
RemoveSidecars ==
    /\ ck = "sidecars" /\ Give /\ wal' = 0 /\ frames' = {}
    /\ UNCHANGED <<db, rows, tmp, copy, bak, kept, procVars, counters>>

BetweenRenames == ck = "replace" /\ keep

\* A step fails: the error ends the process, which closes what it has open.  A
\* copy that failed is removed, nothing else is.
Fail ==
    /\ ck \in {"alone", "retention", "swap", "copy", "close", "keep", "replace", "sidecars"}
    /\ Fault /\ Give /\ split' = (split \/ BetweenRenames)
    /\ Close(ckconn, ckconn # 0 /\ \A p \in Writers : conn[p] # ckconn)
    /\ IF ck = "copy" THEN tmp' = 0 /\ copy' = {} ELSE UNCHANGED <<tmp, copy>>
    /\ UNCHANGED <<db, bak, kept, procVars, acked, files, runs>>

Killed ==
    /\ Compacting /\ Fault /\ Give /\ split' = (split \/ BetweenRenames)
    /\ UNCHANGED <<fileVars, procVars, acked, files, runs>>

\* The operator deletes the backup once the daemon runs fine.
DeleteBackup ==
    /\ bak # 0 /\ ~split /\ pc["daemon"] = "open" /\ conn["daemon"] # bak
    /\ bak' = 0 /\ kept' = {}
    /\ UNCHANGED <<db, rows, wal, frames, tmp, copy, procVars, ckVars, counters>>

CompactNext ==
    \/ Compact \/ Exclude \/ OpenAlone \/ Retain \/ Prepare \/ Copy \/ CloseStore
    \/ Keep \/ Replace \/ RemoveSidecars \/ Fail \/ Killed

CompactionNext ==
    \/ Serve \/ AutoCheckpoint \/ DeleteBackup
    \/ \E c \in Commands : Find(c) \/ Share(c)
    \/ \E p \in Writers : Process(p)
    \/ CompactNext

CompactionSpec == CompactionInit /\ [][CompactionNext]_compactionVars

(***************************************************************************)
(* Properties.                                                             *)
(***************************************************************************)
CompactionTypeOK ==
    /\ {db, wal, tmp, bak, ckconn, files, runs, faults} \subseteq Nat
    /\ {rows, frames, copy, kept, acked} \subseteq SUBSET (1 .. MaxCommits)
    /\ pc \in [Writers -> {"idle", "found", "locked", "open"}]
    /\ conn \in [Writers -> Nat] /\ split \in BOOLEAN /\ keep \in BOOLEAN
    /\ ck \in {"idle", "locked", "alone", "retention", "swap", "copy", "close", "keep",
               "replace", "sidecars"}

Logical == rows \cup (IF wal = db THEN frames ELSE {})

\* Whatever process dies and whatever step fails, every acknowledged commit is
\* in the database or in the original that --keep set aside ("a command never
\* writes into a file that is being replaced").
CommitsSurvive == acked \subseteq Logical \cup kept

\* The database at its path holds every commit at every moment, but between the
\* two renames of --keep ("the original stays untouched until the rename").
OriginalStays == ~split /\ ~BetweenRenames => acked \subseteq Logical

\* A WAL never sits beside a file it was not written for: it would be replayed
\* into it ("must not be replayed into the new one").
WalIsOfItsFile == wal # 0 /\ db # 0 => wal = db
=============================================================================
