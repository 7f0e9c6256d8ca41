----------------------------- MODULE MCHistory -----------------------------
(***************************************************************************)
(* One monitor's history for TLC: written, rolled up, pruned and swept     *)
(* with nobody reading it, and with readers (ReadsSpec).                   *)
(***************************************************************************)
EXTENDS HistoryReads

CONSTANTS a

ShortRetention == [m \in Monitors |-> 4]
LongRetention == [m \in Monitors |-> 6]

UnreadNext == HistoryNext /\ UNCHANGED readers
UnreadSpec == ReadsInit /\ [][UnreadNext]_<<history, readers>>
=============================================================================
