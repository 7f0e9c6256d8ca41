--------------------------- MODULE AlertMessages ---------------------------
(***************************************************************************)
(* The alerts routed through the coalescer (`AlertMsg` in coalesce.rs) and *)
(* the channel they travel on: unbounded, in order, and lost with the      *)
(* process.  What an alert says (error, names, verdict, routes) is left    *)
(* out: no decision reads it.                                              *)
(***************************************************************************)
EXTENDS Sequences

CONSTANT Monitors       \* the configured monitor ids

VARIABLE inbox          \* the messages sent and not yet read

Down(m, local) == [kind |-> "down", id |-> m, local_only |-> local]
Recovered(m) == [kind |-> "recovered", id |-> m]
ResumedLocalOnly(m, confirmed) ==
    [kind |-> "resumed", id |-> m, confirmed |-> confirmed]

AlertMsg ==
    [kind: {"down"}, id: Monitors, local_only: BOOLEAN]
      \union [kind: {"recovered"}, id: Monitors]
      \union [kind: {"resumed"}, id: Monitors, confirmed: BOOLEAN]

Send(message) == inbox' = Append(inbox, message)
============================================================================
