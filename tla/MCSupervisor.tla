---------------------------- MODULE MCSupervisor ----------------------------
(***************************************************************************)
(* Supervisor for TLC: a configuration, one that changes a monitor, one    *)
(* that removes it, and a text that is refused.                            *)
(***************************************************************************)
EXTENDS Supervisor

CONSTANTS a, b

FourTexts == {"first", "changed", "removed", "refused"}

FourConfigs ==
    [t \in FourTexts |->
        CASE t = "first" -> [m \in Ids |-> "old"]
          [] t = "changed" -> [m \in Ids |-> IF m = a THEN "new" ELSE "old"]
          [] t = "removed" -> [m \in Ids |-> IF m = a THEN "absent" ELSE "old"]
          [] t = "refused" -> Invalid]
=============================================================================
