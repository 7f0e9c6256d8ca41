---------------------------- MODULE MCAlertPath ----------------------------
(***************************************************************************)
(* AlertPath for TLC: a chain of dependencies.                             *)
(***************************************************************************)
EXTENDS AlertPath

CONSTANTS root, mid, leaf

ChainUpstreams ==
    [m \in Monitors |->
        IF m = root THEN {} ELSE IF m = mid THEN {root} ELSE {root, mid}]
============================================================================
