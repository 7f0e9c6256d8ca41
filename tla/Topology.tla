------------------------------ MODULE Topology ------------------------------
(***************************************************************************)
(* The dependencies between monitors (topology.rs): a configuration is     *)
(* refused unless every depends_on names a monitor and the graph is        *)
(* acyclic (Kahn's algorithm); the transitive upstreams and dependents     *)
(* come from a breadth-first walk.                                         *)
(*                                                                         *)
(* The count of dependencies a monitor still waits for (in_degree) is the  *)
(* set of them; the map it starts from is walked in any order, so a queue  *)
(* of Kahn's algorithm is a set.                                           *)
(***************************************************************************)
EXTENDS Naturals, FiniteSets

CONSTANTS
    Ids,        \* what an id may be
    Declared    \* what the monitors of a configuration may be: sets of ids

ASSUME TopologyAssumption ==
    \A declared \in Declared : declared \subseteq Ids /\ IsFiniteSet(declared)

VARIABLES
    monitors,   \* the ids of this configuration's monitors
    depends,    \* depends[m]: its depends_on
    check,      \* "ids", "sorting", "accepted" or "refused"; then "walking", "walked"
    waits,      \* waits[m]: the dependencies of m not visited yet
    ready,      \* the queue
    visited,    \* what was taken off it
    start,      \* where the walk starts
    reached     \* what the walk found

topologyVars == <<monitors, depends, check, waits, ready, visited, start, reached>>

TopologyInit ==
    /\ monitors \in Declared
    /\ depends \in [monitors -> SUBSET Ids]
    /\ check = "ids"
    /\ waits = depends /\ ready = {} /\ visited = {}
    /\ start \in monitors /\ reached = {}

---------------------------------------------------------------------------
(* validate_dag *)

\* Every id of depends_on is a monitor; the monitors that wait for nothing are queued.
CheckIds ==
    /\ check = "ids"
    /\ IF \A m \in monitors : depends[m] \subseteq monitors
       THEN check' = "sorting" /\ ready' = {m \in monitors : waits[m] = {}}
       ELSE check' = "refused" /\ UNCHANGED ready
    /\ UNCHANGED <<monitors, depends, waits, visited, start, reached>>

\* Mutant: a monitor is queued when one of its dependencies was visited.
FreedByAny(m, node) == node \in waits[m]

\* The last dependency it waited for is visited.
Freed(m, node) == waits[m] = {node}

\* queue.pop_front and its neighbours.
Visit(node) ==
    /\ check = "sorting" /\ node \in ready
    /\ visited' = visited \cup {node}
    /\ waits' = [m \in monitors |-> waits[m] \ {node}]
    /\ ready' = (ready \ {node}) \cup {m \in monitors : Freed(m, node)}
    /\ UNCHANGED <<monitors, depends, check, start, reached>>

Judge ==
    /\ check = "sorting" /\ ready = {}
    /\ check' = IF Cardinality(visited) = Cardinality(monitors) THEN "accepted" ELSE "refused"
    /\ UNCHANGED <<monitors, depends, waits, ready, visited, start, reached>>

---------------------------------------------------------------------------
(* bfs, over the dependencies of an accepted configuration *)

Walk ==
    /\ check = "accepted" /\ check' = "walking"
    /\ ready' = depends[start]
    /\ UNCHANGED <<monitors, depends, waits, visited, start, reached>>

Step(node) ==
    /\ check = "walking" /\ node \in ready
    /\ reached' = reached \cup {node}
    /\ ready' = (ready \ {node}) \cup (IF node \in reached THEN {} ELSE depends[node])
    /\ UNCHANGED <<monitors, depends, check, waits, visited, start>>

Walked ==
    /\ check = "walking" /\ ready = {} /\ check' = "walked"
    /\ UNCHANGED <<monitors, depends, waits, ready, visited, start, reached>>

TopologyNext ==
    \/ CheckIds \/ Judge \/ Walk \/ Walked
    \/ \E node \in Ids : Visit(node) \/ Step(node)

TopologySpec == TopologyInit /\ [][TopologyNext]_topologyVars

---------------------------------------------------------------------------
(* What a dependency means, without a walk *)

\* The least set that holds the dependencies of m and those of its members.
Upstream(m) ==
    LET closed == {s \in SUBSET monitors :
                      depends[m] \subseteq s /\ \A n \in s : depends[n] \subseteq s}
    IN {n \in monitors : \A s \in closed : n \in s}

Acyclic ==
    /\ \A m \in monitors : depends[m] \subseteq monitors
    /\ \A m \in monitors : m \notin Upstream(m)

\* A configuration is accepted exactly if no monitor is, through others, its own
\* upstream - the coalescer would have an alert wait for itself - and what is
\* then found upstream of a monitor is all there is.
DependenciesAreOrdered ==
    /\ check = "refused" => ~Acyclic
    /\ check \in {"accepted", "walking", "walked"} => Acyclic
    /\ check = "walked" => reached = Upstream(start)

\* Why the coalescer may rely on it: what an accepted configuration depends on
\* never comes back to it.  A set of monitors each of which has a dependency in
\* the set (a cycle is one) is not accepted.
NoCycleIsAccepted ==
    check \in {"accepted", "walking", "walked"} =>
        \A cycle \in SUBSET monitors :
            cycle # {} => \E m \in cycle : depends[m] \cap cycle = {}
=============================================================================
