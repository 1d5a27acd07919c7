----------------------------- MODULE Expansion ------------------------------
(***************************************************************************)
(* The walks that widen a set of targets to what they need or to what      *)
(* needs them (packages/nopo/src/dependency-graph.ts): withDependencies(), *)
(* withTransitiveDependencies(), the same loop, and withDependants().      *)
(*                                                                         *)
(* g is a service graph: g.build[s], g.runtime[s] and g.system[s] are the  *)
(* dependencies of an entry s, and may name services that are no entry.    *)
(* The queue of a walk is kept as the set of its members: the order it is  *)
(* worked off in makes no difference to what is reached.                   *)
(***************************************************************************)
EXTENDS FiniteSets

CONSTANTS Name,         \* ids of services, registered or not
          AllServices   \* config.targets: what a walk may reach

ASSUME AllServicesAssumption == AllServices \subseteq Name

DepTypes == {"build", "runtime", "all"}
Walks == {"dependencies", "dependants"}

VARIABLES g, filtered, depType, walk, queue, result
vars == <<g, filtered, depType, walk, queue, result>>
inputs == <<g, filtered, depType, walk>>

GraphOK(x) == /\ x.entries \subseteq Name
              /\ x.build \in [Name -> SUBSET Name]
              /\ x.runtime \in [Name -> SUBSET Name]
              /\ x.system \in [Name -> SUBSET Name]

\* getDeps(), of an entry; nothing is known of other names.
getDeps(x, s, type) ==
  IF s \notin x.entries THEN {}
  ELSE (IF type # "runtime" THEN x.build[s] ELSE {})
    \cup (IF type # "build" THEN x.runtime[s] ELSE {})
getDepsForDependantsWalk(x, s, type) ==
  getDeps(x, s, type) \cup (IF s \in x.entries THEN x.system[s] ELSE {})

buildDependantsMap(x, type) ==
  [d \in Name |-> {s \in x.entries : d \in getDepsForDependantsWalk(x, s, type)}]

\* One edge of the walk.
Step(x, type, way, s) ==
  IF way = "dependencies" THEN getDeps(x, s, type) ELSE buildDependantsMap(x, type)[s]

TypeOK == /\ GraphOK(g) /\ filtered \subseteq Name /\ depType \in DepTypes /\ walk \in Walks
          /\ queue \subseteq result /\ result \subseteq Name

Start == /\ queue = filtered
         /\ result = filtered
Init == /\ GraphOK(g) /\ filtered \subseteq Name /\ depType \in DepTypes /\ walk \in Walks
        /\ Start

\* Broken: what is reached is not expanded further.
ExpandOnce(current) ==
  /\ queue' = queue \ {current}
  /\ result' = result \cup (Step(g, depType, walk, current) \cap AllServices)
\* queue.shift(), and the neighbours that are not in the result yet.
Expand(current) ==
  LET new == (Step(g, depType, walk, current) \cap AllServices) \ result
  IN  /\ queue' = (queue \ {current}) \cup new
      /\ result' = result \cup new

Next == /\ \E current \in queue : Expand(current)
        /\ UNCHANGED inputs
Spec == Init /\ [][Next]_vars
-----------------------------------------------------------------------------
(* What a walk is for. *)

Closed(S) == \A s \in S : Step(g, depType, walk, s) \cap AllServices \subseteq S

\* When a walk ends it has reached everything that can be reached from the
\* targets through registered services, and nothing else: the result is the
\* least closed set that contains the targets.
LeastClosedSet ==
  queue = {} => /\ filtered \subseteq result
                /\ Closed(result)
                /\ \A S \in SUBSET Name : filtered \subseteq S /\ Closed(S) => result \subseteq S

\* The two walks are each other's inverse as far as build and runtime edges go;
\* the walk to the dependants also follows the system dependencies, and only
\* it does (a change in one of them reaches everyone, but nobody has to build
\* or start one).
SystemOnlyBackwards ==
  \A s \in g.entries, d \in Name :
    /\ (s \in Step(g, depType, "dependants", d)) <=>
         (d \in Step(g, depType, "dependencies", s) \/ d \in g.system[s])
    /\ d \in Step(g, depType, "dependencies", s) => d \in g.build[s] \cup g.runtime[s]

=============================================================================
