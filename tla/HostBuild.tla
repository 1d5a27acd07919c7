------------------------------ MODULE HostBuild ------------------------------
(***************************************************************************)
(* `nopo build` on the host: the plan of scripts/build.ts, the script that *)
(* `build.command: { deps }' comes to (command-dag.ts), and the shell that *)
(* runs it, beside the RUN line the docker plugin writes for the same      *)
(* command (generateBuildRunLines).                                        *)
(*                                                                         *)
(* A project: targets, its packages, buildDeps of each service, command of *)
(* each service ("none", "plain" or the roots of its DAG), and the map     *)
(* `commands' (from names to [kind, deps]) that the roots refer to.        *)
(***************************************************************************)
EXTENDS Integers, Sequences, SequencesExt, FiniteSets, Graphs

CONSTANTS Services, CommandNames, Projects
VARIABLES project, fails, state, log
vars == <<project, fails, state, log>>

Pre == "pre_build"
Post == "post_build"
\* The other nodes are called after their services.
HostAssumption ==
  /\ {Pre, Post} \intersect Services = {}
  /\ \A P \in Projects :
       /\ P.targets \subseteq Services
       /\ IsFiniteSet(DOMAIN P.commands) /\ DOMAIN P.commands \subseteq CommandNames
       /\ \A n \in DOMAIN P.commands : P.commands[n].deps \in Seq(CommandNames)
       /\ \A s \in P.targets :
            P.command[s] \in {<<"none">>, <<"plain">>} \union Seq(CommandNames)
Steps == DOMAIN project.commands
Kind(n) == project.commands[n].kind
Deps(n) == project.commands[n].deps

-----------------------------------------------------------------------------
(* command-dag.ts *)
Rejected(n) == n \notin Steps \/ Kind(n) \in {"container", "nested", "cross-service"}

\* dag: the names visited, in order; chain: the ones that are being visited.
Dag == [ok : BOOLEAN, ordered : Seq(CommandNames)]
Call == [dag : Dag, name : CommandNames, chain : SUBSET Steps]
\* visit, one call after the other.
Each(visit, dag, names, chain) ==
  LET each[i \in 0..Len(names)] ==
        IF i = 0 THEN dag ELSE visit[[dag |-> each[i - 1], name |-> names[i], chain |-> chain]]
  IN  each[Len(names)]
\* Broken: a command comes before its dependencies.
EnterFirst(visit, call) ==
  LET dag == call.dag  n == call.name
  IN  IF ~dag.ok \/ n \in ToSet(dag.ordered) THEN dag
      ELSE IF n \in call.chain \/ Rejected(n) THEN [dag EXCEPT !.ok = FALSE]
      ELSE Each(visit, [dag EXCEPT !.ordered = Append(@, n)], Deps(n), call.chain \union {n})
Enter(visit, call) ==
  LET dag == call.dag  n == call.name
  IN  IF ~dag.ok \/ n \in ToSet(dag.ordered) THEN dag
      ELSE IF n \in call.chain \/ Rejected(n) THEN [dag EXCEPT !.ok = FALSE]
      ELSE [Each(visit, dag, Deps(n), call.chain \union {n}) EXCEPT !.ordered = Append(@, n)]
\* visit as deep as a chain without repetition can be.
Depth == Cardinality(Steps) + 1
Visit ==
  LET visit[k \in 0..Depth] ==
        [call \in Call |-> IF k = 0 THEN [call.dag EXCEPT !.ok = FALSE]
                                    ELSE Enter(visit[k - 1], call)]
  IN  visit[Depth]
LeafSteps(names) ==
  LET leaves[i \in 0..Len(names)] ==
        IF i = 0 THEN <<>>
        ELSE IF Kind(names[i]) = "leaf" THEN Append(leaves[i - 1], names[i]) ELSE leaves[i - 1]
  IN  leaves[Len(names)]
resolveCommandDag(roots) ==
  LET dag == Each(Visit, [ok |-> TRUE, ordered |-> <<>>], roots, {})
  IN  [ok |-> dag.ok /\ \A n \in ToSet(dag.ordered) : Kind(n) # "plugin",
       steps |-> LeafSteps(dag.ordered)]

\* The script of a service's build.command.
HasDag(s) == project.command[s] \notin {<<"none">>, <<"plain">>}
resolveBuildCommandScript(s) ==
  IF HasDag(s) THEN resolveCommandDag(project.command[s]) ELSE [ok |-> TRUE, steps |-> <<"plain">>]

-----------------------------------------------------------------------------
(* The shells: what runs of a script of steps, and whether the shell succeeds. *)
FirstFailure(script) == SelectInSeq(script, LAMBDA n : n \in fails)
\* `sh -c' of the host: one line per step, and the status of the last.
Host(script) == [ran |-> script, ok |-> script = <<>> \/ Last(script) \notin fails]
\* The heredoc of generateBuildRunLines, after `set -e'.
Docker(script) ==
  LET f == FirstFailure(script)
  IN  [ran |-> IF f = 0 THEN script ELSE SubSeq(script, 1, f), ok |-> f = 0]

-----------------------------------------------------------------------------
(* BuildScript.plan and its dispatch. *)
Package(s) == s \in project.packages
buildableTargets == {s \in project.targets : Package(s) => project.command[s] # <<"none">>}
packageBuilds == {s \in buildableTargets : Package(s)}
Needs(s) ==
  {Pre} \union (project.buildDeps[s] \intersect buildableTargets)
    \union (IF Package(s) THEN {} ELSE packageBuilds)
Nodes == {Pre, Post} \union buildableTargets
AllNeeds(n) == IF n = Pre THEN {} ELSE IF n # Post THEN Needs(n)
                                       ELSE IF buildableTargets = {} THEN {Pre}
                                            ELSE buildableTargets
\* What validatePlan accepts: no node waits for itself, however indirectly.
Acyclic ==
  IsDag([node |-> buildableTargets,
         edge |-> {e \in buildableTargets \X buildableTargets : e[2] \in Needs(e[1])}])

Init ==
  /\ project \in Projects /\ fails \in SUBSET (DOMAIN project.commands \union {"plain"})
  /\ state = [n \in Nodes |-> IF Acyclic THEN "pending" ELSE "rejected"] /\ log = <<>>
Ready(n) == state[n] = "pending" /\ \A m \in AllNeeds(n) : state[m] = "done"
Finish(n, ok) ==
  /\ state' = [m \in Nodes |-> IF m = n THEN IF ok THEN "done" ELSE "failed" ELSE state[m]]
  /\ log' = Append(log, [node |-> n, ok |-> ok])
Hooks(n) == n \in {Pre, Post} /\ Ready(n) /\ Finish(n, TRUE) /\ UNCHANGED <<project, fails>>
Build(s) ==    \* build:exec, when no plugin overrides it: runBuildHostFallback
  /\ Ready(s) /\ UNCHANGED <<project, fails>>
  /\ LET script == resolveBuildCommandScript(s)
     IN  IF project.command[s] = <<"none">> THEN Finish(s, TRUE)
         ELSE IF ~script.ok THEN Finish(s, FALSE)
         ELSE Finish(s, Host(script.steps).ok)
Next == Hooks(Pre) \/ Hooks(Post) \/ \E s \in Services : s \in buildableTargets /\ Build(s)
Spec == Init /\ [][Next]_vars

-----------------------------------------------------------------------------
(* Properties. *)
TypeOK ==
  /\ DOMAIN state = Nodes /\ \A n \in Nodes : state[n] \in {"pending", "done", "failed", "rejected"}
  \* no node runs twice
  /\ \A i, j \in DOMAIN log : log[i].node \in Nodes /\ (i # j => log[i].node # log[j].node)

Built(i, n) == \E j \in 1..(i - 1) : log[j] = [node |-> n, ok |-> TRUE]
\* When a service is built every package of the plan has been ("all packages
\* first, then services"), and whatever is built, its build dependencies have
\* been, the indirect ones too.
BuiltInOrder ==
  \A i \in DOMAIN log : LET n == log[i].node IN n \notin {Pre, Post} =>
    /\ ~Package(n) => \A p \in packageBuilds : Built(i, p)
    /\ \A d \in project.buildDeps[n] \intersect buildableTargets :
         Built(i, d) /\ \A e \in project.buildDeps[d] \intersect buildableTargets : Built(i, e)

\* The post_build hooks fire at the end of a build that succeeded, and of no other.
PostMeansBuilt == state[Post] = "done" => \A n \in Nodes : state[n] = "done"

\* The commands a DAG reaches: its roots, and what they depend on.
Closed(C) == \A n \in C \intersect Steps : ToSet(Deps(n)) \subseteq C
Reached(roots) ==
  {n \in CommandNames : \A C \in SUBSET CommandNames : roots \subseteq C /\ Closed(C) => n \in C}
Dags == {s \in buildableTargets : HasDag(s)}
\* A command that cannot run here, or that depends on itself.
Unrunnable(n) == Rejected(n) \/ Kind(n) = "plugin" \/ n \in Reached(ToSet(Deps(n)))
CanRun(s) == ~\E n \in Reached(ToSet(project.command[s])) : Unrunnable(n)
\* There is a script of a DAG if everything that it reaches can run, and no other.
\* It has each leaf command that the DAG reaches, once, and after every leaf that
\* the command depends on directly or through groups.
ScriptsAreOrdered ==
  \A s \in Dags : LET script == resolveBuildCommandScript(s)
                  IN  script.ok = CanRun(s) /\ (script.ok =>
    /\ ToSet(script.steps) = {n \in Reached(ToSet(project.command[s])) : Kind(n) = "leaf"}
    /\ IsInjective(script.steps)
    /\ \A i, j \in DOMAIN script.steps :
         script.steps[j] \in Reached(ToSet(Deps(script.steps[i]))) => j < i)
\* A build whose DAG reaches a command that cannot run here, or that depends
\* on itself, does not succeed and runs nothing of that DAG.
NothingUnrunnableIsBuilt == \A s \in Dags : ~CanRun(s) => state[s] # "done"

\* A build in an image that succeeds has run every step, and none of them failed.
ImageBuildsStop ==
  \A s \in Dags : LET b == Docker(resolveBuildCommandScript(s).steps)
                  IN  ToSet(b.ran) \intersect fails # {} => ~b.ok /\ Last(b.ran) \in fails
=============================================================================
