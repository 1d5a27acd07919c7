------------------------------ MODULE Targets -------------------------------
(***************************************************************************)
(* From a command line to the targets it is for: Runner.resolveExecution-  *)
(* Plan() of packages/nopo/src/lib.ts with the argument parsers in front   *)
(* of it (target-args.ts, script-args.ts, CommandScript.parseCommandArgs), *)
(* the filters (filter.ts), the selection of the graph's nodes and their   *)
(* order (graph.ts), and what a deploy makes of the result                 *)
(* (plugins/terraform).                                                    *)
(*                                                                         *)
(* P is a project: target -> [type, build, test, tags, buildDeps,          *)
(* runtimeDeps, systemDeps].  q is a command line: the script, the words   *)
(* that stand alone (named), that follow a flag (value) or a bare `--'     *)
(* (after), and the flags.  Targets are numbers, in the order of their     *)
(* names.                                                                  *)
(***************************************************************************)
EXTENDS Naturals, Sequences, FiniteSets, SequencesExt

CONSTANTS Target, Typo, \* words: ids of targets, and one that is none
          Projects, CommandLines,
          Edits         \* which targets have changed files (see Rollout)

\* Scripts whose words are parsed, and stripped, by parseTargetArgs().
TargetScripts == {"build", "up"}

-----------------------------------------------------------------------------
(* Expressions and filters. *)

matchesFilter(P, t, f, edited) ==
  CASE f = "buildable" -> P[t].build
    [] f = "changed" -> t \in edited
    [] f = "package" -> P[t].type = "package"
    [] f = "service" -> P[t].type = "service"
    [] f = "testable" -> P[t].test
    [] f = "tags" -> TRUE               \* a field that every service has
    [] f = "!tags" -> FALSE
    [] f = "type=service" -> P[t].type = "service"
applyFilters(P, S, filters, edited) == {t \in S : \A f \in filters : matchesFilter(P, t, f, edited)}

-----------------------------------------------------------------------------
(* Words.  Everything that is no flag may name a target. *)

parseExplicitTargets(q) == (q.named \cup q.value \cup q.after) \cap Target
\* What the script's own parser takes for targets; it refuses unknown ones.
Positional(q) == IF q.script \in TargetScripts THEN q.named \cup q.after ELSE q.named
Refused(q) == q.script \in TargetScripts \cup {"command"} /\ ~(Positional(q) \subseteq Target)

\* The flags that are left for resolveExecutionPlan(): filters and tags are
\* used up by parseTargetArgs(), and only --since is put back; nothing else
\* reads the tags.
ScriptFilters(q) == IF q.script \in TargetScripts THEN {} ELSE q.filters
WithDependencies(q) == q.script = "list" /\ q.withDependencies

-----------------------------------------------------------------------------
(* Walks (see Expansion). *)

\* Broken: what is needed at run time only is left out.
DepsBuild(P, t) == P[t].buildDeps
Deps(P, t) == P[t].buildDeps \cup P[t].runtimeDeps
Needs(P) == [t \in Target |-> Deps(P, t)]
Consumers(P) == [t \in Target |-> {u \in Target : t \in Deps(P, u) \cup P[u].systemDeps}]

RECURSIVE Walk(_, _)
Walk(edges, S) == LET T == S \cup UNION {edges[t] \cap Target : t \in S}
IN IF T = S THEN S ELSE Walk(edges, T)

-----------------------------------------------------------------------------
(* The stages of resolveExecutionPlan(). *)

resolveTargetDAG(P, q) == Walk(Needs(P), parseExplicitTargets(q))

\* Before anything is added: the words' targets, or all, filtered.
preExpansionTargets(P, q, edited) ==
  LET dag == resolveTargetDAG(P, q)
      start == IF dag = {} THEN Target ELSE dag
      flagged == applyFilters(P, start, ScriptFilters(q)
                              \cup (IF q.changed THEN {"changed"} ELSE {}), edited)
  IN  IF q.script = "command" THEN {t \in flagged : P[t].test} ELSE flagged

resolveExecutionPlan(P, q, edited) ==
  LET pre == preExpansionTargets(P, q, edited)
      down == IF WithDependencies(q) THEN Walk(Needs(P), pre) ELSE pre
  IN  IF q.withDependants THEN Walk(Consumers(P), down) ELSE down

Selection(P, q, resolved) ==
  [t \in Target |-> IF t \in parseExplicitTargets(q) THEN "explicit"
                    ELSE IF t \in resolved THEN "transitive" ELSE "excluded"]

-----------------------------------------------------------------------------
(* graph.order(): Kahn's algorithm.  What becomes ready together is sorted. *)

Sorted(S) == SetToSortSeq(S, <)
\* What the target t, when it is taken, makes ready.
Ready(P, done, t) ==
  {u \in Target : t \in Deps(P, u) /\ (Deps(P, u) \cap Target) \subseteq (done \cup {t})}
RECURSIVE Kahn(_, _, _)
Kahn(P, queue, result) ==
  IF queue = <<>> THEN result
  ELSE LET t == queue[1]
       IN  Kahn(P, Tail(queue) \o Sorted(Ready(P, ToSet(result), t)), Append(result, t))
order(P) == Kahn(P, Sorted({t \in Target : Deps(P, t) \cap Target = {}}), <<>>)
Circular(P) == Len(order(P)) # Cardinality(Target)
included(P, selection) == SelectSeq(order(P), LAMBDA t : selection[t] # "excluded")

\* What `up' deploys of the resolved targets: collectServices().
collectServices(P, targets) ==
  {t \in Target : P[t].type = "service" /\ (targets = {} \/ t \in targets)}

-----------------------------------------------------------------------------
VARIABLE call   \* a command line and what became of it
NoCall == [done |-> FALSE]
Init == call = NoCall
Resolve ==
  \E P \in Projects, q \in CommandLines, edited \in Edits :
    LET resolved == resolveExecutionPlan(P, q, edited)
    IN  call' = [done |-> TRUE, P |-> P, q |-> q, edited |-> edited, circular |-> Circular(P),
                 refused |-> Refused(q) \/ Circular(P), resolved |-> resolved,
                 included |-> included(P, Selection(P, q, resolved)),
                 deployed |-> IF q.script = "up" THEN collectServices(P, resolved) ELSE {}]
Next == ~call.done /\ Resolve
Spec == Init /\ [][Next]_call

-----------------------------------------------------------------------------
Runs == call.done /\ ~call.refused
TypeOK == call.done => call.resolved \subseteq Target /\ Len(call.included) <= Cardinality(Target)

\* Unless a flag narrows the command, what it names is resolved together with
\* everything that takes to build and to run.
NamedIsComplete ==
  Runs /\ call.q.script \in TargetScripts /\ ~call.q.changed =>
    /\ call.q.named \subseteq call.resolved
    /\ \A t \in call.resolved : (call.P[t].buildDeps
                                 \cup call.P[t].runtimeDeps) \cap Target \subseteq call.resolved
                                \/ call.q.withDependants

\* `--changed --with-dependants' takes everything that may behave differently:
\* no target that is left out depends, in any way, on one that is taken.
ChangeReachesConsumers ==
  Runs /\ call.q.changed /\ call.q.withDependants =>
    \A t \in Target \ call.resolved :
      (call.P[t].buildDeps \cup call.P[t].runtimeDeps
       \cup call.P[t].systemDeps) \cap call.resolved = {}

\* Plugins see each target in scope once, after the ones it depends on; a
\* cycle of dependencies is always found.
DependenciesFirst ==
  /\ Runs => \A i, j \in DOMAIN call.included :
       /\ call.included[i] \in Deps(call.P, call.included[j]) => i < j
       /\ call.included[i] = call.included[j] => i = j
  /\ call.done => (call.circular <=> \E t \in Target : t \in Walk(Needs(call.P), Deps(call.P, t)))

\* `up' deploys no service that was not resolved, except that it deploys every
\* service when nothing was: `up --changed' without a change is `up'.
DeploysResolved ==
  Runs /\ call.resolved # {} => call.deployed \subseteq call.resolved
=============================================================================
