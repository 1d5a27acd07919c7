--------------------------- MODULE MCConfiguration ---------------------------
(***************************************************************************)
(* What nopo makes of its configuration and a command line, one component  *)
(* beside the other: a behaviour is one of the building or folding of a    *)
(* plan, the choice of targets, or the reading of a line.                  *)
(***************************************************************************)
EXTENDS Naturals, Integers, TLC

CONSTANTS a, b, Own, Same, NoUses, NoDir

VARIABLES
  part,   \* which component runs; the others are not there
  v1   \* its variable
vars == <<part, v1>>

(* Plans of commands: services a and b; gen, lint, all and the group test   *)
(* with unit and e2e.                                                       *)
Cmd(exec, kids, deps, uses) ==
  [exec |-> exec, kids |-> kids, deps |-> deps, uses |-> uses, env |-> << >>, dir |-> NoDir,
   literal |-> FALSE]
Leaf(deps, uses) == Cmd("shell", << >>, deps, uses)
With(n, env, dir) == [n EXCEPT !.env = env, !.dir = dir]
Line(path) == [path |-> path, include |-> {}, exclude |-> {}]
On(s, path) == Line(path) @@ [svc |-> s]
Gen == On(Own, <<"gen">>)
GenB == On(b, <<"gen">>)
All == On(Own, <<"all">>)
Uses(s, command) == [svc |-> s, cmd |-> command]
Commands(t, u, w, al, bl, bw) ==
  a :> (<<"gen">> :> Leaf(<< >>, NoUses)
        @@ <<"test">> :> With(Cmd("", <<"unit", "e2e">>, t, NoUses),
                              "K" :> "t" @@ "G" :> "t", NoDir)
        @@ <<"test", "unit">> :> With(Leaf(u, NoUses), "K" :> "u", NoDir)
        @@ <<"test", "e2e">> :> With(Leaf(<< >>, NoUses), << >>, "e2e")
        @@ <<"lint">> :> Leaf(<< >>, w) @@ <<"all">> :> Cmd("", << >>, al, NoUses))
    @@ b :> (<<"lint">> :> Leaf(bl, bw) @@ <<"gen">> :> Leaf(<< >>, NoUses))
CommandTrees ==
  {Commands(t, u, w, <<Gen>>, bl, bw) :
     t \in {<< >>, <<All>>}, u \in {<< >>, <<Gen, GenB>>},
     w \in {NoUses, << >>, <<Uses(b, Same)>>, <<Uses(b, "gen"), Uses(b, "lint")>>},
     bl \in {<< >>, <<GenB>>, <<On(a, <<"gen">>)>>}, bw \in {NoUses, <<Uses(a, Same)>>}}
  \cup {Commands(t, u, NoUses, <<GenB, On(b, <<"lint">>)>>, bl, NoUses) :
     t \in {<< >>, <<Gen>>, <<All>>}, u \in {<< >>, <<Gen, GenB>>}, bl \in {<< >>, <<GenB>>}}
CommandRequests ==
  {Line(<<"test">>), Line(<<"test", "unit">>), Line(<<"lint">>), Line(<<"all">>),
   [Line(<<"test">>) EXCEPT !.exclude = {"e2e"}],
   [Line(<<"test">>) EXCEPT !.include = {"unit", "e2e"}, !.exclude = {"unit"}],
   [Line(<<"lint">>) EXCEPT !.exclude = {"e2e"}]}

(* Plans to fold: needs are written in any order and may repeat an id.      *)
PlanNode(id, needs, t, opt) == [id |-> id, needs |-> needs, target |-> t, cache |-> opt]
NeedsOf(i) == CASE i = 1 -> {<<>>} [] i = 2 -> {<<>>, <<1>>} [] i = 3 -> {<<>>, <<2>>, <<1, 2>>}
              [] OTHER -> {<<>>, <<1>>, <<3>>, <<3, 1, 2>>}
FoldedPlans ==
  {<<PlanNode(1, p, "x", k), PlanNode(2, q, "x", l), PlanNode(3, r, "y", k),
     PlanNode(4, s, "x", "on")>> :
     p \in NeedsOf(1), q \in NeedsOf(2), r \in NeedsOf(3), s \in NeedsOf(4),
     k \in {"none", "on"}, l \in {"none", "on", "all"}}
FoldClaims ==
  {<<S>> : S \in SUBSET (1 .. 4)} \cup {<<S, T>> : S \in {{}, {1, 2}}, T \in {{2}, {3, 4}}}
SharedNodes ==
  {PlanNode(1, ns, t, "on") : ns \in {<<>>, <<2>>, <<2, 3>>, <<3, 2>>, <<2, 3, 3>>},
   t \in {"x", "y"}}

(* Targets.  1: a package everything is built with; 2: a database; 3: an    *)
(* api on both; 4: a site that needs the api when it runs.                  *)
Svc(type, build, test, tags, needed, running, system) ==
  [type |-> type, build |-> build, test |-> test, tags |-> tags, buildDeps |-> needed,
   runtimeDeps |-> running, systemDeps |-> system]
UsualTargets ==
  <<Svc("package", TRUE, TRUE, {}, {}, {}, {}), Svc("service", FALSE, FALSE, {"dev"}, {}, {}, {}),
    Svc("service", TRUE, TRUE, {}, {1}, {2}, {}), Svc("service", TRUE, TRUE, {"dev"},
                                                      {}, {3}, {1})>>
\* With more ways from one target to another; with a ring; with ids that sort
\* after those of what depends on them.
TargetProjects ==
  {UsualTargets, [UsualTargets EXCEPT ![4].buildDeps = {1, 3}, ![2].systemDeps = {1}],
   [UsualTargets EXCEPT ![2].runtimeDeps = {4}],
   <<Svc("service", TRUE, TRUE, {"dev"}, {4}, {2, 3}, {}),
     Svc("service", FALSE, FALSE, {}, {}, {3}, {}),
     Svc("service", FALSE, FALSE, {}, {}, {}, {4}), Svc("package", FALSE, TRUE, {}, {}, {}, {})>>}
TargetLines ==
  {q \in [script : {"build", "up", "command", "list"}, named : {{}, {3}, {2, 4}, {5}},
          value : {{}, {2}},
          after : {{}, {3}},
          filters : {{}, {"buildable"}, {"service", "testable"}, {"type=service", "!tags"},
                     {"package", "changed"}},
          tags : {{}}, changed : BOOLEAN, withDependencies : BOOLEAN, withDependants : BOOLEAN] :
     q.script = "list" \/ ~q.withDependencies}

(* Lines of up to three items: words, each option in every form it can be   *)
(* written in, and what is no plain form; tails with and without a flag.    *)
Item(k, form, v) == [key |-> k, form |-> form, value |-> v]
LineItems ==
  {Item("word", "word", <<v>>) : v \in {"api", "web"}}
  \cup {Item("filter", f, <<"changed">>) : f \in {"long", "short", "eq"}}
  \cup {Item("since", f, <<"main">>) : f \in {"long", "short", "eq"}}
    \cup {Item("since", "long", <<"v1">>)}
  \cup {Item("json", f, <<"true">>) : f \in {"bare", "letter"}}
  \cup {Item("format", f, <<"csv">>) : f \in {"long", "eq"}}
  \cup {Item("format", "eq", <<"a", "b">>), Item("json", "eq", <<"false">>),
        Item("filter", "eq", <<"type", "service">>)}
Argument(kind, name, v) == [kind |-> kind, name |-> name, value |-> v]
LineTails ==
  {<<Argument("word", "none", <<"api">>)>>,
   <<Argument("short", "f", <<>>), Argument("word", "none", <<"web">>)>>,
   <<Argument("long", "json", <<>>), Argument("word", "none", <<"api">>)>>}

-----------------------------------------------------------------------------
Commanded == INSTANCE CommandPlan WITH
  call <- v1,
  Own <- Own, Same <- Same, NoUses <- NoUses, NoDir <- NoDir, Depth <- 7,
  Projects <- CommandTrees, Requests <- CommandRequests,
  TargetLists <- {<<a>>, <<b>>, <<a, b>>, <<b, a>>}
Folded == INSTANCE PlanCompact WITH
  call <- v1,
  Plans <- FoldedPlans, Claims <- FoldClaims, MergeNodes <- SharedNodes
Chosen == INSTANCE Targets WITH
  call <- v1,
  Target <- 1 .. 4, Typo <- 5, Projects <- TargetProjects,
  CommandLines <- TargetLines, Edits <- {{}, {1}, {2, 3}}
Read == INSTANCE Arguments WITH
  line <- v1,
  Items <- LineItems, Tails <- LineTails, MaxItems <- 3

Init ==
  \/ part = "plan" /\ Commanded!Init
  \/ part = "fold" /\ Folded!Init
  \/ part = "targets" /\ Chosen!Init
  \/ part = "arguments" /\ Read!Init

Next ==
  /\ UNCHANGED part
  /\ \/ part = "plan" /\ Commanded!Next
     \/ part = "fold" /\ Folded!Next
     \/ part = "targets" /\ Chosen!Next
     \/ part = "arguments" /\ Read!Next

Spec == Init /\ [][Next]_vars

-----------------------------------------------------------------------------
\* Whatever a task needs is in an earlier stage than it, at whatever level of a
\* command it is declared; a plan has exactly the tasks that were asked for, none
\* later than it must be, and each as when it is named itself.  Folding nodes
\* into batches keeps that order, and loses and invents no node, need or opt-in.
PlansAreOrdered ==
  /\ part = "plan" =>
       /\ Commanded!DeclaredOrder /\ Commanded!ExactlyTheReached /\ Commanded!NoIdleStage
       /\ Commanded!SameTaskEitherWay /\ Commanded!SelectorsCut /\ Commanded!NamedOrRefused
  /\ part = "fold" =>
       /\ Folded!TypeOK /\ Folded!OneOwner /\ Folded!OrderKept /\ Folded!NoDanglingNeed
       /\ Folded!NothingCachedUnasked /\ Folded!MergeLosesNoNeed

\* A command that names targets gets all that they need, a change reaches all
\* that depend on it, and plugins see targets after their dependencies.
TargetsAreComplete ==
  part = "targets" =>
    /\ Chosen!TypeOK /\ Chosen!NamedIsComplete /\ Chosen!ChangeReachesConsumers
    /\ Chosen!DependenciesFirst /\ Chosen!DeploysResolved

\* The readers of a command line agree on what it says.
CommandLineIsRead ==
  part = "arguments" =>
    /\ Read!ReadAsWritten /\ Read!PluginReadsAsWritten
    /\ Read!ListReadsTheSame /\ Read!FlagsSurviveTheTargets
=============================================================================
