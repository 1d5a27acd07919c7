---------------------------- MODULE CommandPlan -----------------------------
(***************************************************************************)
(* From the commands of the services' nopo.yml files to the stages of a    *)
(* command's execution plan (packages/nopo/src/commands/index.ts).         *)
(*                                                                         *)
(* P[s] maps the colon path of every command of service s, a sequence of   *)
(* names, to its node: exec ("" for none, "shell", or the plugin command   *)
(* it delegates to, "gone" when that is not loaded), kids (the names under *)
(* `commands:', in order), deps, uses (`dependencies:', or NoUses), env,   *)
(* dir, and literal, true of a top-level key that is written with colons.  *)
(* A request names a path and the lists of a selector in its last segment. *)
(* A task is known by <<service, path>>.                                   *)
(***************************************************************************)
EXTENDS Integers, FiniteSets, SequencesExt

CONSTANTS Own,      \* a dep without `@': the service itself
          Same,     \* a dependency in the array form: the same command
          NoUses,   \* `dependencies:' absent
          NoDir,    \* `dir:' absent (`context:' is inherited alike)
          Depth     \* of the call stack: a deeper recursion has no end

Ask(path) == [path |-> path, include |-> {}, exclude |-> {}]
HasList(q) == q.include \cup q.exclude # {}
Ancestry(path) == Prefixes(path) \ {<< >>}

\* getCommandNode() walks the nested maps and does not see literal keys.
HasNode(P, s, path) == \A p \in Ancestry(path) : p \in DOMAIN P[s] /\ ~P[s][p].literal
NodeDeps(P, s, q) ==
  IF HasList(q) \/ ~HasNode(P, s, q.path) THEN << >> ELSE P[s][q.path].deps

Key(t) == <<t.svc, t.path>>
Keys(tasks) == {Key(tasks[i]) : i \in DOMAIN tasks}

-----------------------------------------------------------------------------
(* resolveCommand(): the tasks a name stands for. *)

Overriding(inh, n) ==
  [env |-> n.env @@ inh.env, dir |-> IF n.dir # NoDir THEN n.dir ELSE inh.dir]
Inherit(inh, n) == Overriding(inh, n)
Bare == [env |-> << >>, dir |-> NoDir]
Task(P, s, path, inh) ==
  [svc |-> s, path |-> path, exec |-> P[s][path].exec, env |-> inh.env, dir |-> inh.dir]

RECURSIVE flattenSubCommands(_, _, _, _, _)
flattenSubCommands(P, s, base, names, inh) ==
  LET Below(name) ==
        LET path == Append(base, name)
            n == P[s][path]
            own == Inherit(inh, n)
        IN  IF n.kids # << >> THEN flattenSubCommands(P, s, path, n.kids, own)
            ELSE IF n.exec # "" THEN <<Task(P, s, path, own)>> ELSE << >>
  IN  FlattenSeq([i \in DOMAIN names |-> Below(names[i])])

\* The settings a node has from its ancestors and itself.
Settings(P, s, path) ==
  LET at[i \in 0 .. Len(path)] ==
        IF i = 0 THEN Bare ELSE Overriding(at[i - 1], P[s][SubSeq(path, 1, i)])
  IN at[Len(path)]

selectChildNames(names, q) ==
  SelectSeq(names, LAMBDA n : (q.include = {} \/ n \in q.include) /\ n \notin q.exclude)

resolveSubCommandPath(P, s, q) ==
  IF ~HasNode(P, s, q.path) THEN << >>
  ELSE LET n == P[s][q.path]
           inh == Settings(P, s, q.path)
       IN  CASE n.kids # << >> ->
                  flattenSubCommands(P, s, q.path, selectChildNames(n.kids, q), inh)
             [] n.kids = << >> /\ q.include # {} -> << >>
             [] OTHER -> IF n.exec # "" THEN <<Task(P, s, q.path, inh)>> ELSE << >>

Defines(P, s, q) == <<Head(q.path)>> \in DOMAIN P[s] \/ (q.path \in DOMAIN P[s] /\ ~HasList(q))
Fails(P, s, q) ==
  \/ s \notin DOMAIN P
  \/ /\ <<Head(q.path)>> \notin DOMAIN P[s]
     /\ ~(q.path \in DOMAIN P[s] /\ ~HasList(q) /\ P[s][q.path].exec # "")
resolveCommand(P, s, q) ==
  IF q.path \in DOMAIN P[s] /\ ~HasList(q) /\ P[s][q.path].exec # ""
       /\ (Len(q.path) = 1 \/ P[s][q.path].literal)
  THEN <<Task(P, s, q.path, Overriding(Bare, P[s][q.path]))>>
  ELSE resolveSubCommandPath(P, s, q)

-----------------------------------------------------------------------------
(* resolveCommandDependencies(): the `dependencies:' of a command, those of *)
(* the commands they name first.                                            *)

getEffectiveDependencies(P, s, cmd) ==
  IF <<cmd>> \notin DOMAIN P[s] \/ P[s][<<cmd>>].uses = NoUses THEN << >>
  ELSE [i \in DOMAIN P[s][<<cmd>>].uses |->
          LET u == P[s][<<cmd>>].uses[i]
          IN  [svc |-> u.svc, cmd |-> IF u.cmd = Same THEN cmd ELSE u.cmd]]

Collected(u, acc) == IF acc.err # "" THEN acc ELSE [acc EXCEPT !.result = Append(@, u)]
RECURSIVE collectDependencies(_, _, _, _)
collectDependencies(P, u, acc, path) ==
  CASE acc.err # "" \/ u \in acc.visited -> acc
    [] u.svc \notin DOMAIN P \/ (u.svc \in DOMAIN P /\ <<u.cmd>> \notin DOMAIN P[u.svc]) ->
         [acc EXCEPT !.err = "unknown"]
    [] OTHER ->
         LET deps == SelectSeq(getEffectiveDependencies(P, u.svc, u.cmd),
                               LAMBDA d : d.svc \notin path)
             below[i \in 0 .. Len(deps)] ==
               IF i = 0 THEN [acc EXCEPT !.visited = @ \cup {u}]
               ELSE collectDependencies(P, deps[i], below[i - 1], path \cup {u.svc})
         IN  Collected(u, below[Len(deps)])

resolveCommandDependencies(P, s, q) ==
  LET deps == getEffectiveDependencies(P, s, Head(q.path))
      upTo[i \in 0 .. Len(deps)] ==
        IF i = 0 THEN [visited |-> {}, result |-> << >>, err |-> ""]
        ELSE collectDependencies(P, deps[i], upTo[i - 1], {s})
  IN  upTo[Len(deps)]

-----------------------------------------------------------------------------
(* addTasksForCommand() and addDepsToGraph(): the task graph, g.tasks in    *)
(* the order of the Map, g.waits the tasks each one waits for.              *)

parseDep(d, s) == [d EXCEPT !.svc = IF @ = Own THEN s ELSE @]
Fail(g, err) == [g EXCEPT !.err = err]

collectDepsOnlySubcommands(P, s, q) ==
  IF HasList(q) \/ ~HasNode(P, s, q.path) THEN {}
  ELSE {p \in DOMAIN P[s] : /\ Len(p) > Len(q.path) /\ IsPrefix(q.path, p)
                            /\ P[s][p].deps # << >> /\ P[s][p].exec = "" /\ P[s][p].kids = << >>}

RECURSIVE addTasksForCommand(_, _, _, _, _), addDepsToGraph(_, _, _, _, _)

\* The tasks of a dep, or when it has none those behind it, that whoever has the
\* dep must wait for; g has the tasks of the dep already.
WaitedFor(P, d, g, depth) ==
  IF g.err # "" THEN [g |-> g, keys |-> {}]
  ELSE IF resolveCommand(P, d.svc, d) # << >>
  THEN [g |-> g, keys |-> Keys(resolveCommand(P, d.svc, d))]
  ELSE addDepsToGraph(P, NodeDeps(P, d.svc, d), d.svc, g, depth)
Joined(keys, r) == [r EXCEPT !.keys = @ \cup keys]

addDepsToGraph(P, deps, s, g, depth) ==
  LET One(r, d) ==
        Joined(r.keys, WaitedFor(P, d, addTasksForCommand(P, d.svc, d, r.g, depth - 1), depth - 1))
      upTo[i \in 0 .. Len(deps)] ==
        IF i = 0 THEN [g |-> g, keys |-> {}] ELSE One(upTo[i - 1], parseDep(deps[i], s))
  IN  upTo[Len(deps)]

OwnDeps(P, s, path) == NodeDeps(P, s, Ask(path))
Used(P, s, q) ==
  LET uses == getEffectiveDependencies(P, s, Head(q.path))
      known == {i \in DOMAIN uses : ~Fails(P, uses[i].svc, Ask(<<uses[i].cmd>>))}
  IN  UNION {Keys(resolveCommand(P, uses[i].svc, Ask(<<uses[i].cmd>>))) : i \in known}

\* The tasks one after the other, each with the deps of its own; first: what all
\* of them wait for.
AddTasks(P, s, tasks, g, first, depth) ==
  LET Waits(t, r) == [r.g EXCEPT !.waits = (Key(t) :> first \cup r.keys) @@ @]
      Add(h, t) ==
        IF h.err # "" \/ Key(t) \in Keys(h.tasks) THEN h
        ELSE Waits(t, addDepsToGraph(P, OwnDeps(P, s, t.path), s,
                                     [h EXCEPT !.tasks = Append(@, t)], depth))
      upTo[i \in 0 .. Len(tasks)] == IF i = 0 THEN g ELSE Add(upTo[i - 1], tasks[i])
  IN  upTo[Len(tasks)]
AddOnly(P, s, paths, g, depth) ==
  LET upTo[i \in 0 .. Len(paths)] ==
        IF i = 0 THEN g ELSE addDepsToGraph(P, OwnDeps(P, s, paths[i]), s, upTo[i - 1], depth).g
  IN  upTo[Len(paths)]

\* An error ends it all: nothing is added to a graph that has one.
addTasksForCommand(P, s, q, g, depth) ==
  LET After(root) ==
        AddOnly(P, s, SetToSeq(collectDepsOnlySubcommands(P, s, q)),
                AddTasks(P, s, resolveCommand(P, s, q), root.g, Used(P, s, q) \cup root.keys,
                         depth), depth)
  IN  CASE g.err # "" -> g
        [] g.err = "" /\ depth = 0 -> Fail(g, "overflow")
        [] OTHER -> IF Fails(P, s, q) THEN Fail(g, "unknown")
                    ELSE After(addDepsToGraph(P, NodeDeps(P, s, q), s, g, depth))

-----------------------------------------------------------------------------
(* buildExecutionPlan(): the graph of all targets, cut into stages.         *)

RECURSIVE Stages(_, _)
Stages(waits, remaining) ==
  LET stage == {k \in remaining : waits[k] \cap remaining = {}}
  IN  IF remaining = {} THEN << >>
      ELSE IF stage = {} THEN <<{}>>     \* what is left waits for itself
      ELSE <<stage>> \o Stages(waits, remaining \ stage)

EmptyGraph == [tasks |-> << >>, waits |-> << >>, err |-> ""]
AddUsed(P, deps, g) ==
  LET upTo[i \in 0 .. Len(deps.result)] ==
        IF i = 0 THEN g
        ELSE addTasksForCommand(P, deps.result[i].svc, Ask(<<deps.result[i].cmd>>),
                                upTo[i - 1], Depth)
  IN  IF g.err = "" /\ deps.err # "" THEN Fail(g, deps.err) ELSE upTo[Len(deps.result)]
TargetGraph(P, q, targets) ==
  LET upTo[i \in 0 .. Len(targets)] ==
        IF i = 0 THEN EmptyGraph
        ELSE addTasksForCommand(P, targets[i], q,
               AddUsed(P, resolveCommandDependencies(P, targets[i], q), upTo[i - 1]), Depth)
  IN  upTo[Len(targets)]

\* Broken: a task waits only for tasks of its own service.
PlanWaitsOwn(g) == [k \in Keys(g.tasks) |-> {d \in g.waits[k] : d[1] = k[1]} \cap Keys(g.tasks)]
PlanWaits(g) == [k \in Keys(g.tasks) |-> g.waits[k] \cap Keys(g.tasks)]

Staged(g, stages) ==
  LET No(err) == [err |-> err, tasks |-> << >>, stages |-> << >>]
  IN  CASE g.err # "" -> No(g.err)
        [] g.err = "" /\ \E i \in DOMAIN g.tasks : g.tasks[i].exec = "gone" -> No("plugin")
        [] OTHER -> IF {} \in ToSet(stages) THEN No("circular")
                    ELSE [err |-> "", tasks |-> g.tasks, stages |-> stages]
Cut(g) == Staged(g, Stages(PlanWaits(g), Keys(g.tasks)))
buildExecutionPlan(P, q, targets) == Cut(TargetGraph(P, q, targets))

\* CommandScript.targetFilter, buildCommandScope() and assertCommandDispatches():
\* only the targets that define the command are planned; one the user named must.
Checked(plan, missing, skipMissing, narrowed) ==
  IF plan.err # "" \/ skipMissing THEN plan
  ELSE IF missing THEN [plan EXCEPT !.err = "missing"]
  ELSE IF plan.stages = << >> /\ ~narrowed THEN [plan EXCEPT !.err = "empty"] ELSE plan
Dispatch(P, q, named, targets, skipMissing, narrowed) ==
  Checked(buildExecutionPlan(P, q, SelectSeq(targets, LAMBDA s : Defines(P, s, q))),
          \E s \in named : ~Defines(P, s, q), skipMissing, narrowed)

-----------------------------------------------------------------------------
(* One command line after another. *)

CONSTANTS Projects, Requests, TargetLists

VARIABLE call
NoCall == [err |-> "none yet"]
Resolve == \E P \in Projects, q \in Requests, targets \in TargetLists :
             \E named \in {{}, ToSet(targets)}, skip, narrowed \in BOOLEAN :
               call' = [P |-> P, q |-> q, targets |-> targets, named |-> named, skip |-> skip,
                        narrowed |-> narrowed,
                        plan |-> Dispatch(P, q, named, targets, skip, narrowed)]
Init == call = NoCall
Next == call = NoCall /\ Resolve
Spec == Init /\ [][Next]_call

Answered == call # NoCall
Planned == Answered /\ call.plan.err = ""
Before(S, T) == \A j \in DOMAIN call.plan.stages :
  call.plan.stages[j] \cap T # {} => S \subseteq UNION {call.plan.stages[i] : i \in 1 .. j - 1}

\* What the configuration says, without the order in which the code reads it.
NodeAt(P, r) == P[r[1]][r[2]]
DepRefs(P, r) == {LET d == parseDep(NodeAt(P, r).deps[i], r[1]) IN <<d.svc, d.path>> :
                    i \in DOMAIN NodeAt(P, r).deps}
UseRefs(P, r) == LET u == getEffectiveDependencies(P, r[1], Head(r[2]))
                 IN  {<<u[i].svc, <<u[i].cmd>>>> : i \in DOMAIN u}
Parts(P, r) == {<<r[1], p>> : p \in {p \in DOMAIN P[r[1]] : IsPrefix(r[2], p)}}
Executables(P, r) == {x \in Parts(P, r) : NodeAt(P, x).exec # ""}
RECURSIVE Below(_, _)
Below(P, S) == LET T == S \cup (UNION {DepRefs(P, x) \cup UseRefs(P, x) : x \in S})
                          \cup UNION {Parts(P, x) : x \in S}
               IN  IF T = S THEN S ELSE Below(P, T)
\* All that has to have run when r has: of a command without executable, its deps.
RECURSIVE Behind(_, _)
Behind(P, r) ==
  Executables(P, r) \cup UNION {Behind(P, d) :
    d \in UNION {DepRefs(P, x) : x \in {x \in Parts(P, r) : NodeAt(P, x).exec = ""
                                                          /\ NodeAt(P, x).kids = << >>}}}
Asked == {<<call.targets[i], call.q.path>> : i \in {i \in DOMAIN call.targets :
            call.q.path \in DOMAIN call.P[call.targets[i]]}}
Reached == IF HasList(call.q) THEN {} ELSE Below(call.P, Asked)

\* Whatever a command of the plan declares under `deps:' or `dependencies:' is
\* in an earlier stage than every task of that command, at whatever level of
\* the command it is declared and however it was reached.
DeclaredOrder ==
  Planned => \A r \in Reached :
    \A d \in DepRefs(call.P, r) \cup UseRefs(call.P, r) :
      Before(Behind(call.P, d), Executables(call.P, r))

\* The plan has every task the configuration calls for, each in one stage,
\* and nothing that nobody asked for.
ExactlyTheReached ==
  Planned /\ ~HasList(call.q) =>
    /\ UNION ToSet(call.plan.stages) = {x \in Reached : NodeAt(call.P, x).exec # ""}
    /\ \A i, j \in DOMAIN call.plan.stages :
         i # j => call.plan.stages[i] \cap call.plan.stages[j] = {}

\* A task that could run a stage earlier does: something it waits for is in the
\* stage before its own.
NoIdleStage ==
  Planned /\ ~HasList(call.q) =>
    \A i \in 2 .. Len(call.plan.stages) : \A k \in call.plan.stages[i] :
      \E r \in {r \in Reached : k \in Executables(call.P, r)} :
        \E d \in DepRefs(call.P, r) \cup UseRefs(call.P, r) :
          Behind(call.P, d) \cap call.plan.stages[i - 1] # {}

\* A subcommand reached through its parent runs with the same environment and
\* in the same directory as when it is named itself.
SameTaskEitherWay ==
  Planned => \A i \in DOMAIN call.plan.tasks :
    LET t == call.plan.tasks[i]
    IN  ~NodeAt(call.P, Key(t)).literal =>
          t.env = Settings(call.P, t.svc, t.path).env /\ t.dir = Settings(call.P, t.svc, t.path).dir

\* A selector keeps what it includes and never runs what it excludes.
SelectorsCut ==
  Planned /\ HasList(call.q) => \A s \in ToSet(call.targets) :
    Len(call.q.path) = 1 => \A n \in call.q.exclude :
      \A k \in UNION ToSet(call.plan.stages) :
        k[1] = s => ~IsPrefix(Append(call.q.path, n), k[2])

\* A service named on the command line that has no such command is never
\* skipped in silence.
NamedOrRefused ==
  Planned /\ ~call.skip => \A s \in call.named : <<Head(call.q.path)>> \in DOMAIN call.P[s]

=============================================================================
