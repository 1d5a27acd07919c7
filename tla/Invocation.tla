----------------------------- MODULE Invocation -----------------------------
(***************************************************************************)
(* One invocation of nopo up, down, status, build or a plugin's command,   *)
(* from Runner.run to the end of the process (lib.ts, dispatch.ts, the     *)
(* scripts, index.ts): the scripts it runs, the nodes of each one's plan,  *)
(* the hooks and overrides of plugins they call, the cleanups those register,  *)
(* and how it is disposed of and exits.                                    *)
(*                                                                         *)
(* A call of a plugin is one step: calls of the concurrent nodes of a      *)
(* build interleave.  `calls` is the history of them.  PlanRunner models   *)
(* how nodes are picked and CommandLifecycle the slot and the timeout.     *)
(***************************************************************************)
EXTENDS PluginRegistry, SequencesExt, FiniteSetsExt

CONSTANTS
    Projects,         \* the projects: [refs, runtimes]
    Targets,          \* what a build builds
    Asks,             \* the command lines: [command, runtime, build]
    maxCleanups       \* bound: the cleanups registered

\* Plugins are declared in a sequence; the commands are those of the scripts
\* below; and a target is not called as the other nodes are.
InvocationAssumption ==
    /\ \A p \in Projects : p.refs \in Seq(Range(p.refs))
    /\ \A a \in Asks : a.command \in {"build", "up", "down", "status", "plugin"}
    /\ Targets \cap {"pre", "main", "post"} = {}

VARIABLES
    project, ask,
    scripts,          \* the scripts still to run; the first one is running
    node,             \* the state of each node of its plan
    todo,             \* the calls each node has yet to make
    failure,          \* the first error: None, "error" or "output"
    calls,            \* every call made
    cleanups,         \* the disposal list of the runner of each kind
    closing,          \* the cleanups dispose has started and not seen end
    closed,           \* every cleanup that has ended, in order
    exit              \* the exit code, or "running" or "disposing"

vars == <<project, ask, scripts, node, todo, failure, calls, cleanups, closing, closed, exit>>

Plugins == project.refs
Script == Head(scripts)

\* isBuild: DOCKER_BUILD is set or the version is "local".
NeedsBuild(a) == a.command = "up" /\ a.build

ScriptsOf(a) ==
    CASE a.command = "plugin" -> <<"plugin">>
      [] NeedsBuild(a) -> <<"env", "build", "up">>
      [] OTHER -> <<"env", a.command>>

\* prepareRunnerForScript: a build that another script depends on gets a runner
\* of its own, so a graph, a disposal list and a decision client of its own.
RunnerOf(script, a) == IF script = "build" /\ a.command # "build" THEN "dependency" ELSE "main"

(* -------------------------------- plans --------------------------------- *)

Phased == {"build", "up", "down", "status"}
Main(script) == IF script = "build" THEN Targets ELSE {"main"}
Nodes(script) == Main(script) \cup (IF script \in Phased THEN {"pre", "post"} ELSE {})

\* Broken: the post node waits for one of the main nodes.
NeedsOne(script, n) ==
    CASE n = "pre" -> {}
      [] n = "post" -> IF Main(script) = {} THEN {"pre"} ELSE {CHOOSE m \in Main(script) : TRUE}
      [] OTHER -> Nodes(script) \cap {"pre"}

Needs(script, n) ==
    CASE n = "pre" -> {}
      [] n = "post" -> IF Main(script) = {} THEN {"pre"} ELSE Main(script)
      [] OTHER -> Nodes(script) \cap {"pre"}

\* fireHooks: the plugins with this hook, in the order of declaration.
HooksUpTo(plugins, script, n) ==
    LET fired[i \in 0 .. Len(plugins)] ==
          IF i = 0 THEN <<>>
          ELSE IF <<n, script>> \in plugins[i].hooks THEN Append(fired[i - 1], plugins[i].name)
               ELSE fired[i - 1]
    IN  fired
Hooks(script, n) == HooksUpTo(Plugins, script, n)[Len(Plugins)]

Refused == <<Throws>>

\* fireOverride in upMain, downMain and statusMain.
Override(script) ==
    LET plugin == resolveRuntimePlugin(project, ask.runtime)
        owner == getOverride(Plugins, script, plugin)
    IN  IF plugin = Throws \/ owner \in {None, Throws} THEN Refused ELSE <<owner>>

\* runPluginCommand: a command of the plugin that the command line names.
PluginCommand == <<Plugins[1].name>>

\* The context of every phase of an up resolves the runtime, and no other's does.
Unresolved(script) == script = "up" /\ resolveRuntimePlugin(project, ask.runtime) = Throws

\* The calls a node makes, or the error it starts with.
CallsOf(script, n) ==
    CASE script = "env" -> <<"env">>
      [] script = "plugin" -> PluginCommand
      [] Unresolved(script) -> Refused
      [] script \in Phased /\ ~Unresolved(script) /\ n \in {"pre", "post"} -> Hooks(script, n)
      [] script = "build" /\ n \notin {"pre", "post"} ->
            <<LET owner == getOverride(Plugins, "build", None)
              IN  IF owner = None THEN "host" ELSE owner>>
      [] OTHER -> Override(script)

Begin(script) ==
    /\ node' = [n \in Nodes(script) |-> "waiting"]
    /\ todo' = [n \in Nodes(script) |-> <<>>]

(* ------------------------------- running -------------------------------- *)

Running(s) == {n \in DOMAIN s : s[n] = "running"}

\* The first failure is kept and nothing more is started; what runs goes on.
Failed(n, kind) ==
    /\ node' = [node EXCEPT ![n] = "failed"]
    /\ failure' = IF failure = None THEN kind ELSE failure

\* A node whose needs are done starts.
StartNode(n) ==
    /\ exit = "running" /\ n \in DOMAIN node
    /\ node[n] = "waiting"
    /\ failure = None
    /\ \A m \in Needs(Script, n) : node[m] = "done"
    /\ IF CallsOf(Script, n) = Refused
       THEN Failed(n, "error") /\ UNCHANGED todo
       ELSE /\ todo' = [todo EXCEPT ![n] = CallsOf(Script, n)]
            /\ node' = [node EXCEPT ![n] = "running"]
            /\ UNCHANGED failure
    /\ UNCHANGED <<project, ask, scripts, calls, cleanups, closing, closed, exit>>

\* The next call of a running node: it passes, or throws an Error, or the
\* ProcessOutput of a child; it may register a cleanup.
Call(n, outcome, cleans) ==
    /\ exit = "running" /\ n \in DOMAIN node
    /\ node[n] = "running" /\ todo[n] # <<>>
    /\ Head(todo[n]) \in {"env", "host"} => ~cleans
    /\ Head(todo[n]) = "env" => outcome # "output"
    /\ cleans => Len(cleanups["main"]) + Len(cleanups["dependency"]) < maxCleanups
    /\ calls' = Append(calls, [script |-> Script, node |-> n, plugin |-> Head(todo[n]),
                               runner |-> RunnerOf(Script, ask), ok |-> outcome = "ok",
                               cleans |-> cleans])
    /\ cleanups' = IF cleans
                   THEN [cleanups EXCEPT ![RunnerOf(Script, ask)] = Append(@, Len(calls'))]
                   ELSE cleanups
    /\ IF outcome = "ok"
       THEN todo' = [todo EXCEPT ![n] = Tail(@)] /\ UNCHANGED <<node, failure>>
       ELSE Failed(n, outcome) /\ todo' = [todo EXCEPT ![n] = <<>>]
    /\ UNCHANGED <<project, ask, scripts, closing, closed, exit>>

EndNode(n) ==
    /\ exit = "running" /\ n \in DOMAIN node
    /\ node[n] = "running" /\ todo[n] = <<>>
    /\ node' = [node EXCEPT ![n] = "done"]
    /\ UNCHANGED <<project, ask, scripts, todo, failure, calls, cleanups, closing, closed, exit>>

(* --------------------------------- ends --------------------------------- *)

\* dispose: the cleanups of the runner of main, the last one first, all started
\* before any is awaited.
dispose ==
    /\ closing' = Reverse(cleanups["main"])
    /\ cleanups' = [cleanups EXCEPT !["main"] = <<>>]
    /\ exit' = "disposing"

\* Broken: a script that failed waits for the nodes that never start.
ScriptEndsDone ==
    /\ exit = "running"
    /\ \A n \in DOMAIN node : node[n] \in {"done", "failed"}
    /\ IF failure = None /\ Len(scripts) > 1
       THEN /\ scripts' = Tail(scripts)
            /\ Begin(scripts[2])
            /\ UNCHANGED <<cleanups, closing, exit>>
       ELSE /\ dispose
            /\ UNCHANGED <<scripts, node, todo>>
    /\ UNCHANGED <<project, ask, failure, calls, closed>>

\* The script is over: the next one begins, or the invocation is disposed of.
\* A failed child exits at once with its code, except of a plugin's command.
ScriptEnds ==
    /\ exit = "running"
    /\ Running(node) = {}
    /\ failure # None \/ \A n \in DOMAIN node : node[n] = "done"
    /\ IF failure = None /\ Len(scripts) > 1
       THEN /\ scripts' = Tail(scripts)
            /\ Begin(scripts[2])
            /\ UNCHANGED <<cleanups, closing, exit>>
       ELSE /\ IF failure = "output" /\ Script # "plugin"
               THEN exit' = "child's" /\ UNCHANGED <<cleanups, closing>>
               ELSE dispose
            /\ UNCHANGED <<scripts, node, todo>>
    /\ UNCHANGED <<project, ask, failure, calls, closed>>

\* A cleanup ends, or rejects, which is only reported.
Closes(i) ==
    /\ exit = "disposing"
    /\ closing' = RemoveAt(closing, i)
    /\ closed' = Append(closed, closing[i])
    /\ UNCHANGED <<project, ask, scripts, node, todo, failure, calls, cleanups, exit>>

Exit ==
    /\ exit = "disposing" /\ closing = <<>>
    /\ exit' = IF failure = None THEN "0" ELSE "1"
    /\ UNCHANGED <<project, ask, scripts, node, todo, failure, calls, cleanups, closing, closed>>

Init ==
    /\ project \in {p \in Projects : loadPlugins(p)}
    /\ ask \in {a \in Asks : a.command = "plugin" => Plugins # <<>>}
    /\ scripts = ScriptsOf(ask)
    /\ node = [n \in Nodes(Head(scripts)) |-> "waiting"]
    /\ todo = [n \in Nodes(Head(scripts)) |-> <<>>]
    /\ failure = None
    /\ calls = <<>>
    /\ cleanups = [r \in {"main", "dependency"} |-> <<>>]
    /\ closing = <<>> /\ closed = <<>>
    /\ exit = "running"

Outcomes == {"ok", "error", "output"}

Step == \E n \in DOMAIN node :
            StartNode(n) \/ EndNode(n)
            \/ \E o \in Outcomes, c \in BOOLEAN : Call(n, o, c)

Next == Step \/ ScriptEnds \/ (\E i \in DOMAIN closing : Closes(i)) \/ Exit

Spec == Init /\ [][Next]_vars

(* ------------------------------ properties ------------------------------ *)

\* The types of the state.
TypeOK ==
    /\ failure \in {None, "error", "output"}
    /\ DOMAIN node = Nodes(Script) /\ DOMAIN todo = Nodes(Script)
    /\ \A n \in DOMAIN node : node[n] \in {"waiting", "running", "done", "failed"}
    /\ exit \in {"running", "disposing", "0", "1", "child's"}

PhaseRank(n) == CASE n = "pre" -> 1 [] n = "post" -> 3 [] OTHER -> 2
PluginRank(name) == CHOOSE i \in DOMAIN Plugins : Plugins[i].name = name
Rank(c) == IF c.plugin \in Names(Plugins) THEN PluginRank(c.plugin) ELSE 0

\* The hooks of a phase are called in the order the plugins are declared in, and
\* the phases of a script in theirs, whatever ran in between.
InOrder ==
    \A i, j \in DOMAIN calls :
        i < j /\ calls[i].script = calls[j].script =>
            /\ PhaseRank(calls[i].node) <= PhaseRank(calls[j].node)
            /\ calls[i].node = calls[j].node /\ calls[i].node \in {"pre", "post"}
                    => Rank(calls[i]) < Rank(calls[j])

\* After a call that failed nothing is called but what ran beside it: no later
\* hook, no override, no post phase and no later script.
NothingAfterFailure ==
    \A i, j \in DOMAIN calls :
        i < j /\ ~calls[i].ok =>
            /\ calls[i].script = "build" /\ calls[j].script = "build"
            /\ {calls[i].node, calls[j].node} \subseteq Targets

Called(script, n) == {calls[i].plugin : i \in {k \in DOMAIN calls :
                                calls[k].script = script /\ calls[k].node = n /\ calls[k].ok}}

\* The exit code tells: zero means that every script the command needs has called
\* every hook and its override, and the build of an up came before its override.
ZeroMeansDone ==
    exit = "0" =>
        /\ \A i \in DOMAIN calls : calls[i].ok
        /\ ask.command \in Phased =>
            /\ \A s \in {ask.command} \cup (IF NeedsBuild(ask) THEN {"build"} ELSE {}) :
                /\ \A n \in {"pre", "post"} :
                        Called(s, n) = {p.name : p \in {q \in Range(Plugins) : <<n, s>> \in q.hooks}}
                /\ \A n \in Main(s) : Called(s, n) # {}
            /\ \A i, j \in DOMAIN calls :
                    calls[i].script = "build" /\ calls[j].script = "up" => i < j

\* What brings a project up or down is the plugin its runtime names, and once.
RuntimesOwnerActs ==
    \A i \in DOMAIN calls :
        calls[i].node = "main" /\ calls[i].script \in Phased =>
            /\ LET named == resolveRuntimePlugin(project, ask.runtime) IN
                /\ named # Throws
                /\ named # None => calls[i].plugin = named
            /\ \A j \in DOMAIN calls :
                calls[j].script = calls[i].script /\ calls[j].node = "main" => j = i

\* A cleanup runs at most once, and has run when an invocation that registered it
\* with its own runner has ended by itself.
CleansOnce ==
    /\ IsInjective(closing \o closed)
    /\ exit \in {"0", "1"} => \A i \in DOMAIN calls :
            calls[i].cleans /\ calls[i].runner = "main" => i \in Range(closed)

\* The invocation is over.
HasEnded == exit \notin {"running", "disposing"}
=============================================================================
