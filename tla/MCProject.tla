------------------------------ MODULE MCProject ------------------------------
(***************************************************************************)
(* What nopo makes of the files of a project and of what is set, one       *)
(* component beside the other: a behaviour is one of the walk of Expansion *)
(* (the part "walk", in that module's own variables), of the loading of a  *)
(* project and what `install' runs for it, of the reading of its plugins,  *)
(* of the staging of one image's context, of the merge of runtime blocks,  *)
(* or of the choice of a time limit or of a number of workers.             *)
(***************************************************************************)
EXTENDS Naturals, Integers, Sequences, TLC, Expansion

CONSTANTS
  \* the graphs that are walked, and the services the walks start with
  Graphs, Starts,
  \* the projects: their names, the root's, ./apps, the trees of files, the plugins
  LastId, RootName, DefaultDir, LoadedProjects, PluginProjects,
  \* the repositories, and the files that every context has
  Repositories, COMMON_ROOT_FILES,
  \* the services by their runtimes, and the runtime that is asked for
  BlockProjects, RuntimeName,
  \* what is set as a time limit, and what the machine says of itself
  TimeoutValues, ScriptDefaults, Hosts, CpuFiles, MemFiles, LimitVariables

VARIABLES
  part,   \* which component runs; the others are not there
  v1, v2, v3, v4, v5, v6, v7, v8, v9   \* its variables, in the order they are declared in
suiteVars == <<part, v1, v2, v3, v4, v5, v6, v7, v8, v9, g, filtered, depType,
              walk, queue, result>>

(* Expansion: three registered services and a name nobody registered, and   *)
(* every graph with at most the given edges.                                *)
Edges(S) ==
  {f \in [Name -> SUBSET Name] : \A s \in Name : IF s \in {"a", "b"} THEN f[s] \in S ELSE f[s] = {}}
MCGraphs == {[entries |-> e, build |-> x, runtime |-> y, system |-> z] :
             e \in {{"a", "b", "c"}, {"a", "b"}},
             x \in Edges({{}, {"b"}, {"b", "c"}, {"gone"}}), y \in Edges({{}, {"a"}, {"c"}}),
             z \in Edges({{}, {"c"}})}
MCStarts == {{}, {"a"}, {"b", "c"}, {"gone"}}

(* Trees of three directories, of which the third need not exist, with up   *)
(* to three files of two services and of one named like the root.           *)
Bun == [by |-> "project", lockfile |-> "root"]
Uv == [by |-> "project", lockfile |-> "python"]
OwnBun == [by |-> "service", lockfile |-> "root"]
File(x, r, cs, ms) == [build |-> x, runtime |-> r, commands |-> cs, managers |-> ms]
PlainFile == File({}, {}, {"test"}, <<Bun>>)
FilesOf1 ==
  {PlainFile, File({2}, {}, {}, <<OwnBun>>), File({3}, {}, {}, <<>>), File({}, {3}, {}, <<>>),
   File({}, {}, {"queue"}, <<Uv, Bun>>), File({}, {}, {"build"}, <<>>)}
FilesOf2 == {PlainFile, File({1}, {9}, {}, <<Bun, OwnBun, Uv>>)}
Pattern(not, glob, names) == [exclude |-> not, glob |-> glob, names |-> names]
DirLists ==
  {<<>>, <<Pattern(FALSE, FALSE, {1}), Pattern(FALSE, FALSE, {3})>>,
   <<Pattern(FALSE, TRUE, {1, 2, 3})>>,
   <<Pattern(FALSE, TRUE, {1, 2, 3}), Pattern(TRUE, FALSE, {2})>>,
   <<Pattern(TRUE, TRUE, {2, 3}), Pattern(FALSE, TRUE, {1, 2}), Pattern(FALSE, FALSE, {1})>>}
Trees == {(<<1, 1>> :> f) @@ (<<d, 2>> :> h) : f \in FilesOf1, h \in FilesOf2, d \in {1, 2}}
         \cup {(<<1, 1>> :> PlainFile) @@ (<<2, 1>> :> PlainFile),
               (<<1, 2>> :> PlainFile) @@ (<<2, 3>> :> PlainFile), <<1, 2>> :> PlainFile}
MCLoadedProjects ==
  [dirs : DirLists, existing : {{1, 2}, {1, 2, 3}}, files : Trees, root : {{}, {"lint"}, {"up"}},
   system : {{}, {2}, {1, 3}}, managers : {{Bun}, {Bun, Uv}}]

(* Up to three plugins of four, with and without a map of runtimes.         *)
Plugin(name, overrides) ==
  [name |-> name, hooks |-> {}, overrides |-> overrides, commands |-> <<"go">>,
   default |-> "none", fits |-> TRUE]
PluginSet ==
  {Plugin("compose", {"up", "down"}), Plugin("docker", {"build"}), Plugin("k8s", {"up", "build"}),
   [Plugin("eslint", {}) EXCEPT !.commands = <<"fix", "fix">>],
   [Plugin("env", {}) EXCEPT !.default = "go"], [Plugin("docs", {}) EXCEPT !.default = "all"]}
MCPluginProjects ==
  [refs : UNION {[1 .. k -> PluginSet] : k \in 0 .. 3},
   runtimes : {<<>>} \cup [{"default"} -> {"compose", "k8s"}]
              \cup [{"default", "prod"} -> {"compose", "k8s", "docker"}]]

(* Contexts: workspaces svc, lib, kit and app, the service svc, and api and *)
(* db that it may be built after; package managers with the lockfile among  *)
(* the common root files or not, installed before the source or after it.   *)
F(dir, name) == [dir |-> dir, name |-> name, installed |-> FALSE]
Members == {"svc", "lib", "kit", "app"}
Files ==
  {F(".", n) : n \in {"package.json", "bun.lock", "uv.lock", "pyproject.toml", "package-lock.json"}}
  \cup {F(d, n) : d \in Members, n \in {"package.json", "main"}}
  \cup {F("api", "main"), F("db", "main"), F("tools", "gen"),
        [dir |-> "svc", name |-> "bin", installed |-> TRUE]}
Item(is, dir, name) == [is |-> is, dir |-> dir, name |-> name]
PM(lockfile, manifest, requires_source, prod) ==
  [dir |-> ".", lockfile |-> lockfile, manifest |-> manifest,
   requires_source |-> requires_source, prod |-> prod]
BunPM == PM("bun.lock", "package.json", FALSE, TRUE)
UvPM == PM("uv.lock", "pyproject.toml", TRUE, FALSE)
NpmPM == PM("package-lock.json", "package.json", FALSE, TRUE)
Repository(s, l, k, after, include, pms, output, dockerfile) ==
  [files |-> Files, members |-> Members,
   deps |-> "svc" :> s @@ "lib" :> l @@ "kit" :> k @@ "app" :> {},
   dirOf |-> "svc" :> "svc" @@ "api" :> "api" @@ "db" :> "db",
   buildDeps |-> "svc" :> after[1] @@ "api" :> after[2] @@ "db" :> {},
   include |-> include, pms |-> pms, output |-> output, dockerfile |-> dockerfile]
MCRepositories ==
  {Repository(s, l, k, after, include, pms, output, dockerfile) :
     s \in {{}, {"lib"}, {"lib", "kit", "gone"}}, l \in {{}, {"kit"}}, k \in {{}, {"lib"}},
     after \in {<<{}, {}>>, <<{"api"}, {"db"}>>, <<{"db", "gone"}, {}>>},
     include \in {{}, {Item("tree", "tools", "")},
                  {Item("file", "tools", "gen"), Item("tree", "gone", "")},
                  {Item("file", "svc", "bin")}, {Item("node_modules", "svc", "")}},
     pms \in {<<>>, <<BunPM>>, <<UvPM>>, <<BunPM, UvPM>>, <<NpmPM>>}, output \in {{}, {"svc"}},
     dockerfile \in {"svc", "tools"}}

(* Runtime blocks: every way to combine the settings of a default block and *)
(* an overlay, of a flat service and of one with two processes, and a       *)
(* service that needs it.                                                   *)
Blank == [x \in {} |-> "none"]
MaySet(f, v) == {Blank, f :> v}
Both(A, B) == {x @@ y : x \in A, y \in B}
Env(v) == MaySet("env", "KEY" :> v)
Secret(v) == MaySet("secrets", "KEY" :> v)
FlatBlocks ==
  Both(Both(MaySet("port", 8080), Env("de")), Both(Secret("ds"), MaySet("command", "serve")))
Web == [command |-> "web", port |-> 80, env |-> "KEY" :> "we"]
TwoProcesses ==
  Both({"processes" :> ("web" :> Web @@ "worker" :> [command |-> "work"]),
        "processes" :> ("web" :> Web @@ "default" :> [command |-> "work", port |-> 81])},
       Both(Env("de"), Secret("ds")))
Overlays ==
  Both(Both(MaySet("port", 9090), Env("oe")),
       Both(Secret("os"), Both(MaySet("inherit_secrets", FALSE), MaySet("cpu", "2"))))
  \cup Both({"processes" :> ("web" :> ("cpu" :> "2"))},
            Both(Env("oe"), MaySet("inherit_secrets", FALSE)))
  \cup Both({"processes" :> ("web" :> ("env" :> ("OTHER" :> "oo")))}, Secret("os"))
Service(def, overlay, env) ==
  [runtimes |-> "default" :> def @@ "prod" :> overlay, env |-> env, built |-> FALSE]
Pair(def, o, env) ==
  "api" :> Service(def, o, env) @@ "site" :> Service("deps" :> {"api"}, Blank, Blank)
MCBlockProjects ==
  {Pair(def, o, env) : def \in FlatBlocks, o \in {x \in Overlays : "processes" \notin DOMAIN x},
                       env \in {Blank, "KEY" :> "top"}}
  \cup {Pair(def, o, Blank) : def \in TwoProcesses, o \in Overlays}

(* Amounts of time around zero, half a millisecond, ordinary limits and     *)
(* 2^31 ms; what a script asks for itself: nothing, no limit, half an hour. *)
Amount(w, f, u) == [kind |-> "amount", whole |-> w, frac |-> f, unit |-> u]
MCTimeoutValues ==
  {[kind |-> k] : k \in {"undefined", "boolean", "word", "junk"}}
  \cup {[kind |-> "number", neg |-> neg, whole |-> w, frac |-> f] :
          neg \in BOOLEAN, w \in {0, 1, 300}, f \in {0}}
  \cup {Amount(w, f, u) : w \in {0, 2}, f \in {0, 4, 5000}, u \in {"none", "ms", "s", "m", "h"}}
  \cup {Amount(w, 0, "h") : w \in {1, 500, 1000}}

MCScriptDefaults == {-1, 0, 1800000}

(* Machines of one and of four cores, and of less memory than a worker's    *)
(* budget up to that of sixteen workers; files that are absent, say "max",  *)
(* nothing of use, or a number.                                             *)
Reads(n, d) == [kind |-> "number", n |-> n, d |-> d]
Says(kind) == [kind |-> kind, n |-> 0, d |-> 1]
MCHosts == [cpus : {1, 4}, mem : {3, 16, 64}]
MCCpuFiles == {Says("absent"), Says("max"), Says("odd"), Reads(1, 2), Reads(5, 2), Reads(-1, 2)}
MCMemFiles == {Says("absent"), Says("max"), Reads(2, 1), Reads(9, 1), Reads(1000, 1)}
MCLimitVariables == {Says("absent"), Reads(0, 1), Reads(3, 1)}

-----------------------------------------------------------------------------
Loading == INSTANCE ProjectLoad WITH
  project <- v1, phase <- v2, dirs <- v3, children <- v4, entries <- v5,
  targets <- v6, pending <- v7, ran <- v8, failure <- v9,
  Projects <- LoadedProjects
Plugins == INSTANCE PluginRegistry
Staged == INSTANCE BuildContext WITH
  repo <- v1, pc <- v2, context <- v3
Blocks == INSTANCE RuntimeBlocks WITH
  call <- v1,
  Projects <- BlockProjects, Name <- RuntimeName
Limited == INSTANCE Timeout WITH
  call <- v1,
  Values <- TimeoutValues
Sized == INSTANCE ResourceLimits WITH
  probe <- v1, call <- v2,
  Variables <- LimitVariables

\* Walks start with services, of graphs.
ASSUME ProjectAssumptions ==
  /\ \A x \in Graphs : GraphOK(x)
  /\ \A S \in Starts : S \subseteq Name
  /\ Loading!LoadAssumption
  /\ \A p \in PluginProjects : Plugins!RegistryAssumption(p)
  /\ Staged!ContextAssumption
  /\ Blocks!BlockAssumption /\ Limited!TimeoutAssumption /\ Sized!LimitsAssumption

Off == "off"

WalkOff == /\ g = Off /\ filtered = Off /\ depType = Off
           /\ walk = Off /\ queue = {Off} /\ result = Off
Walk == /\ g \in Graphs /\ filtered \in Starts
        /\ depType \in DepTypes /\ walk \in Walks
        /\ Start

SuiteInit ==
  \/ /\ part = "walk" /\ Walk
     /\ v1 = Off /\ v2 = Off /\ v3 = Off /\ v4 = Off /\ v5 = Off /\ v6 = Off /\ v7 = Off
     /\ v8 = Off /\ v9 = Off
  \/ WalkOff /\
       \/ /\ part = "load" /\ Loading!Init
       \/ /\ part = "plugins" /\ v1 \in PluginProjects
          /\ v2 = Off /\ v3 = Off /\ v4 = Off /\ v5 = Off /\ v6 = Off /\ v7 = Off /\ v8 = Off
          /\ v9 = Off
       \/ /\ part = "context" /\ Staged!Init
          /\ v4 = Off /\ v5 = Off /\ v6 = Off /\ v7 = Off /\ v8 = Off /\ v9 = Off
       \/ /\ v3 = Off /\ v4 = Off /\ v5 = Off /\ v6 = Off /\ v7 = Off /\ v8 = Off /\ v9 = Off
          /\ \/ part = "blocks" /\ Blocks!Init /\ v2 = Off
             \/ part = "timeout" /\ Limited!Init /\ v2 = Off
             \/ part = "limits" /\ Sized!Init

SuiteNext ==
  /\ UNCHANGED part
  /\ \/ part = "walk" /\ Next /\ UNCHANGED <<v1, v2, v3, v4, v5, v6, v7, v8, v9>>
     \/ /\ UNCHANGED vars
        /\ \/ part = "load" /\ Loading!Next
           \/ part = "context" /\ Staged!Next /\ UNCHANGED <<v4, v5, v6, v7, v8, v9>>
           \/ /\ UNCHANGED <<v3, v4, v5, v6, v7, v8, v9>>
              /\ \/ part = "blocks" /\ Blocks!Next /\ UNCHANGED v2
                 \/ part = "timeout" /\ Limited!Next /\ UNCHANGED v2
                 \/ part = "limits" /\ Sized!Next

SuiteSpec == SuiteInit /\ [][SuiteNext]_suiteVars

-----------------------------------------------------------------------------
\* The services can be walked both ways; a loaded project is what its files say,
\* in whatever order they were read, and is refused for a reason in them; one
\* install runs for each lockfile; and its plugins can be told apart, by name, by
\* what they build and by runtime.
ProjectIsSound ==
  /\ part = "walk" => TypeOK /\ SystemOnlyBackwards
  /\ part = "load" =>
       /\ Loading!TypeOK /\ Loading!EntriesAreTheFiles /\ Loading!NobodyNeedsTheRoot
       /\ Loading!SystemReachesAll /\ Loading!RefusedForCause /\ Loading!OnePerLockfile
  /\ part = "plugins" =>
       Plugins!OneOfAName(v1) /\ Plugins!OneBuilder(v1) /\ Plugins!RuntimeIsDispatched(v1)

\* A staged context has every file that a step of the image reads, and the layers
\* of the image are in an order in which what changes often comes late.
ContextsAreWhole ==
  part = "context" =>
    /\ Staged!TypeOK /\ Staged!ContextIsWhole /\ Staged!IncludesAreStaged
    /\ Staged!CopiesAreStaged /\ Staged!SourceEditsKeepInstalls
    /\ Staged!CommitsChangeOneLayer /\ Staged!BuildSeesEverything /\ Staged!NoDanglingLinks

\* Of the layers of a runtime the last one wins, key by key and process by
\* process, a secret is never written in the open, and a runtime that inherits no
\* secrets has none; the first source that names a time limit decides, and zero
\* means none; and the automatic number of workers is one or more and fits what
\* the cgroup and the machine have.
LayersResolve ==
  /\ part = "blocks" =>
       /\ Blocks!TypeOK /\ Blocks!LastLayerWins /\ Blocks!SecretsOptOut
       /\ Blocks!FlatOverlayApplies /\ Blocks!ProcessOverlayMerges /\ Blocks!AddressMatchesDefault
  /\ part = "timeout" =>
       /\ Limited!FirstSourceDecides /\ Limited!ZeroDisables
       /\ Limited!ImplicitLimit /\ Limited!LimitIsGranted
  /\ part = "limits" =>
       Sized!TypeOK /\ Sized!FitsQuota /\ Sized!FitsMemory /\ Sized!HostIsUsed
=============================================================================
