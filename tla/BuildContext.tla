---------------------------- MODULE BuildContext -----------------------------
(***************************************************************************)
(* The image of one service (plugins/docker/src/index.ts): the isolated    *)
(* context that resolveServiceIncludes and assembleBuildContext stage for  *)
(* it, and the layers of the Dockerfile that generateInlineDockerfile      *)
(* writes, each with what it reads.  A layer is reused in the next build   *)
(* when nothing that it or a layer before it in its stage reads changed.   *)
(*                                                                         *)
(* A file is [dir, name, installed]: installed is TRUE below node_modules  *)
(* or .git.  A repository: files; members, the directories of its          *)
(* workspaces, and deps, from each to the members its package.json names   *)
(* as `workspace:'; dirOf, from services to directories, and buildDeps;    *)
(* and, for the service that is built, include, dockerfile (a directory),  *)
(* pms, output (directories that the build writes and the image keeps).    *)
(***************************************************************************)
EXTENDS Integers, Sequences, SequencesExt, FiniteSets

CONSTANTS Repositories, COMMON_ROOT_FILES
VARIABLES repo, pc, context
Service == "svc"
Commit == [dir |-> "/", name |-> "build-info.json", installed |-> FALSE]
\* A commit is no file of the repository, who depends on workspaces says so in a
\* package.json, and package managers are a list.
ContextAssumption ==
  /\ "package.json" \in COMMON_ROOT_FILES
  /\ \A r \in Repositories :
       /\ IsFiniteSet(r.members) /\ IsFiniteSet(DOMAIN r.dirOf) /\ Service \in DOMAIN r.dirOf
       /\ Commit \notin r.files
       /\ \A d \in r.members : r.deps[d] # {} =>
            \E f \in r.files : f.dir = d /\ f.name = "package.json" /\ ~f.installed
       /\ \A i \in r.include : i.is \in {"file", "tree", "node_modules"}
       /\ r.pms \in Seq(ToSet(r.pms)) /\ \A pm \in ToSet(r.pms) : pm.requires_source \in BOOLEAN

At(dir, name) == {f \in repo.files : f.dir = dir /\ f.name = name /\ ~f.installed}
\* What a walk from S over next reaches; it goes on from nodes.
Closure(S, nodes, next) ==
  LET from[k \in 0..Cardinality(nodes)] ==
        IF k = 0 THEN S ELSE from[k - 1] \union UNION {next[n] : n \in from[k - 1] \intersect nodes}
  IN  from[Cardinality(nodes)]

-----------------------------------------------------------------------------
(* The context. *)
CommonFiles == UNION {At(".", n) : n \in COMMON_ROOT_FILES}
MemberManifests(names) == UNION {At(d, n) : d \in repo.members, n \in names}
extractWorkspaceDeps(dir) == IF At(dir, "package.json") = {} THEN {}
                             ELSE repo.deps[dir] \intersect repo.members
workspaceDeps ==
  Closure(extractWorkspaceDeps(repo.dirOf[Service]), repo.members,
          [d \in repo.members |-> extractWorkspaceDeps(d)])
\* A walk skips what is installed; a file that is listed by itself is staged whatever it is.
Directory(dir) == {f \in repo.files : f.dir = dir /\ ~f.installed}
Exists(i) ==
  \E f \in repo.files :
    f.dir = i.dir /\ CASE i.is = "file" -> f.name = i.name
                       [] i.is = "tree" -> TRUE
                       [] OTHER -> f.installed
missing == {i \in repo.include : ~Exists(i)}
Explicit(i) == CASE i.is = "file" -> {f \in repo.files : f.dir = i.dir /\ f.name = i.name}
                 [] i.is = "tree" -> Directory(i.dir)
                 [] i.is = "node_modules" -> {}   \* copyRecursive returns at that name
\* Broken: the walk of the service dependencies stops at the first.
resolveServiceIncludesNear ==
  LET services == ({Service} \union repo.buildDeps[Service]) \intersect DOMAIN repo.dirOf
  IN  (UNION {Directory(repo.dirOf[s]) : s \in services}) \union CommonFiles
    \union MemberManifests({"package.json"})
      \union (UNION {Directory(d) : d \in workspaceDeps \union {repo.dockerfile}})
        \union UNION {Explicit(i) : i \in repo.include}
resolveServiceIncludes ==
  LET services == Closure({Service}, DOMAIN repo.dirOf, repo.buildDeps) \intersect DOMAIN repo.dirOf
  IN  (UNION {Directory(repo.dirOf[s]) : s \in services}) \union CommonFiles
    \union MemberManifests({"package.json"})
      \union (UNION {Directory(d) : d \in workspaceDeps \union {repo.dockerfile}})
        \union UNION {Explicit(i) : i \in repo.include}
Isolated == repo.include # {}
Context == IF Isolated THEN resolveServiceIncludes ELSE repo.files

-----------------------------------------------------------------------------
(* The Dockerfile. *)
ManifestsOf(pm) ==
  At(pm.dir, pm.lockfile) \union At(pm.dir, pm.manifest) \union MemberManifests({pm.manifest})
\* The package managers of S, in the order in which they are declared.
Declared(S) ==
  LET upTo[i \in 0..Len(repo.pms)] ==
        IF i = 0 THEN <<>>
        ELSE IF repo.pms[i] \in S THEN Append(upTo[i - 1], repo.pms[i]) ELSE upTo[i - 1]
  IN  upTo[Len(repo.pms)]
Early == Declared({pm \in ToSet(repo.pms) : ~pm.requires_source})
Late == Declared({pm \in ToSet(repo.pms) : pm.requires_source})
collectInstallTimeFiles ==
  CommonFiles \union MemberManifests({"package.json"})
    \union UNION {ManifestsOf(pm) : pm \in ToSet(Early)}
packageManagerRuntimeOutputs == UNION {ManifestsOf(pm) : pm \in ToSet(repo.pms)}

Layer(op, reads) == [op |-> op, reads |-> reads, pm |-> ""]
Install(pms, op) == [i \in DOMAIN pms |-> [op |-> op, reads |-> {}, pm |-> pms[i]]]
\* packages, user, ENV and WORKDIR read nothing; prod: whether the manager's
\* install differs in production
BuildStage ==
  <<Layer("COPY", collectInstallTimeFiles)>> \o Install(Early, "install")
  \o <<Layer("COPY", context)>> \o Install(Late, "install") \o <<Layer("build", {})>>
  \o Install(Declared({pm \in ToSet(repo.pms) : pm.prod}), "prod")
\* What the build stage has in /app, and what the image takes from it.
Everything == UNION {BuildStage[i].reads : i \in DOMAIN BuildStage}
workspaceDepOutputs == UNION {Directory(d) : d \in workspaceDeps}
Outputs == {[dir |-> d, name |-> "output", installed |-> FALSE] : d \in repo.output}
generateRuntimeCopyLines ==
  IF repo.output = {} THEN Everything
  ELSE Outputs \union workspaceDepOutputs \union packageManagerRuntimeOutputs
RuntimeStage == <<Layer("COPY", generateRuntimeCopyLines), Layer("COPY", {Commit})>>

Init == repo \in Repositories /\ pc = "resolve" /\ context = {}
resolveServiceContext ==
  /\ pc = "resolve" /\ UNCHANGED repo
  /\ IF Isolated /\ missing # {} THEN pc' = "failed" /\ UNCHANGED context
     ELSE pc' = "built" /\ context' = Context
Next == resolveServiceContext
Spec == Init /\ [][Next]_<<repo, pc, context>>
Built == pc = "built"

-----------------------------------------------------------------------------
(* Properties. *)
TypeOK == /\ context \subseteq repo.files /\ workspaceDeps \subseteq repo.members
          /\ collectInstallTimeFiles \subseteq repo.files

\* The manifest of every workspace is staged, and the sources of the service, of
\* those it is built after, and of those that they are, however far away.
ContextIsWhole ==
  Built /\ Isolated =>
    /\ \A d \in repo.members : At(d, "package.json") \subseteq context
    /\ \E S \in SUBSET DOMAIN repo.dirOf :
         /\ Service \in S
         /\ \A s \in S : repo.buildDeps[s] \intersect DOMAIN repo.dirOf \subseteq S
         /\ \A s \in S : Directory(repo.dirOf[s]) \subseteq context

\* An include that is built with is in the context, unless it is an installed
\* tree; one that matches nothing stops the build.
IncludesAreStaged ==
  Built => \A i \in repo.include : i.is # "node_modules" =>
    /\ Explicit(i) \subseteq context
    /\ Explicit(i) # {} \/ (i.is = "tree" /\ \E f \in repo.files : f.dir = i.dir /\ f.installed)
\* Where every lockfile is among the common root files and every manifest is a
\* package.json, each file that a COPY of the build stage or the image names is
\* there when it runs.
CommonOnly ==
  \A i \in DOMAIN repo.pms :
    /\ repo.pms[i].dir = "." /\ repo.pms[i].lockfile \in COMMON_ROOT_FILES
    /\ repo.pms[i].manifest = "package.json"
Copyable ==
  /\ collectInstallTimeFiles \subseteq context
  /\ generateRuntimeCopyLines \subseteq Everything \union Outputs
CopiesAreStaged == Built /\ CommonOnly => Copyable
\* The layers that a change of the files in D leaves reusable.
Reused(stage, D) == {i \in DOMAIN stage : \A j \in 1..i : stage[j].reads \intersect D = {}}
\* A change of sources leaves the installs that do not read them reusable.
SourceEditsKeepInstalls ==
  Built => \A i \in DOMAIN BuildStage :
    BuildStage[i].op = "install" /\ BuildStage[i].pm \in ToSet(Early) =>
      i \in Reused(BuildStage, repo.files \ collectInstallTimeFiles)
\* A commit that changes no file of the service changes the last layer alone.
CommitsChangeOneLayer ==
  Built => /\ Reused(BuildStage, {Commit}) = DOMAIN BuildStage
           /\ Reused(RuntimeStage, {Commit}) = 1..(Len(RuntimeStage) - 1)

\* Each package manager installs what compiles before the build, and what runs
\* after it: the image takes its files from a tree that was built with everything.
BuildSeesEverything ==
  Built => \A i \in DOMAIN BuildStage : BuildStage[i].op = "build" =>
    /\ \A pm \in ToSet(repo.pms) : \E j \in 1..(i - 1) :
         BuildStage[j].op = "install" /\ BuildStage[j].pm = pm
    /\ \A j \in DOMAIN BuildStage : BuildStage[j].op = "prod" => j > i
\* The image has the sources of the workspaces that the service needs, and
\* theirs: its node_modules links to them.
NoDanglingLinks ==
  Built => \A d \in workspaceDeps, e \in repo.members :
             e = d \/ e \in repo.deps[d] => Directory(e) \subseteq generateRuntimeCopyLines
=============================================================================
