------------------------------ MODULE MCRelease ------------------------------
(***************************************************************************)
(* What nopo builds and ships, and where, one component beside the other:  *)
(* a behaviour is one of a build on the host, of an image build, of the    *)
(* `secret' commands, of the writing of manifests for a remote             *)
(* ("manifests") or local cluster, of deploys and teardowns, of runs in    *)
(* throwaway namespaces ("run"; "killed" where they may be), or of commits *)
(* and deploys of a fleet, with every failure ("fleet") or with none.      *)
(***************************************************************************)
EXTENDS Naturals, Integers, Sequences, FiniteSets, TLC

CONSTANTS
  \* builds on the host: the services, what their commands are called, the projects
  HostServices, HostNames, HostProjects,
  \* images: the services, what there may be to bake of each, and the flags
  BakeServices, BakeKinds, BakeFlags,
  \* nopo.yml: the files, what they may hold, the commands, and the identities made
  SecretFiles, Documents, SecretCommands, MaxIdentity,
  \* what is deployed, in order, what mounts a claim, what has secrets, and how
  \* often it is deployed and a node takes a pod down
  DeployOrder, Claimed, WithSecrets, MaxUps, MaxEvictions,
  \* what is taken down, and how often
  DownOrder, MaxDowns,
  \* the runs in throwaway namespaces, their names and the services they need;
  \* and what those need that may be killed
  RunIds, RunNames, RunDeps, KilledDeps, PostgresDeps,
  \* a fleet with failures and one without: its services, what they are and what
  \* more they are built from; the failures, upstream images and commits
  Fleet, FleetKinds, FleetIncludes, FleetFaults,
  Pair, PairKinds, PairIncludes,
  Pins, MaxCommit

\* The process of the `secret' commands.
CONSTANTS p

VARIABLES
  part,   \* which component runs; the others are not there
  v1, v2, v3, v4, v5, v6, v7, v8, v9, v10, v11, v12, v13, v14
          \* its variables, in the order they are declared in
vars == <<part, v1, v2, v3, v4, v5, v6, v7, v8, v9, v10, v11, v12, v13, v14>>

(* Builds on the host: one service whose command reaches a to c, c being of *)
(* any kind, d never declared; and every build dependency of three services.*)
Command(kind, deps) == [kind |-> kind, deps |-> deps]
CommandMaps ==
  {"a" :> Command(k, da) @@ "b" :> Command("leaf", db) @@ "c" :> Command(kc, <<>>) :
     k \in {"leaf", "group"}, da \in {<<"b", "c">>, <<"c", "b">>, <<"b">>},
     db \in {<<>>, <<"c">>, <<"b", "c">>, <<"a">>, <<"d">>},
     kc \in {"leaf", "group", "container", "nested", "cross-service", "plugin"}}
LeafMap == "a" :> Command("leaf", <<"b">>) @@ "b" :> Command("leaf", <<>>)
HostProject(targets, deps, command, commands) ==
  [targets |-> targets, packages |-> {"lib", "types"}, buildDeps |-> deps,
   command |-> command, commands |-> commands]
MCHostProjects ==
  {HostProject({"web"}, [s \in HostServices |-> {}], [s \in HostServices |-> roots], m) :
     roots \in {<<"a">>, <<"c", "a">>, <<"b">>}, m \in CommandMaps}
  \cup {HostProject(t, d, "types" :> types @@ "web" :> web @@ "lib" :> <<"a">>, LeafMap) :
     t \in {HostServices, {"lib", "web"}, {}}, d \in [HostServices -> SUBSET HostServices],
     types \in {<<"plain">>, <<"none">>}, web \in {<<"plain">>, <<"none">>}}

(* Images: services that the plugin bakes or not, with a dev overlay or     *)
(* not, with a staged context or not, an include of which may be missing.   *)
MCBakeKinds ==
  {k \in [bakes : BOOLEAN, dev : BOOLEAN, isolated : BOOLEAN, missing : BOOLEAN] :
     k.missing => k.isolated /\ k.bakes}
MCBakeFlags ==
  [dev : BOOLEAN, push : BOOLEAN, ci : BOOLEAN, remote : BOOLEAN, noCache : {FALSE},
   output : BOOLEAN, registries : {{}, {"other"}}]

(* Secrets: a flat block with a port, and a default with an overlay.        *)
Scalar(v) == [leaf |-> [plain |-> v, id |-> 0]]
Envelope(v) == [leaf |-> [plain |-> v, id |-> 1]]
FlatDoc == [port |-> Scalar("80"), env |-> [A |-> Scalar("a")], secrets |-> [K |-> Envelope("v0")]]
MapDoc == [default |-> [port |-> Scalar("80"), secrets |-> [K |-> Envelope("v0")]],
           prod |-> [secrets |-> [L |-> Envelope("w0")]]]
MCDocuments == {FlatDoc, MapDoc}
Set(f, r, k, v) == [verb |-> "set", f |-> f, r |-> r, k |-> k, v |-> v]
MCSecretCommands ==
  {Set("x", "default", "K", "v1"), Set("x", "prod", "L", "w1"),
   [verb |-> "unset", f |-> "y", r |-> "default", k |-> "K"],
   [verb |-> "get", f |-> "x", r |-> "prod", k |-> "L"], [verb |-> "rotate-key"]}

(* Manifests: a service with volumes, processes, config mounts and an       *)
(* overlay, beside one that does not run; a database.                       *)
Nothing == [x \in {} |-> 0]
One(f, v) == {Nothing, f :> v}
Both(A, B) == {a @@ b : a \in A, b \in B}
Volume(name, mode, path) == [name |-> name, mode |-> mode, path |-> path]
Data == Volume("data", "size", "/data")
Conf == Volume("conf", "source", "/conf")
Workload(id, image, def, o, classes, mounts) ==
  [id |-> id, image |-> image, built |-> image = "none", templates |-> TRUE, env |-> Nothing,
   runtimes |-> "default" :> def @@ "prod" :> o, classes |-> classes, mounts |-> mounts]
Idle == [Workload(<<"docs">>, "none", Nothing, Nothing, <<>>, <<>>) EXCEPT !.built = FALSE]
Flat == Both(Both(One("volumes", {Data, Conf}), One("port", 8080)), One("extra_ports", {4317}))
Web == [command |-> "web", port |-> 80, replicas |-> 2, volumes |-> {Data}]
Two ==
  {"processes" :> ("web" :> Web @@ "worker" :> w) :
     w \in {Nothing, "volumes" :> {Data}, "volumes" :> {Volume("data", "size", "/else")}}}
Overlays == Both(One("replicas", 3), One("cpu", "2"))
Classes == {<<>>, <<[name |-> "data"]>>, <<[name |-> "data"], [name |-> "data"]>>}
Deployables ==
  {"api" :> Workload(<<"api">>, image, def, o, c, m) @@ "docs" :> Idle :
     image \in {"none", "nginx"}, def \in Flat \cup Two, o \in Overlays, c \in Classes,
     m \in {<<>>, <<FALSE, TRUE>>, <<TRUE, TRUE>>}}
  \cup {"db" :> Workload(<<"db">>, "postgres", [port |-> 5432], o, <<>>, <<>>) : o \in Overlays}

(* Fleets: api is built from its own directory and db's (a schema, say), db *)
(* is an upstream image, root a package; or two services that are built.    *)
KindsOf(S) == [s \in S |-> CASE s \in {"api", "web"} -> "built" [] s = "root" -> "package"
                           [] OTHER -> "infra"]
MCFleetKinds == KindsOf({"api", "db", "root"})
MCFleetIncludes == [s \in {"api", "db", "root"} |-> IF s = "api" THEN {"db"} ELSE {}]
MCPairKinds == KindsOf({"api", "web", "db"})
MCPairIncludes == [s \in {"api", "web", "db"} |-> {}]

(* Two services, of which one has secrets; and two runs.                    *)
MCDeployOrder == <<"db", "api">>
MCDownOrder == <<"api">>
MCRunNames == [r \in {"a", "b"} |-> r]
MCRunDeps == <<"db", "redis">>
MCKilledDeps == <<"db">>

-----------------------------------------------------------------------------
Hosted == INSTANCE HostBuild WITH
  project <- v1, fails <- v2, state <- v3, log <- v4,
  Services <- HostServices, CommandNames <- HostNames, Projects <- HostProjects
Baked == INSTANCE ImageBuild WITH
  pc <- v1, flags <- v2, kind <- v3, todo <- v4, def <- v5, contexts <- v6, env <- v7,
  built <- v8, shipped <- v9, cached <- v10, file <- v11, how <- v12,
  Services <- BakeServices, Kinds <- BakeKinds, Flags <- BakeFlags
Secret == INSTANCE Secrets WITH
  files <- v1, identity <- v2, known <- v3, made <- v4, audit <- v5,
  shown <- v6, proc <- v7,
  Files <- SecretFiles, Docs <- Documents, Procs <- {p}, Requests <- SecretCommands,
  Faults <- {"other"}
Remote == INSTANCE Manifests WITH
  out <- v1,
  Projects <- Deployables, Name <- "prod", Dev <- FALSE, Local <- FALSE
Kind == INSTANCE Manifests WITH
  out <- v1,
  Projects <- Deployables, Name <- "prod", Dev <- TRUE, Local <- TRUE
Deployed == INSTANCE K8sDeploy WITH
  release <- v1, ups <- v2, downs <- v3, evictions <- v4, pc <- v5, at <- v6,
  failed <- v7, rolled <- v8, ran <- v9, namespace <- v10, secret <- v11,
  config <- v12, template <- v13, pods <- v14,
  Services <- DeployOrder, Recreated <- Claimed, Secretive <- WithSecrets,
  Preserved <- FALSE, Strict <- FALSE, MaxDowns <- 0, Refusals <- FALSE
Downed == INSTANCE K8sDeploy WITH
  release <- v1, ups <- v2, downs <- v3, evictions <- v4, pc <- v5, at <- v6,
  failed <- v7, rolled <- v8, ran <- v9, namespace <- v10, secret <- v11,
  config <- v12, template <- v13, pods <- v14,
  Services <- DownOrder, Recreated <- Claimed, Secretive <- WithSecrets,
  Preserved <- TRUE, Strict <- TRUE, Refusals <- TRUE
Throwaway == INSTANCE K8sRun WITH
  pc <- v1, dep <- v2, attempts <- v3, spaces <- v4, saw <- v5, stuck <- v6,
  Runs <- RunIds, NameOf <- RunNames, Deps <- RunDeps, Postgres <- PostgresDeps,
  Kills <- FALSE
Killed == INSTANCE K8sRun WITH
  pc <- v1, dep <- v2, attempts <- v3, spaces <- v4, saw <- v5, stuck <- v6,
  Runs <- RunIds, NameOf <- RunNames, Deps <- KilledDeps, Postgres <- PostgresDeps,
  Kills <- TRUE
Fleets == INSTANCE Rollout WITH
  history <- v1, spec <- v2, pods <- v3,
  Service <- Fleet, Kind0 <- FleetKinds, Include <- FleetIncludes, Pin <- Pins,
  Faults <- FleetFaults
Pairs == INSTANCE Rollout WITH
  history <- v1, spec <- v2, pods <- v3,
  Service <- Pair, Kind0 <- PairKinds, Include <- PairIncludes, Pin <- Pins,
  Faults <- {}

\* One of the pair is built: otherwise no pod says which commit is deployed.
ASSUME ReleaseAssumptions ==
  /\ Hosted!HostAssumption /\ Baked!BakeAssumption
  /\ Secret!SecretAssumption
  /\ Deployed!DeployAssumption /\ Downed!DeployAssumption
  /\ Throwaway!RunAssumption /\ Killed!RunAssumption
  /\ Fleets!RolloutAssumption /\ Pairs!RolloutAssumption
  /\ \E s \in Pair : PairKinds[s] = "built"

Off == "off"

Init ==
  \/ /\ part = "host" /\ Hosted!Init
     /\ v5 = Off /\ v6 = Off /\ v7 = Off /\ v8 = Off /\ v9 = Off
     /\ v10 = Off /\ v11 = Off /\ v12 = Off /\ v13 = Off /\ v14 = Off
  \/ /\ part = "image" /\ Baked!Init
     /\ v13 = Off /\ v14 = Off
  \/ /\ part = "secrets" /\ Secret!Init
     /\ v8 = Off /\ v9 = Off /\ v10 = Off /\ v11 = Off /\ v12 = Off
     /\ v13 = Off /\ v14 = Off
  \/ /\ part = "manifests" /\ Remote!Init
     /\ v2 = Off /\ v3 = Off /\ v4 = Off /\ v5 = Off /\ v6 = Off
     /\ v7 = Off /\ v8 = Off /\ v9 = Off /\ v10 = Off /\ v11 = Off
     /\ v12 = Off /\ v13 = Off /\ v14 = Off
  \/ /\ part = "local" /\ Kind!Init
     /\ v2 = Off /\ v3 = Off /\ v4 = Off /\ v5 = Off /\ v6 = Off
     /\ v7 = Off /\ v8 = Off /\ v9 = Off /\ v10 = Off /\ v11 = Off
     /\ v12 = Off /\ v13 = Off /\ v14 = Off
  \/ /\ part = "deploy" /\ Deployed!Init
  \/ /\ part = "down" /\ Downed!Init
  \/ /\ part = "run" /\ Throwaway!Init
     /\ v7 = Off /\ v8 = Off /\ v9 = Off /\ v10 = Off /\ v11 = Off
     /\ v12 = Off /\ v13 = Off /\ v14 = Off
  \/ /\ part = "killed" /\ Killed!Init
     /\ v7 = Off /\ v8 = Off /\ v9 = Off /\ v10 = Off /\ v11 = Off
     /\ v12 = Off /\ v13 = Off /\ v14 = Off
  \/ /\ part = "fleet" /\ Fleets!Init
     /\ v4 = Off /\ v5 = Off /\ v6 = Off /\ v7 = Off /\ v8 = Off
     /\ v9 = Off /\ v10 = Off /\ v11 = Off /\ v12 = Off /\ v13 = Off
     /\ v14 = Off
  \/ /\ part = "pair" /\ Pairs!Init
     /\ v4 = Off /\ v5 = Off /\ v6 = Off /\ v7 = Off /\ v8 = Off
     /\ v9 = Off /\ v10 = Off /\ v11 = Off /\ v12 = Off /\ v13 = Off
     /\ v14 = Off

Next ==
  /\ UNCHANGED part
  /\ \/ part = "host" /\ Hosted!Next
        /\ UNCHANGED <<v5, v6, v7, v8, v9, v10, v11, v12, v13, v14>>
     \/ part = "image" /\ Baked!Next
        /\ UNCHANGED <<v13, v14>>
     \/ part = "secrets" /\ Secret!Next
        /\ UNCHANGED <<v8, v9, v10, v11, v12, v13, v14>>
     \/ part = "manifests" /\ Remote!Next
        /\ UNCHANGED <<v2, v3, v4, v5, v6, v7, v8, v9, v10, v11, v12, v13, v14>>
     \/ part = "local" /\ Kind!Next
        /\ UNCHANGED <<v2, v3, v4, v5, v6, v7, v8, v9, v10, v11, v12, v13, v14>>
     \/ part = "deploy" /\ Deployed!Next
     \/ part = "down" /\ Downed!Next
     \/ part = "run" /\ Throwaway!Next
        /\ UNCHANGED <<v7, v8, v9, v10, v11, v12, v13, v14>>
     \/ part = "killed" /\ Killed!Next
        /\ UNCHANGED <<v7, v8, v9, v10, v11, v12, v13, v14>>
     \/ part = "fleet" /\ Fleets!Next
        /\ UNCHANGED <<v4, v5, v6, v7, v8, v9, v10, v11, v12, v13, v14>>
     \/ part = "pair" /\ Pairs!Next
        /\ UNCHANGED <<v4, v5, v6, v7, v8, v9, v10, v11, v12, v13, v14>>

Spec == Init /\ [][Next]_vars

downVars == Downed!vars
deployVars == Deployed!vars
runVars == Throwaway!vars
pairVars == Pairs!vars
\* kubectl and the commands in pods return (each wait has a timeout), and a deploy
\* that takes something is made, and succeeds, now and then.
FairSpec ==
  /\ Spec
  /\ WF_deployVars(part = "deploy" /\ Deployed!Deployer)
  /\ WF_downVars(part = "down" /\ Downed!Deployer)
  /\ \A r \in RunIds : WF_runVars(part = "run" /\ Throwaway!Run(r))
  /\ WF_pairVars(part = "pair" /\ Pairs!DeploySucceeds)

-----------------------------------------------------------------------------
\* Builds on the host come after the packages and services they need, and the
\* steps of a script after the commands they need; no build whose script cannot
\* be resolved succeeds, and an image build stops at the first step that fails.
BuildsAreOrdered ==
  part = "host" =>
    /\ Hosted!TypeOK /\ Hosted!BuiltInOrder /\ Hosted!PostMeansBuilt
    /\ Hosted!ScriptsAreOrdered /\ Hosted!NothingUnrunnableIsBuilt /\ Hosted!ImageBuildsStop

\* An image build that succeeds has built what .env and the build info name, from
\* targets that are defined, shipped where it was asked to and nowhere else; and
\* however it ends, outside dev mode, the staged contexts are gone.
ImagesAreWhole ==
  part = "image" =>
    /\ Baked!TypeOK /\ Baked!ContextsRemoved /\ Baked!BasesDefined
    /\ Baked!EnvNamesBuiltImages /\ Baked!InfoListsBuilt /\ Baked!ShippedWhenAsked

\* `secret set', `unset' and `rotate-key' change what they name and nothing else
\* that the configuration reads; every stored value can be opened by an identity
\* that the operator was shown or that the command still holds, a rotation that
\* finishes left none behind, and no value is shown before its audit line.
SecretsAreKept ==
  part = "secrets" =>
    /\ Secret!TypeOK /\ Secret!NoValueIsLost /\ Secret!RotationIsComplete
    /\ Secret!OnlyTargetChanges /\ Secret!NoUnauditedRead

\* The objects of a deploy fit together: what a pod mounts is written, nothing is
\* written twice, claims are handed over, Services lead to ports that somebody
\* listens on, and nodes can be drained.
ManifestsFit ==
  /\ part = "manifests" =>
       /\ Remote!TypeOK /\ Remote!MountsResolve /\ Remote!OnePerName
       /\ Remote!ClaimsAreHandedOver /\ Remote!RoutesReachListeners /\ Remote!DrainsAreAllowed
  /\ part = "local" => Kind!TypeOK /\ Kind!MountsResolve /\ Kind!RoutesReachListeners

\* A deploy that reports success runs the release and nothing else, its hooks ran
\* after every rollout, a teardown that reports success leaves nothing, and a run
\* in a throwaway namespace has it for itself and takes it away.
ClusterIsAsReported ==
  /\ part = "deploy" =>
       /\ Deployed!TypeOK /\ Deployed!PodsHaveSecrets
       /\ Deployed!DeployedIsReleased /\ Deployed!HooksAfterRollouts
  /\ part = "down" => Downed!TypeOK /\ Downed!CleanWhenIdle /\ Downed!HooksAfterRollouts
  /\ part = "run" =>
       /\ Throwaway!TypeOK /\ Throwaway!NothingIsLeft /\ Throwaway!Isolated
       /\ Throwaway!CommandFindsDepsInTime
  /\ part = "killed" => Killed!TypeOK /\ Killed!Isolated /\ Killed!CommandFindsDepsInTime

\* Whichever pods a deploy looks at and whatever failed before, it takes every
\* built service whose code is not what runs; without such failures it also takes
\* every service whose upstream image or files are not the pinned ones.
NothingOutdatedIsMissed ==
  /\ part = "fleet" => Fleets!TypeOK /\ Fleets!BuiltNeverMissed
  /\ part = "pair" =>
       /\ Pairs!TypeOK /\ Pairs!BuiltNeverMissed /\ Pairs!PinNeverMissed
       /\ Pairs!ConfigNeverMissed

\* Deploys and runs end, whatever the cluster does, and once commits stop the
\* fleet comes to be what the last one says and stays so.
ClusterSettles ==
  <>[](/\ part = "deploy" => ~Deployed!Busy
       /\ part = "down" => ~Downed!Busy
       /\ part = "run" => Throwaway!NobodyRuns
       /\ part = "pair" => Pairs!CaughtUp)
=============================================================================
