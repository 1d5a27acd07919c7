----------------------------- MODULE ImageBuild ------------------------------
(***************************************************************************)
(* `nopo build` for the services the docker plugin bakes: the batch node   *)
(* (plugins/docker/src/index.ts, DockerBuilder) and the post_build node    *)
(* after it (scripts/build.ts).  The plugin generates the bake definition, *)
(* staging a temporary context for each service that lists its includes,   *)
(* saves the image tags in .env, bakes and writes the build info; a step   *)
(* may throw.                                                              *)
(***************************************************************************)
EXTENDS Integers, Sequences, SequencesExt, FiniteSets

CONSTANTS Services, Kinds, Flags
  \* Kinds: [bakes, dev, isolated, missing: BOOLEAN]
  \* Flags: [dev, push, ci, remote, noCache, output: BOOLEAN, registries: sets]
VARIABLES pc, flags, kind, todo, def, contexts, env, built, shipped, cached, file, how
vars == <<pc, flags, kind, todo, def, contexts, env, built, shipped, cached, file, how>>

Root == "root"
Info == "root-info"
OwnRegistry == "own"    \* DOCKER_REGISTRY
Absent == [is |-> "absent", of |-> {}]

\* The configuration refuses a service that is called like the root.
BakeAssumption ==
  /\ IsFiniteSet(Services) /\ {Root, Info} \intersect Services = {}
  /\ Kinds \subseteq [bakes : BOOLEAN, dev : BOOLEAN, isolated : BOOLEAN, missing : BOOLEAN]
  /\ \A f \in Flags : {f.dev, f.push, f.ci, f.remote, f.noCache, f.output} \subseteq BOOLEAN

(* The bake definition: tags, caches and outputs.                           *)
Claims == {s \in Services : kind[s].bakes}     \* isDockerBakeTarget
Registries == IF flags.dev THEN {} ELSE flags.registries
Push == flags.push /\ ~flags.dev       \* the dev bakes are generated with push = false
serviceImageTag(s) == <<OwnRegistry, "image-", s>>
serviceImageTags(s) == {serviceImageTag(s)} \union {<<r, "", s>> : r \in Registries}
rootImageTags == {<<OwnRegistry, "image", "">>} \union {<<r, "image", "">> : r \in Registries}
buildCacheConfig(image, s) == IF flags.ci THEN {<<r, image, s>> : r \in Registries} ELSE {}
Output == IF Push THEN "push" ELSE IF ~flags.remote THEN "docker"
                                   ELSE IF flags.ci THEN "cacheonly" ELSE "registry"
Target(tags, cache, from) == [tags |-> tags, output |-> Output, cache |-> cache, from |-> from]
ServiceTarget(s) == Target(serviceImageTags(s), buildCacheConfig("image-", s), {Root, Info})
RootTarget == Target(rootImageTags, buildCacheConfig("image", ""), {})
RootTargets ==
  [t \in {Root, Info} |-> IF t = Root THEN RootTarget
                          ELSE [tags |-> {}, output |-> "none", cache |-> {}, from |-> {}]]

(* The batch.                                                               *)
Init ==
  /\ pc = "start" /\ flags \in Flags /\ kind \in [Services -> Kinds] /\ todo = <<>> /\ def = <<>>
  /\ contexts = {}
  /\ env = {} /\ built = {} /\ shipped = {} /\ cached = FALSE /\ file = Absent /\ how = "ok"
\* Broken: only the way out without an error passes through the cleanup.
ThrowPast == pc' = "failed" /\ how' = "failed"
\* The try/finally is there outside dev mode only.
Throw == pc' = (IF flags.dev THEN "failed" ELSE "cleanup") /\ how' = "failed"

needsBuild == {s \in Claims : ~kind[s].dev}    \* in dev mode: the services without a dev overlay
Start ==
  /\ pc = "start" /\ Claims # {} /\ pc' = (IF flags.dev THEN "base" ELSE "generate")
  /\ todo' = SetToSeq(IF flags.dev THEN needsBuild ELSE Claims) /\ def' = RootTargets
  /\ UNCHANGED <<flags, kind, contexts, env, built, shipped, cached, file, how>>
BakeBase ==    \* generateBaseOnlyBakeDefinition, and runBake without --no-cache
  /\ pc = "base" /\ cached' = TRUE
  /\ \/ built' = {Root} /\ pc' = (IF todo = <<>> THEN "post" ELSE "generate") /\ UNCHANGED how
     \/ Throw /\ UNCHANGED built
  /\ UNCHANGED <<flags, kind, todo, def, contexts, env, shipped, file>>
Generate ==    \* resolveServiceContext and buildServiceBakeTarget for the next service
  /\ pc = "generate" /\ todo # <<>> /\ UNCHANGED <<flags, kind, env, built, shipped, cached, file>>
  /\ LET s == Head(todo)
     IN IF kind[s].isolated /\ kind[s].missing THEN Throw /\ UNCHANGED <<todo, def, contexts>>
        ELSE /\ todo' = Tail(todo) /\ UNCHANGED <<pc, how>>
             /\ def' = [t \in DOMAIN def \union {s} |-> IF t = s THEN ServiceTarget(s) ELSE def[t]]
             /\ contexts' = contexts \union (IF kind[s].isolated THEN {s} ELSE {})
SaveEnv ==
  /\ pc = "generate" /\ todo = <<>> /\ pc' = "bake"
  /\ env' = {serviceImageTag(s) : s \in DOMAIN def \ {Root, Info}}
  /\ UNCHANGED <<flags, kind, todo, def, contexts, built, shipped, cached, file, how>>
NoCache == flags.noCache /\ ~flags.dev
Bake ==    \* runBake
  /\ pc = "bake" /\ cached' = (cached \/ ~NoCache)
  /\ \/ /\ built' = DOMAIN def
        /\ shipped' = {t \in DOMAIN def : def[t].output \in {"push", "registry"}}
        /\ pc' = (IF flags.dev THEN "post" ELSE IF flags.output THEN "info" ELSE "cleanup")
        /\ UNCHANGED how
     \/ Throw /\ UNCHANGED <<built, shipped>>
  /\ UNCHANGED <<flags, kind, todo, def, contexts, env, file>>
outputBuildInfo ==
  /\ pc = "info" /\ pc' = "cleanup" /\ file' = [is |-> "images", of |-> Claims]
  /\ UNCHANGED <<flags, kind, todo, def, contexts, env, built, shipped, cached, how>>
cleanupTempContexts ==
  /\ pc = "cleanup" /\ pc' = (IF how = "ok" THEN "post" ELSE "failed") /\ contexts' = {}
  /\ UNCHANGED <<flags, kind, todo, def, env, built, shipped, cached, file, how>>
buildPost ==   \* runs when the batch succeeded; its results are never set
  /\ pc = "post" /\ pc' = "done" /\ file' = IF flags.output THEN [is |-> "{}", of |-> {}] ELSE file
  /\ UNCHANGED <<flags, kind, todo, def, contexts, env, built, shipped, cached, how>>

Next ==
  \/ Start \/ BakeBase \/ Generate \/ SaveEnv \/ Bake
  \/ outputBuildInfo \/ cleanupTempContexts \/ buildPost
Spec == Init /\ [][Next]_vars

(* Properties.                                                              *)
TypeOK == /\ DOMAIN def \subseteq Services \union {Root, Info} /\ contexts \subseteq DOMAIN def
          /\ shipped \subseteq built /\ built \subseteq {Root} \union DOMAIN def
          /\ file.of \subseteq Services

\* Outside dev mode the staged contexts are removed however the build ends.
ContextsRemoved == pc \in {"done", "failed"} /\ ~flags.dev => contexts = {}
\* What a target starts from is a target of the same definition.
BasesDefined == pc = "bake" => \A t \in DOMAIN def : def[t].from \subseteq DOMAIN def

\* After a build that succeeded every tag in .env names an image of that build.
EnvNamesBuiltImages == pc = "done" => \A tag \in env : \E t \in built : tag \in def[t].tags
\* The plugin's build info lists the service images that were built.
InfoListsBuilt == pc = "post" /\ file # Absent => file.of = built \ {Root, Info}
\* A build reaches a registry when it is pushed, or when a remote builder has
\* nowhere else to put it, and never in a CI run that does not push.
ShippedWhenAsked ==
  /\ pc = "done" /\ Push => Claims \union {Root} \subseteq shipped
  /\ shipped # {} => Push \/ (flags.remote /\ ~flags.ci)

=============================================================================
