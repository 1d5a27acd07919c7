--------------------------- MODULE RuntimeBlocks ----------------------------
(***************************************************************************)
(* What a service's `runtime:' comes to in a named runtime: the blocks and *)
(* their merge (packages/nopo/src/config/runtime.ts), the older view of    *)
(* the default block alone (normalizeRuntime() of config/index.ts), the    *)
(* processes and the environment that plugins/terraform deploys from the   *)
(* two, and the addresses that other services are given (svc-env.ts).      *)
(*                                                                         *)
(* A block is a function of the fields it sets: scalars, env and secrets   *)
(* (from keys to values), deps, volumes, processes (from names to blocks). *)
(* A service is a record: runtimes, from "default" and the names of        *)
(* overlays to blocks, the env of the service itself, and whether it is    *)
(* built here.                                                             *)
(***************************************************************************)
EXTENDS Naturals

None == "none"
NoPort == 0
Nothing == [x \in {} |-> None]   \* a block, or an environment, that sets nothing
Field(b, f, otherwise) == IF f \in DOMAIN b THEN b[f] ELSE otherwise
\* What above sets, and where it does not, below: {...below, ...above}.
above ?? below ==
  [x \in DOMAIN above \cup DOMAIN below |-> IF x \in DOMAIN above THEN above[x] ELSE below[x]]

-----------------------------------------------------------------------------
(* runtime.ts *)

\* DefaultRuntimeBlockSchema
DefaultBlock(runtimes) == runtimes["default"] ?? [port |-> 3000, cpu |-> "1", replicas |-> 1]

\* A block inside a block sets no processes of its own.
mergeFlat(base, overlay) ==
  LET inherit == Field(overlay, "inherit_secrets", TRUE)
      env == IF "env" \in DOMAIN overlay
             THEN [env |-> overlay.env ?? Field(base, "env", Nothing)] ELSE Nothing
      secrets == IF "secrets" \in DOMAIN overlay \/ ~inherit
                 THEN [secrets |-> Field(overlay, "secrets", Nothing)
                                   ?? (IF inherit THEN Field(base, "secrets", Nothing)
                                       ELSE Nothing)]
                 ELSE Nothing
  IN  env ?? secrets ?? overlay ?? base
mergeRuntimeBlock(base, overlay) ==
  LET below == Field(base, "processes", Nothing)
      above == Field(overlay, "processes", Nothing)
      merged == [p \in DOMAIN above |-> IF p \in DOMAIN below THEN mergeFlat(below[p], above[p])
                                        ELSE above[p]]
  IN  (IF "processes" \in DOMAIN overlay THEN [processes |-> merged ?? below]
       ELSE Nothing) ?? mergeFlat(base, overlay)

\* The overlay, if the service has it.
Overlay(runtimes, name) == IF name = "default" THEN Nothing ELSE Field(runtimes, name, Nothing)

\* Broken: the default block wins.
resolveEnvsReverse(def, named) ==
  LET env == Field(def, "env", Nothing) ?? Field(named, "env", Nothing)
      secrets == Field(def, "secrets", Nothing) ?? Field(named, "secrets", Nothing)
  IN  [env |-> env, secrets |-> secrets]
\* Where each key is found after the four layers, the last one winning.
resolveEnvs(def, named) ==
  LET layers == <<Field(def, "env", Nothing),
                  IF Field(named, "inherit_secrets", TRUE) THEN Field(def, "secrets", Nothing)
                  ELSE Nothing,
                  Field(named, "env", Nothing), Field(named, "secrets", Nothing)>>
      effective == layers[4] ?? layers[3] ?? layers[2] ?? layers[1]
      Secret(k) == k \in DOMAIN layers[4] \/ (k \in DOMAIN layers[2] /\ k \notin DOMAIN layers[3])
      Part(S) == [k \in S |-> effective[k]]
  IN  [env |-> Part({k \in DOMAIN effective : ~Secret(k)}),
       secrets |-> Part({k \in DOMAIN effective : Secret(k)})]

resolveRuntime(runtimes, name) ==
  LET def == DefaultBlock(runtimes)
      named == Overlay(runtimes, name)
      merged == mergeRuntimeBlock(def, named)
      Scalar(f, otherwise) == Field(named, f, Field(def, f, otherwise))
  IN  [command |-> Field(merged, "command", None), port |-> Scalar("port", NoPort),
       cpu |-> Scalar("cpu", None),
       replicas |-> Scalar("replicas", None), volumes |-> Scalar("volumes", {}),
       deps |-> Field(merged, "deps", {}), processes |-> Field(merged, "processes", Nothing),
       envs |-> resolveEnvs(def, named)]

-----------------------------------------------------------------------------
(* The older view: the default block and its processes. *)

Process(command, port, extra, cpu, replicas, volumes, env) ==
  [command |-> command, port |-> port, extraPorts |-> extra, cpu |-> cpu, replicas |-> replicas,
   volumes |-> volumes, env |-> env]

normalizeProcesses(runtimes) ==
  LET block == DefaultBlock(runtimes)
      extra == Field(block, "extra_ports", {})
      Of(e) == Process(Field(e, "command", Field(block, "command", None)), Field(e, "port", NoPort),
                       Field(e, "extra_ports", extra),
                       Field(e, "cpu", block.cpu), Field(e, "replicas", 1),
                       Field(e, "volumes", Field(block, "volumes", {})), Field(e, "env", Nothing))
  IN  IF "processes" \in DOMAIN block THEN [p \in DOMAIN block.processes |-> Of(block.processes[p])]
      ELSE [default |-> Process(Field(block, "command", None), block.port, extra, block.cpu, 1,
                                Field(block, "volumes", {}), Nothing)]
runtimeDeps(runtimes) == Field(DefaultBlock(runtimes), "deps", {})

-----------------------------------------------------------------------------
(* plugins/terraform *)

synthesizeDefaultProcess(r, extra) ==
  Process(r.command, r.port, extra, r.cpu, r.replicas, r.volumes, r.envs.env)

resolveProcesses(runtimes, r) ==
  LET base == normalizeProcesses(runtimes)
      Of(p) == LET o == Field(r.processes, p, Nothing)
               IN  [base[p] EXCEPT !.cpu = Field(o, "cpu", @), !.replicas = Field(o, "replicas", @),
                                   !.env = Field(o, "env", Nothing) ?? r.envs.env ?? @]
  IN  IF DOMAIN base \subseteq {"default"}
      THEN [default |->
              synthesizeDefaultProcess(r, Field(DefaultBlock(runtimes), "extra_ports", {}))]
      ELSE [p \in DOMAIN base |-> Of(p)]

resolveEnv(service, r) == r.envs.env ?? service.env
\* What a container of the process sees: plain values come before the Secret.
ContainerEnv(service, r, p) == p.env ?? resolveEnv(service, r) ?? r.envs.secrets

-----------------------------------------------------------------------------
(* svc-env.ts *)

instanceId(s, p) == IF p = "default" THEN <<s>> ELSE <<s, p>>
projectServiceRegistry(project, name, dev) ==
  UNION {LET base == normalizeProcesses(project[s].runtimes)
             r == resolveRuntime(project[s].runtimes, name)
             ports == IF base = Nothing THEN [default |-> r.port]
                      ELSE [p \in DOMAIN base |-> base[p].port]
             \* Built images listen on port 80 in development.
             Listens(p) == IF dev /\ project[s].built /\ ports[p] # NoPort THEN 80 ELSE ports[p]
         IN  {[host |-> instanceId(s, p), process |-> p,
               port |-> Listens(p)] : p \in DOMAIN ports} : s \in DOMAIN project}
\* The addresses in the environment of a service.
svcDepEnvVars(deps, registry) == {a \in registry : \E d \in deps : a.host = <<d>>}

-----------------------------------------------------------------------------
CONSTANTS Projects, Name   \* the runtime that is asked for
VARIABLE call
NoCall == [done |-> FALSE]
Layer(b, part) == Field(b, part, Nothing)
ValuesOf(f) == {f[x] : x \in DOMAIN f}
\* What of a service is written in the open, and what its overlay has as secrets.
OtherValues(service) ==
  LET def == service.runtimes["default"]
      named == Overlay(service.runtimes, Name)
      blocks == {def, named} \cup ValuesOf(Layer(def, "processes"))
                \cup ValuesOf(Layer(named, "processes"))
  IN  ValuesOf(service.env) \cup ValuesOf(Layer(named, "secrets"))
      \cup UNION {ValuesOf(Layer(b, "env")) : b \in blocks}
\* A service has a default block, whose only process is not called "default"; and
\* a secret of that block can be told from what is no such secret.
BlockAssumption ==
  \A P \in Projects : \A s \in DOMAIN P :
    LET m == P[s].runtimes
    IN  /\ "default" \in DOMAIN m /\ DOMAIN Layer(m["default"], "processes") # {"default"}
        /\ ValuesOf(Layer(m["default"], "secrets")) \cap OtherValues(P[s]) = {}
Init == call = NoCall
Deployed(P) ==
  LET R == [s \in DOMAIN P |-> resolveRuntime(P[s].runtimes, Name)]
      deployed == [s \in DOMAIN P |-> resolveProcesses(P[s].runtimes, R[s])]
      registry == projectServiceRegistry(P, Name, FALSE)
  IN  [done |-> TRUE, P |-> P, R |-> R, deployed |-> deployed, registry |-> registry,
       sees |-> [s \in DOMAIN P |-> [p \in DOMAIN deployed[s] |->
                   ContainerEnv(P[s], R[s], deployed[s][p])]],
       addresses |-> [s \in DOMAIN P |-> svcDepEnvVars(runtimeDeps(P[s].runtimes), registry)]]
Deploy == \E P \in Projects : call' = Deployed(P)
Next == ~call.done /\ Deploy
Spec == Init /\ [][Next]_call

-----------------------------------------------------------------------------
EachService(Holds(_, _)) == call.done => \A s \in DOMAIN call.P : Holds(s, call.P[s].runtimes)
Lone(runtimes) == "processes" \notin DOMAIN runtimes["default"]   \* a flat default block

\* Every service is deployed as one process or more, and told of services only.
Typed(s, m) ==
  /\ DOMAIN call.deployed[s] # {}
  /\ \A a \in call.addresses[s] : a \in call.registry
TypeOK == EachService(Typed)

\* Of the values that a key is given, the last of default.env, default.secrets,
\* <name>.env and <name>.secrets reaches a flat service's container, and a
\* secret only ever from the Secret, unless the service's own env has the key.
LastWins(s, m) ==
  LET o == Overlay(m, Name)
      inherited == IF Field(o, "inherit_secrets", TRUE)
                   THEN Layer(m["default"], "secrets") ELSE Nothing
  IN  Lone(m) =>
        /\ \A k \in DOMAIN Layer(o, "secrets") \ DOMAIN call.P[s].env :
             /\ call.sees[s]["default"][k] = Layer(o, "secrets")[k]
             /\ k \notin DOMAIN call.deployed[s]["default"].env
        /\ \A k \in DOMAIN Layer(o, "env") \ DOMAIN Layer(o, "secrets") :
             call.sees[s]["default"][k] = Layer(o, "env")[k]
        /\ \A k \in DOMAIN inherited \ (DOMAIN Layer(o, "env") \cup DOMAIN Layer(o, "secrets")
                                        \cup DOMAIN call.P[s].env) :
             /\ call.sees[s]["default"][k] = inherited[k]
             /\ k \notin DOMAIN call.deployed[s]["default"].env
LastLayerWins == EachService(LastWins)

\* An overlay that does not inherit secrets gives its processes no secret of
\* the default block.
OptedOut(s, m) ==
  ~Field(Overlay(m, Name), "inherit_secrets", TRUE) =>
    \A p \in DOMAIN call.sees[s], k \in DOMAIN Layer(m["default"], "secrets") :
      k \in DOMAIN call.sees[s][p] => call.sees[s][p][k] # Layer(m["default"], "secrets")[k]
SecretsOptOut == EachService(OptedOut)

\* What an overlay sets for a flat service is what is deployed of it, and what
\* it does not set is the default block's.
OverlayApplies(s, m) ==
  Lone(m) => \A f \in {"port", "cpu", "replicas", "volumes", "command"} :
    /\ f \in DOMAIN Overlay(m, Name) => call.deployed[s]["default"][f] = Overlay(m, Name)[f]
    /\ f \notin DOMAIN Overlay(m, Name) /\ f \in DOMAIN m["default"] =>
         call.deployed[s]["default"][f] = m["default"][f]
FlatOverlayApplies == EachService(OverlayApplies)

\* An overlay of one process leaves the process what it does not set, and the
\* other processes everything.
OverlayMerges(s, m) ==
  ~Lone(m) =>
    /\ DOMAIN m["default"].processes \subseteq DOMAIN call.R[s].processes
    /\ \A p \in DOMAIN m["default"].processes :
         DOMAIN Layer(m["default"].processes[p], "env")
           \subseteq DOMAIN Layer(call.R[s].processes[p], "env")
ProcessOverlayMerges == EachService(OverlayMerges)

\* The port that others are told is one that the service listens on, as long as
\* no overlay changes it.
AddressMatches(s, m) ==
  \A a \in call.addresses[s] :
    LET listening == call.deployed[a.host[1]]
        o == Overlay(call.P[a.host[1]].runtimes, Name)
    IN  "port" \notin DOMAIN o =>
          a.process \in DOMAIN listening /\ listening[a.process].port = a.port
AddressMatchesDefault == EachService(AddressMatches)
=============================================================================
