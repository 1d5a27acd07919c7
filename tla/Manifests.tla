----------------------------- MODULE Manifests ------------------------------
(***************************************************************************)
(* The Kubernetes objects that a deploy writes for the services it takes:  *)
(* generateManifests() and the yaml functions of                           *)
(* plugins/terraform/src/index.ts.                                         *)
(*                                                                         *)
(* A name is the sequence of what the code joins with dashes, a part of    *)
(* which may be a service's id of two parts.  A volume is a record: name,  *)
(* mode ("size" for a claim, "source" for a directory) and path.           *)
(***************************************************************************)
EXTENDS Naturals, Sequences, FiniteSets, TLC

\* Projects: functions from ids to services; Name: the runtime.
\* dev: development images; local: the cluster of the developer's machine.
CONSTANTS Projects, Name, Dev, Local
VARIABLE out
Blocks == INSTANCE RuntimeBlocks WITH Projects <- {}, call <- out

NoPort == 0
deploymentName(id, p) == IF p = "default" THEN id ELSE Append(id, p)

normalized(svc) == Blocks!normalizeProcesses(svc.runtimes)
overlay(svc) == Blocks!resolveRuntime(svc.runtimes, Name)
processes(svc) == Blocks!resolveProcesses(svc.runtimes, overlay(svc))

isDb(svc) == svc.id = <<"db">> \/ svc.image = "postgres"
isNginx(svc) == svc.id = <<"nginx">> \/ svc.image = "nginx"
isDeployableWorkload(svc) == svc.built \/ svc.image # "none"

-----------------------------------------------------------------------------
(* Volumes *)

\* The volumes of all the processes, which may share one if it is the same.
declaredVolumesForService(svc) == UNION {normalized(svc)[p].volumes : p \in DOMAIN normalized(svc)}
Conflicting(svc) == \E v, w \in declaredVolumesForService(svc) : v.name = w.name /\ v # w

\* plugins.terraform.volumes: each once, and each a claim that is declared.
terraformVolumeStorageClasses(svc) == {svc.classes[i].name : i \in DOMAIN svc.classes}
Mismatched(svc) ==
  \/ Cardinality(terraformVolumeStorageClasses(svc)) < Len(svc.classes)
  \/ \E n \in terraformVolumeStorageClasses(svc) :
       ~\E v \in declaredVolumesForService(svc) : v.mode = "size" /\ v.name = n

Object(kind, svc, name) == [kind |-> kind, of |-> svc.id, name |-> name]
Backing(id, v) ==
  [kind |-> IF v.mode = "size" THEN "PersistentVolumeClaim" ELSE "ConfigMap",
   name |-> Append(id, v.name)]
yamlDeclared(svc) ==
  {Object(Backing(svc.id, v).kind, svc,
          Backing(svc.id, v).name) : v \in declaredVolumesForService(svc)}
\* Written by the plugin, or by the project under a name the plugin gives it.
yamlPvc(svc) ==
  IF isDb(svc) THEN {Object("PersistentVolumeClaim", svc, Append(svc.id, "data"))} ELSE {}

\* The config_mounts that exist, by their places in the list.
resolveConfigMounts(svc) == {i \in DOMAIN svc.mounts : svc.mounts[i]}
\* Broken: the name counts the directories that exist, and the mount the entries.
ConfigMapsByCount(svc) ==
  {Object("ConfigMap", svc, svc.id
          \o <<"cfg", ToString(Cardinality({j \in resolveConfigMounts(svc) : j <= i}))>>) :
     i \in resolveConfigMounts(svc)}
configMapName(svc, i) == svc.id \o <<"cfg", ToString(i)>>
ConfigMaps(svc) ==
  {Object("ConfigMap", svc, configMapName(svc, i)) : i \in resolveConfigMounts(svc)}
  \cup {Object("ConfigMap", svc, Append(svc.id, "templates")) : t \in {x \in {0} : isNginx(svc)
                                                                       /\ svc.templates}}

-----------------------------------------------------------------------------
(* What runs *)

ContainerPort(svc, p) ==
  LET port == processes(svc)[p].port IN IF port # NoPort /\ Dev /\ svc.built THEN 80 ELSE port

Mount(volume, kind, name, path) == [volume |-> volume, kind |-> kind, name |-> name, path |-> path]
Mounts(svc, p) ==
  {Mount(<<"data">>, o.kind, o.name, "pgdata") : o \in yamlPvc(svc)}
  \cup {Mount(Append(svc.id, "templates"), "ConfigMap", Append(svc.id, "templates"), "templates")
        : t \in {x \in {0} : isNginx(svc) /\ svc.templates}}
  \cup {Mount(svc.id \o <<"cfg", ToString(Cardinality({j \in resolveConfigMounts(svc) : j <= i}))>>,
              "ConfigMap", configMapName(svc, i), ToString(i)) : i \in resolveConfigMounts(svc)}
  \cup {Mount(<<v.name>>, Backing(svc.id, v).kind, Backing(svc.id, v).name,
              v.path) : v \in processes(svc)[p].volumes}

\* A claim is attached to one node, so the old pod goes before the new one comes.
Strategy(svc, p) ==
  IF isDb(svc) \/ \E v \in processes(svc)[p].volumes : v.mode = "size" THEN "Recreate"
  ELSE "RollingUpdate"
Replicas(svc, p) == IF processes(svc)[p].replicas < 1 THEN 1 ELSE processes(svc)[p].replicas

yamlDeployment(svc, p) ==
  Object("Deployment", svc, deploymentName(svc.id, p)) @@
  [app |-> deploymentName(svc.id, p), process |-> p, port |-> ContainerPort(svc, p),
   replicas |-> Replicas(svc, p),
   strategy |-> Strategy(svc, p), mounts |-> Mounts(svc, p)]

yamlPodDisruptionBudget(svc, p) ==
  IF Replicas(svc, p) < 2 THEN {}
  ELSE {Object("PodDisruptionBudget", svc,
               deploymentName(svc.id, p)) @@ [selector |-> deploymentName(svc.id, p)]}

NodePort(svc) == Local /\ (isNginx(svc) \/ isDb(svc))
yamlService(svc, p) ==
  Object("Service", svc, deploymentName(svc.id, p)) @@
  [selector |-> deploymentName(svc.id, p), port |-> ContainerPort(svc, p),
   extra |-> IF NodePort(svc) THEN {}
             ELSE processes(svc)[p].extraPorts \cup (IF svc.id = <<"backend">> THEN {5173} ELSE {})]

Objects(svc) ==
  LET ps == DOMAIN processes(svc)
  IN  yamlPvc(svc) \cup yamlDeclared(svc) \cup ConfigMaps(svc)
      \cup {yamlDeployment(svc, p) : p \in ps}
        \cup (UNION {yamlPodDisruptionBudget(svc, p) : p \in ps})
      \cup {yamlService(svc, p) : p \in {q \in ps : processes(svc)[q].port # NoPort}}

-----------------------------------------------------------------------------
NoOutput == [done |-> FALSE]
Init == out = NoOutput
Generate ==
  \E P \in Projects :
    LET taken == {s \in DOMAIN P : isDeployableWorkload(P[s])}
        registry == Blocks!projectServiceRegistry(P, Name, Dev)
    IN  IF \E s \in taken : Conflicting(P[s]) \/ Mismatched(P[s])
        THEN out' = [done |-> TRUE, failed |-> TRUE, P |-> P]
        ELSE out' = [done |-> TRUE, failed |-> FALSE, P |-> P, taken |-> taken,
                     registry |-> registry,
                     objects |-> [s \in taken |-> Objects(P[s])]]
Next == ~out.done /\ Generate
Spec == Init /\ [][Next]_out

-----------------------------------------------------------------------------
Written == out.done /\ ~out.failed
Everything == UNION {out.objects[s] : s \in out.taken}
Of(kind) == {o \in Everything : o.kind = kind}
Same(o, q) == o.kind = q.kind /\ o.name = q.name

\* A service that can run has a deployment for each of its processes.
TypeOK ==
  Written => \A s \in out.taken :
    {o.process : o \in {q \in out.objects[s] : q.kind = "Deployment"}} = DOMAIN normalized(out.P[s])
\* What a pod mounts is written too, by the service it belongs to.
MountsResolve ==
  Written => \A d \in Of("Deployment") : \A m \in d.mounts :
    \E o \in Everything : o.kind = m.kind /\ o.name = m.name /\ o.of = d.of
\* Nothing is written twice, so that the last would win.
OnePerName == Written => \A s, t \in out.taken : \A o \in out.objects[s], q \in out.objects[t] :
                           Same(o, q) => s = t /\ o = q
\* A rollout never waits for a claim that the pod it replaces holds.
ClaimsAreHandedOver ==
  Written => \A d \in Of("Deployment") :
    (\E m \in d.mounts : m.kind = "PersistentVolumeClaim") => d.strategy = "Recreate"
\* A Service leads to the pods of one deployment, which listen on its port,
\* and it is where other services are told to look, if no overlay moves it.
RoutesReachListeners ==
  Written =>
    /\ \A v \in Of("Service") : \A d \in Of("Deployment") : d.app = v.selector => d.port = v.port
    /\ \A s \in out.taken : "port" \notin DOMAIN Blocks!Overlay(out.P[s].runtimes, Name) =>
         \A a \in out.registry : a.host[1] = s /\ a.port # NoPort =>
           \E v \in Of("Service") :
             v.name = deploymentName(out.P[s].id, a.process) /\ v.port = a.port
\* A node can be drained: a budget leaves a pod to take.
DrainsAreAllowed ==
  Written => \A b \in Of("PodDisruptionBudget") : \A d \in Of("Deployment") : d.app = b.selector
    => d.replicas > 1
=============================================================================
