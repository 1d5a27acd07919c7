----------------------------- MODULE K8sDeploy ------------------------------
(***************************************************************************)
(* K8sDeployer of plugins/terraform: up() and down() against a cluster,    *)
(* whose controllers replace pods on their own.                            *)
(*                                                                         *)
(* A release gives each service a version of its image, of the files its   *)
(* ConfigMaps hold and of its secrets.  A Deployment's template holds the  *)
(* image and the checksum of the files; a pod reads the files and the      *)
(* secrets when it starts.                                                 *)
(***************************************************************************)
EXTENDS Naturals, Sequences, FiniteSets

CONSTANTS
  Services,     \* a sequence: the order of the project
  Recreated,    \* the services that mount a claim
  Secretive,    \* the services with secrets
  Preserved,    \* whether the namespace outlives the workloads
  Strict,       \* runtimes.<name>.preserveNamespace is set: leftovers are an error
  MaxUps,       \* how often the project is edited and deployed
  MaxDowns,     \* how often it is taken down
  Refusals,     \* whether the cluster may refuse one object of several
  MaxEvictions  \* how often a node takes a pod down

\* Something is deployed, in an order.
DeployAssumption ==
  /\ Services \in Seq({Services[i] : i \in 1..Len(Services)}) /\ Services # <<>>
  /\ MaxUps \in Nat /\ MaxDowns \in Nat /\ MaxEvictions \in Nat

VARIABLES
  release,      \* what the project says: from services to records of versions
  ups, downs, evictions,
  pc, at,       \* the step of the deployer, and the service it is at
  failed,       \* whether kubectl has refused an object of the manifests
  rolled, ran,  \* the rollouts that were waited for and the hooks that ran, of this up
  namespace, secret, config, template, pods   \* the cluster
deployer == <<release, ups, downs, pc, at, failed, rolled, ran>>
cluster == <<namespace, secret, config, template, pods>>
vars == <<deployer, evictions, cluster>>

Svc == {Services[i] : i \in 1..Len(Services)}
NoVersion == 0
Versions == 1..MaxUps
NoTemplate == [image |-> NoVersion, checksum |-> NoVersion]

Init ==
  /\ release = [s \in Svc |-> [image |-> 1, config |-> 1, secret |-> 1]]
  /\ ups = 0 /\ downs = 0 /\ evictions = 0
  /\ pc = "idle" /\ at = 1 /\ failed = FALSE /\ rolled = {} /\ ran = <<>>
  /\ namespace = Preserved
  /\ secret = [s \in Svc |-> NoVersion] /\ config = [s \in Svc |-> NoVersion]
  /\ template = [s \in Svc |-> NoTemplate] /\ pods = [s \in Svc |-> {}]

-----------------------------------------------------------------------------
(* up() *)

Busy == pc \notin {"idle", "deployed", "failed"}
\* A new version of anything.
Edited(r) ==
  \A s \in Svc : \A part \in {"image", "config", "secret"} :
    r[s][part] = release[s][part] \/ r[s][part] = ups + 1
FirstStep == "secrets"
Up ==
  /\ ~Busy /\ ups < MaxUps
  /\ \E r \in [Svc -> [image : 1..(ups + 1), config : 1..(ups + 1), secret : {1}]] :
       Edited(r) /\ release' = r
  /\ ups' = ups + 1 /\ at' = 1 /\ failed' = FALSE /\ rolled' = {} /\ ran' = <<>>
  /\ pc' = FirstStep /\ namespace' = TRUE
  /\ UNCHANGED <<downs, evictions, secret, config, template, pods>>

Go(step) == pc' = step /\ at' = 1
Advance(next) == IF at < Len(Services) THEN at' = at + 1 /\ UNCHANGED pc ELSE Go(next)
Throw == Go("failed") /\ UNCHANGED <<release, ups, downs, failed, rolled, ran>>

\* applySecretManifestsViaStdin(), or kubectl fails.
ApplySecret ==
  /\ pc = "secrets"
  /\ \/ /\ secret' = [secret EXCEPT ![Services[at]] = IF Services[at] \in Secretive
                                                      THEN release[Services[at]].secret ELSE @]
        /\ Advance("configs") /\ UNCHANGED <<release, ups, downs, failed, rolled, ran>>
     \/ Throw /\ UNCHANGED secret
  /\ UNCHANGED <<evictions, namespace, config, template, pods>>

Template(s) == [image |-> release[s].image, checksum |-> release[s].config]

\* applyManifests(): kubectl goes through the objects, ConfigMaps first, and
\* fails at the end if it could not apply one of them.
ApplyConfig ==
  /\ pc = "configs"
  /\ \/ config' = [config EXCEPT ![Services[at]] = release[Services[at]].config] /\ UNCHANGED failed
     \/ Refusals /\ failed' = TRUE /\ UNCHANGED config
  /\ Advance("workloads")
  /\ UNCHANGED <<release, ups, downs, rolled, ran, evictions, namespace, secret, template, pods>>
AfterApply(bad) == IF bad THEN "failed" ELSE "wait"
ApplyWorkload ==
  /\ pc = "workloads"
  /\ \/ template' = [template EXCEPT ![Services[at]] = Template(Services[at])] /\ UNCHANGED failed
     \/ Refusals /\ failed' = TRUE /\ UNCHANGED template
  /\ Advance(AfterApply(failed'))
  /\ UNCHANGED <<release, ups, downs, rolled, ran, evictions, namespace, secret, config, pods>>

\* kubectl rollout status
RolledOut(s) == \E p \in pods[s] : pods[s] = {p} /\ p.template = template[s] /\ p.ready
\* Broken: it is waited for without a timeout.
WaitForever ==
  /\ pc = "wait" /\ RolledOut(Services[at]) /\ rolled' = rolled \cup {Services[at]}
  /\ Advance("pre_deploy") /\ UNCHANGED <<release, ups, downs, failed, ran, evictions, cluster>>
WaitFor ==
  /\ pc = "wait"
  /\ \/ /\ RolledOut(Services[at]) /\ rolled' = rolled \cup {Services[at]}
        /\ Advance("pre_deploy") /\ UNCHANGED <<release, ups, downs, failed, ran>>
     \/ ~RolledOut(Services[at]) /\ Throw
  /\ UNCHANGED <<evictions, cluster>>

AfterHook == Advance(IF pc = "pre_deploy" THEN "post_deploy" ELSE "deployed")
\* runDeployHooks(): a command in a pod of the service, which may fail.
RunHook ==
  /\ pc \in {"pre_deploy", "post_deploy"}
  /\ \/ /\ ran' = Append(ran, <<pc, Services[at]>>) /\ AfterHook
        /\ UNCHANGED <<release, ups, downs, failed, rolled>>
     \/ Throw
  /\ UNCHANGED <<evictions, cluster>>

\* The command's timeout, or a signal.
Killed == Busy /\ Throw /\ UNCHANGED <<evictions, cluster>>

-----------------------------------------------------------------------------
(* down() *)

\* Every kind of workload is deleted, unless kubectl fails for some of them.
Kinds == {"deployment", "secret", "configmap"}
Delete(kinds) ==
  /\ template' = IF "deployment" \in kinds THEN [s \in Svc |-> NoTemplate] ELSE template
  /\ pods' = IF "deployment" \in kinds THEN [s \in Svc |-> {}] ELSE pods
  /\ secret' = IF "secret" \in kinds THEN [s \in Svc |-> NoVersion] ELSE secret
  /\ config' = IF "configmap" \in kinds THEN [s \in Svc |-> NoVersion] ELSE config
DownEnd(all) == IF Strict /\ ~all THEN "failed" ELSE "idle"
\* The workloads one kind after the other, or the whole namespace.
Down ==
  /\ ~Busy /\ namespace /\ downs < MaxDowns /\ downs' = downs + 1
  /\ IF Preserved THEN \E gone \in SUBSET Kinds :
       Delete(gone) /\ Go(DownEnd(gone = Kinds)) /\ UNCHANGED namespace
     ELSE Go("idle") /\ ((Delete(Kinds) /\ namespace' = FALSE) \/ UNCHANGED cluster)
  /\ rolled' = {} /\ ran' = <<>>
  /\ UNCHANGED <<release, ups, failed, evictions>>

-----------------------------------------------------------------------------
(* The cluster *)

Pod(s) == [template |-> template[s], config |-> config[s], secret |-> secret[s], ready |-> FALSE]
Current(s) == {p \in pods[s] : p.template = template[s]}
\* A pod of a new template is started: once the old one has gone, for a claim.
StartPod(s) ==
  /\ template[s] # NoTemplate /\ config[s] # NoVersion /\ Current(s) = {}
  /\ pods' = [pods EXCEPT ![s] = (IF s \in Recreated THEN {} ELSE @) \cup {Pod(s)}]
  /\ UNCHANGED <<deployer, evictions, namespace, secret, config, template>>
\* A pod is ready, and those of older templates go.
PodReady(s) ==
  /\ \E p \in Current(s) : ~p.ready /\ pods' = [pods EXCEPT ![s] = {[p EXCEPT !.ready = TRUE]}]
  /\ UNCHANGED <<deployer, evictions, namespace, secret, config, template>>
\* A node goes down and the pod is started again elsewhere.
Evict(s) ==
  /\ evictions < MaxEvictions /\ pods[s] # {} /\ template[s] # NoTemplate
  /\ evictions' = evictions + 1
  /\ pods' = [pods EXCEPT ![s] = IF config[s] = NoVersion THEN {} ELSE {Pod(s)}]
  /\ UNCHANGED <<deployer, namespace, secret, config, template>>

Deployer == ApplySecret \/ ApplyConfig \/ ApplyWorkload \/ WaitFor \/ RunHook
Next == Up \/ Deployer \/ Killed \/ Down \/ \E s \in Svc : StartPod(s) \/ PodReady(s) \/ Evict(s)
Spec == Init /\ [][Next]_vars

-----------------------------------------------------------------------------
TypeOK ==
  /\ at \in 1..Len(Services) /\ ups \in 0..MaxUps
  /\ \A s \in Svc : \A p \in pods[s] : p.template # NoTemplate /\ p.config \in Versions

\* Until something is taken down, a pod of a service with secrets never starts
\* before its Secret is there.
PodsHaveSecrets == downs = 0 => \A s \in Svc \cap Secretive : \A p \in pods[s] : p.secret # NoVersion

\* When a deploy has succeeded each service runs the release's image with the
\* release's files, and nothing else.
DeployedIsReleased ==
  pc = "deployed" => \A s \in Svc : \A p \in pods[s] :
    p.template.image = release[s].image /\ p.config = release[s].config
\* The hooks of a deploy run when every rollout ended, the ones before a deploy
\* before those after it.
HooksAfterRollouts ==
  /\ ran # <<>> => rolled = Svc
  /\ \A i, j \in 1..Len(ran) : i < j /\ ran[i][1] = "post_deploy" => ran[j][1] = "post_deploy"
\* A teardown that reports success has left nothing.
CleanWhenIdle == pc = "idle" /\ Strict
  => \A s \in Svc : template[s] = NoTemplate /\ secret[s] = NoVersion /\ config[s] = NoVersion
=============================================================================
