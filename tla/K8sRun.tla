------------------------------- MODULE K8sRun -------------------------------
(***************************************************************************)
(* K8sDeployer.run() of plugins/terraform: a command in a throwaway        *)
(* namespace, with the services that it needs, in several processes of     *)
(* nopo that share a cluster.                                              *)
(***************************************************************************)
EXTENDS Naturals, Sequences, FiniteSets

CONSTANTS
  Runs,      \* the processes
  NameOf,    \* the namespace of each: nopo-run- and eight digits of the clock
  Deps,      \* a sequence: what the service needs
  Postgres,  \* the dependencies on port 5432
  Kills      \* whether the process may be killed

\* No two runs take their names in the same millisecond, or 10^8 of them apart.
RunAssumption ==
  /\ \A q, r \in Runs : NameOf[q] = NameOf[r] => q = r
  /\ Deps \in Seq({Deps[i] : i \in 1..Len(Deps)})

VARIABLES
  pc, dep, attempts,   \* of each run: its step, the dependency it deploys, pg_isready's failures
  spaces,    \* the namespaces, with what accepts connections and the Secrets in them
  saw,       \* of each run: whether its command found every dependency ready
  stuck      \* the namespaces and Secrets that kubectl could not delete
vars == <<pc, dep, attempts, spaces, saw, stuck>>

Dead == {"ended", "threw", "killed"}
Empty == [ready |-> {}, secrets |-> {}]
Space(r) == spaces[NameOf[r]]
Exists(r) == NameOf[r] \in DOMAIN spaces
Put(r, space) ==
  spaces' = [n \in DOMAIN spaces \cup {NameOf[r]} |-> IF n = NameOf[r] THEN space ELSE spaces[n]]
MaxAttempts == 10

Init ==
  /\ pc = [r \in Runs |-> "start"] /\ dep = [r \in Runs |-> 1]
  /\ attempts = [r \in Runs |-> [i \in 1..Len(Deps) |-> 0]]
  /\ spaces = [n \in {} |-> Empty] /\ saw = [r \in Runs |-> TRUE] /\ stuck = {}

Step(r, from, to) == pc[r] = from /\ pc' = [pc EXCEPT ![r] = to]
Throw(r, from) == Step(r, from, "cleanup") /\ UNCHANGED <<dep, attempts, spaces, saw, stuck>>

CreateNamespace(r) ==
  \/ /\ Step(r, "start", IF Deps = <<>> THEN "secret" ELSE "deps")
     /\ Put(r, IF Exists(r) THEN Space(r) ELSE Empty) /\ UNCHANGED <<dep, attempts, saw, stuck>>
  \/ Throw(r, "start")

\* deployDeps(): applied, and waited for until the rollout ends.  Postgres
\* may then still not accept connections.
DeployDep(r) ==
  \/ /\ Step(r, "deps", "rolled") /\ Exists(r)
     /\ \E up \in IF Deps[dep[r]] \in Postgres THEN BOOLEAN ELSE {TRUE} :
          Put(r, [Space(r) EXCEPT !.ready = IF up THEN @ \cup {Deps[dep[r]]} ELSE @])
     /\ UNCHANGED <<dep, attempts, saw, stuck>>
  \/ Throw(r, "deps")
NextDep(r) ==
  /\ Step(r, "rolled", IF dep[r] < Len(Deps) THEN "deps" ELSE "secret")
  /\ dep' = [dep EXCEPT ![r] = IF @ < Len(Deps) THEN @ + 1 ELSE @]
  /\ UNCHANGED <<attempts, spaces, saw, stuck>>
Accepting(r) == Exists(r) /\ Deps[dep[r]] \in Space(r).ready
\* pg_isready, ten times at the most.
PgReady(r) ==
  LET asked == Deps[dep[r]] \in Postgres /\ ~Accepting(r)
      tries == attempts[r][dep[r]]
  IN  \/ (asked => tries = MaxAttempts) /\ NextDep(r)
      \/ /\ pc[r] = "rolled" /\ asked /\ tries < MaxAttempts
         /\ attempts' = [attempts EXCEPT ![r] = [@ EXCEPT ![dep[r]] = tries + 1]]
         /\ UNCHANGED <<pc, dep, spaces, saw, stuck>>
\* Postgres comes up.
Accepts(r) ==
  /\ pc[r] = "rolled" /\ Exists(r) /\ Put(r, [Space(r) EXCEPT !.ready = @ \cup {Deps[dep[r]]}])
  /\ UNCHANGED <<pc, dep, attempts, saw, stuck>>

\* runInPod(): a role, a Secret of this run's own, the pod, and the Secret's end.
CreateSecret(r) ==
  \/ /\ Step(r, "secret", "pod") /\ Exists(r)
     /\ Put(r, [Space(r) EXCEPT !.secrets = @ \cup {r}]) /\ UNCHANGED <<dep, attempts, saw, stuck>>
  \/ Throw(r, "secret")
RunPod(r) ==
  /\ Step(r, "pod", "unsecret")
  /\ saw' = [saw EXCEPT ![r] = Exists(r) /\ {Deps[i] : i \in 1..Len(Deps)} \subseteq Space(r).ready]
  /\ UNCHANGED <<dep, attempts, spaces, stuck>>
DeleteSecret(r) ==
  /\ Step(r, "unsecret", "cleanup")
  /\ \/ /\ spaces' = [n \in DOMAIN spaces |->
                      [spaces[n] EXCEPT !.secrets = IF n = NameOf[r] THEN @ \ {r} ELSE @]]
        /\ UNCHANGED stuck
     \/ stuck' = stuck \cup {r} /\ UNCHANGED spaces
  /\ UNCHANGED <<dep, attempts, saw>>

\* Broken: the namespace is not given up after a failure.
CleanupNever(r) == Step(r, "cleanup", "ended") /\ UNCHANGED <<dep, attempts, saw, stuck, spaces>>
\* The finally of run(); a failure is a warning.
Cleanup(r) ==
  /\ Step(r, "cleanup", "ended")
  /\ \/ spaces' = [n \in DOMAIN spaces \ {NameOf[r]} |-> spaces[n]] /\ UNCHANGED stuck
     \/ stuck' = stuck \cup {NameOf[r]} /\ UNCHANGED spaces
  /\ UNCHANGED <<dep, attempts, saw>>
\* The command's timeout, which ends the process at once, or a signal.
Kill(r) ==
  /\ Kills /\ pc[r] \notin Dead /\ pc' = [pc EXCEPT ![r] = "killed"]
  /\ UNCHANGED <<dep, attempts, spaces, saw, stuck>>

Run(r) ==
  \/ CreateNamespace(r) \/ DeployDep(r) \/ PgReady(r)
  \/ CreateSecret(r) \/ RunPod(r) \/ DeleteSecret(r) \/ Cleanup(r)
Next == \E r \in Runs : Run(r) \/ Accepts(r) \/ Kill(r)
Spec == Init /\ [][Next]_vars

-----------------------------------------------------------------------------
TypeOK ==
  /\ \A r \in Runs : /\ Deps # <<>> => dep[r] \in 1..Len(Deps)
                     /\ attempts[r] \in [1..Len(Deps) -> 0..MaxAttempts]
  /\ DOMAIN spaces \subseteq {NameOf[r] : r \in Runs}

\* A run that ends takes its namespace and all in it away, unless kubectl fails.
NothingIsLeft == \A r \in Runs : pc[r] \in Dead => NameOf[r] \in stuck \/ ~Exists(r)
\* A run's namespace is its own: no other run takes it away.
Isolated == \A r \in Runs : pc[r] \in {"deps", "rolled", "secret", "pod", "unsecret"} => Exists(r)
\* The command of a run finds the services it needs, unless one refused
\* connections ten times.
CommandFindsDepsInTime ==
  \A r \in Runs : saw[r] \/ \E i \in 1..Len(Deps) : attempts[r][i] = MaxAttempts
\* Every run is over.
NobodyRuns == \A r \in Runs : pc[r] \in Dead
=============================================================================
