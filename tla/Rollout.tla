------------------------------ MODULE Rollout -------------------------------
(***************************************************************************)
(* Which services a deploy takes (packages/nopo/src/filter.ts, the command *)
(* deployed-sha of plugins/terraform/src/index.ts): commits are made, a    *)
(* deploy reads what runs in the cluster, takes the services that changed  *)
(* since, and rolls each of them out, or fails to.                         *)
(*                                                                         *)
(* A commit is the directories it touches and, from then on, what every    *)
(* service is: "built" from the repository, "infra" with a pinned upstream *)
(* image, or a "package" that never runs.  Touching a directory always     *)
(* gives it contents it never had.  A deploy works at one commit.          *)
(***************************************************************************)
EXTENDS Integers, Sequences, FiniteSets, FiniteSetsExt

CONSTANTS
  Service, Kind0,   \* the kinds of the first commit
  Include,          \* build.include: more directories a service is built from
  Pin,              \* upstream images
  MaxCommit,
  Faults            \* "partial": some services fail while others succeed,
                    \* "overlap": pods of two versions run side by side,
                    \* "lost": pods stop running, "convert": services change kind

Root == "root"      \* the package whose directory is the project itself
Dir == Service \ {Root}
RolloutAssumption == Kind0 \in [Service -> {"built", "infra", "package"}] /\ MaxCommit \in Nat \ {0}

VARIABLES
  history,   \* commits, oldest first
  spec,      \* service -> what was applied last
  pods       \* service -> what is running
vars == <<history, spec, pods>>

HEAD == Len(history)
Now == history[HEAD]
\* What a commit says of a service that runs: its image and what is mounted.
Version(s) ==
  [kind |-> Now.kind[s], image |-> IF Now.kind[s] = "built" THEN HEAD ELSE Now.pin[s], at |-> HEAD]
Runs(s) == Now.kind[s] # "package"
Workloads == {s \in Service : Runs(s)}
\* The roots that files are matched against.
Roots(s) == IF s = Root THEN Dir ELSE {s} \cup (IF Now.kind[s] = "built" THEN Include[s] ELSE {})

-----------------------------------------------------------------------------
(* What runs: deployed-sha --json. *)

\* The git sha of the oldest pod if any is built from one, else the image of
\* whichever pod is listed first; no entry for a service without pods.
\* Broken: the newest.
SinceNewest(s) ==
  LET built == {p \in pods[s] : p.kind = "built"}
  IN  IF built # {} THEN {[sha |-> TRUE, ref |-> Max({p.image : p \in built})]}
      ELSE {[sha |-> FALSE, ref |-> p.image] : p \in pods[s]}
Since(s) ==
  LET built == {p \in pods[s] : p.kind = "built"}
  IN  IF built # {} THEN {[sha |-> TRUE, ref |-> Min({p.image : p \in built})]}
      ELSE {[sha |-> FALSE, ref |-> p.image] : p \in pods[s]}

Deployed == {s \in Service : pods[s] # {}}
SinceMaps ==
  {m \in [Deployed -> UNION {Since(s) : s \in Deployed}] : \A s \in Deployed : m[s] \in Since(s)}

-----------------------------------------------------------------------------
(* What changed: hasChangedFiles(). *)

\* git diff of the merge base and HEAD; HEAD is on the default branch.
FilesChanged(s, ref) == \E i \in (ref + 1)..HEAD : history[i].touches \cap Roots(s) # {}

Shas(m) == {m[s].ref : s \in {t \in DOMAIN m : m[t].sha}}
\* The oldest commit that runs anywhere, if any is known.
FleetBaseline(m) == IF Shas(m) = {} THEN {} ELSE {Min(Shas(m))}

HasChangedFiles(s, m) ==
  IF s \notin DOMAIN m THEN Runs(s)     \* packages are compared with HEAD itself
  ELSE IF ~m[s].sha
  THEN \/ Now.kind[s] = "built"         \* it just gained a build
       \/ m[s].ref # Now.pin[s]
       \/ \E b \in FleetBaseline(m) : FilesChanged(s, b)
  ELSE FilesChanged(s, m[s].ref)

Selected(m) == {s \in Service : HasChangedFiles(s, m)}

-----------------------------------------------------------------------------
Init ==
  /\ history = <<[touches |-> Dir, kind |-> Kind0,
                  pin |-> [s \in Service |-> CHOOSE p \in Pin : TRUE]]>>
  /\ spec = [s \in Service |-> [kind |-> "package", image |-> 0, at |-> 0]]
  /\ pods = [s \in Service |-> {}]

\* A new pin or kind is a change of the service's own nopo.yml.
Commit ==
  /\ HEAD < MaxCommit
  /\ \E touches \in (SUBSET Dir) \ {{}}, pin \in [Service -> Pin],
        kind \in [Service -> {"built", "infra", "package"}] :
       /\ \A s \in Service : pin[s] # Now.pin[s] => s \in touches /\ Now.kind[s] = "infra"
       /\ \A s \in Service :
            kind[s] # Now.kind[s]
              => "convert" \in Faults /\ s \in touches /\ "package" \notin {kind[s], Now.kind[s]}
       /\ history' = Append(history, [touches |-> touches, kind |-> kind, pin |-> pin])
  /\ UNCHANGED <<spec, pods>>

\* `nopo up' of the services that changed: the manifests of some may not be
\* applied, and a rollout may go on after the command has given up on it.
Deploy(applied, done) ==
  /\ spec' = [s \in Service |-> IF s \in applied THEN Version(s) ELSE spec[s]]
  /\ pods' = [s \in Service |-> IF s \in done THEN {Version(s)}
                                 ELSE IF s \in applied THEN pods[s] \cup {Version(s)} ELSE pods[s]]
  /\ UNCHANGED history
DeployFails ==
  \E m \in SinceMaps : \E applied \in SUBSET (Selected(m) \cap Workloads) :
    \E done \in IF "overlap" \in Faults THEN SUBSET applied ELSE {applied} :
      /\ "partial" \in Faults \/ applied = Selected(m) \cap Workloads
      /\ Deploy(applied, done)
DeploySucceeds ==
  \E m \in SinceMaps : LET all == Selected(m) \cap Workloads IN all # {} /\ Deploy(all, all)

\* A rollout that was left going ends, or pods that went come back; pods go.
Settle(s) == /\ spec[s].at > 0 /\ pods' = [pods EXCEPT ![s] = {spec[s]}]
             /\ UNCHANGED <<history, spec>>
Lose(s) == /\ "lost" \in Faults /\ pods[s] # {}
           /\ pods' = [pods EXCEPT ![s] = {}]
           /\ UNCHANGED <<history, spec>>

Next == Commit \/ DeployFails \/ DeploySucceeds \/ \E s \in Service : Settle(s) \/ Lose(s)
Spec == Init /\ [][Next]_vars

-----------------------------------------------------------------------------
TypeOK ==
  /\ HEAD \in 1..MaxCommit
  /\ \A s \in Service : spec[s].at \in 0..HEAD /\ \A p \in pods[s] :
       p.at \in 1..spec[s].at /\ p.kind # "package"

\* What was applied last is no longer what the repository says.
Outdated(s) ==
  /\ Runs(s)
  /\ \/ spec[s].kind # Now.kind[s]
     \/ Now.kind[s] = "infra" /\ spec[s].image # Now.pin[s]
     \/ FilesChanged(s, spec[s].at)

\* Whatever failed before, and whichever pods are looked at, a deploy takes
\* every built service whose code is not what was applied last, or not what one
\* of its pods still runs.
BuiltNeverMissed ==
  \A m \in SinceMaps, s \in Service :
    Now.kind[s] = "built" /\ (Outdated(s) \/ \E p \in pods[s] : p.kind = "built"
                              /\ FilesChanged(s, p.at))
    => s \in Selected(m)
\* It takes every service whose upstream image is not the pinned one.
PinNeverMissed ==
  \A m \in SinceMaps, s \in Service : Now.kind[s] = "infra" /\ spec[s].image # Now.pin[s]
    => s \in Selected(m)
\* It takes every service with an upstream image whose own files, its config,
\* changed since they were applied.
ConfigNeverMissed == \A m \in SinceMaps, s \in Service : Now.kind[s] = "infra" /\ Outdated(s)
  => s \in Selected(m)

\* After the last commit the whole fleet is what that commit says.
CaughtUp == HEAD = MaxCommit => \A s \in Service : ~Outdated(s)
=============================================================================
