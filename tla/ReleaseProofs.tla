--------------------------- MODULE ReleaseProofs ----------------------------
(***************************************************************************)
(* Proofs about MCRelease: what a deploy takes of a fleet, what a deploy   *)
(* and a teardown report, what a throwaway run leaves, what an image build *)
(* ships, what the `secret' commands do and in what order a host builds,   *)
(* for every project, fleet, crowd of runs, document and DAG of commands.  *)
(***************************************************************************)
EXTENDS MCRelease, FiniteSetTheorems, WellFoundedInduction, SequenceTheorems, TLAPS

-----------------------------------------------------------------------------
(* What a deploy takes. *)

\* Commits of a fleet of services, one of which may be the root.
Commits(S) ==
  [touches : SUBSET (S \ {"root"}), kind : [S -> {"built", "infra", "package"}],
   pin : [S -> Pins \cup {CHOOSE q \in Pins : TRUE}]]

\* Whoever changes kind is touched.
Chronicle(S, h) ==
  /\ h \in Seq(Commits(S)) /\ Len(h) \in Nat \ {0}
  /\ \A i \in 1 .. Len(h), s \in S :
       h[i].kind[s] # h[Len(h)].kind[s] => \E k \in (i + 1) .. Len(h) : s \in h[k].touches

\* What a commit said of a service.
IsVersion(h, s, v) ==
  /\ v.at \in 1 .. Len(h) /\ v.kind = h[v.at].kind[s] /\ v.kind # "package"
  /\ v.kind = "built" => v.image = v.at
  /\ v.kind # "built" => v.image = h[v.at].pin[s]

\* What was applied, and what runs, is what a commit said.
Ledger(S, h, sp, po) ==
  /\ DOMAIN sp = S /\ DOMAIN po = S
  /\ \A s \in S :
       /\ sp[s].at \in 0 .. Len(h)
       /\ sp[s].at = 0 => sp[s].kind = "package"
       /\ sp[s].at > 0 => IsVersion(h, s, sp[s])
       /\ \A q \in po[s] : IsVersion(h, s, q) /\ q.at \in 1 .. sp[s].at

\* A history stays one as commits are added.
LEMMA ChronicleGrows ==
  ASSUME NEW S, NEW h, NEW c \in Commits(S), Chronicle(S, h),
         \A s \in S : c.kind[s] # h[Len(h)].kind[s] => s \in c.touches
  PROVE  Chronicle(S, Append(h, c))
<1> DEFINE g == Append(h, c)
<1>1. h \in Seq(Commits(S)) /\ Len(h) \in Nat \ {0}
  BY DEF Chronicle
<1>2. /\ g \in Seq(Commits(S)) /\ Len(g) = Len(h) + 1 /\ g[Len(h) + 1] = c
      /\ \A i \in 1 .. Len(h) : g[i] = h[i]
  BY <1>1
<1>3. ASSUME NEW i \in 1 .. Len(g), NEW s \in S, g[i].kind[s] # g[Len(g)].kind[s]
      PROVE  \E k \in (i + 1) .. Len(g) : s \in g[k].touches
  <2>1. i \in 1 .. Len(h) /\ g[i] = h[i] /\ g[Len(g)] = c
    BY <1>1, <1>2, <1>3
  <2>2. CASE h[i].kind[s] # h[Len(h)].kind[s]
    <3>1. PICK k \in (i + 1) .. Len(h) : s \in h[k].touches
      BY <2>1, <2>2 DEF Chronicle
    <3>2. k \in 1 .. Len(h) /\ k \in (i + 1) .. Len(g)
      BY <1>1, <1>2, <2>1
    <3> QED
      BY <1>2, <3>1, <3>2
  <2>3. CASE h[i].kind[s] = h[Len(h)].kind[s]
    <3>1. s \in g[Len(g)].touches
      BY <1>3, <2>1, <2>3
    <3> QED
      BY <1>1, <1>2, <2>1, <3>1
  <2> QED
    BY <2>2, <2>3
<1> QED
  BY <1>1, <1>2, <1>3 DEF Chronicle

\* A new commit makes nothing that was applied untrue.
LEMMA LedgerGrows ==
  ASSUME NEW S, NEW h, NEW c \in Commits(S), Chronicle(S, h), NEW sp, NEW po, Ledger(S, h, sp, po)
  PROVE  Ledger(S, Append(h, c), sp, po)
<1> DEFINE g == Append(h, c)
<1>1. /\ Len(h) \in Nat /\ Len(g) = Len(h) + 1
      /\ \A i \in 1 .. Len(h) : g[i] = h[i]
  BY DEF Chronicle
<1>2. \A s, v : IsVersion(h, s, v) => IsVersion(g, s, v)
  BY <1>1 DEF IsVersion
<1> QED
  BY <1>1, <1>2 DEF Ledger

\* A deploy of some services, some of whose rollouts have ended.
LEMMA LedgerDeployed ==
  ASSUME NEW S, NEW h, Chronicle(S, h), NEW sp, NEW po, Ledger(S, h, sp, po), NEW np, NEW no,
         DOMAIN np = S, DOMAIN no = S,
         \A s \in S : \/ /\ np[s] = sp[s] /\ no[s] \in {{}, po[s], {sp[s]}}
                         /\ no[s] = {sp[s]} => sp[s].at > 0
                      \/ /\ IsVersion(h, s, np[s]) /\ np[s].at = Len(h)
                         /\ no[s] \in {{np[s]}, po[s] \cup {np[s]}}
  PROVE  Ledger(S, h, np, no)
<1>1. Len(h) \in Nat \ {0}
  BY DEF Chronicle
<1>2. ASSUME NEW s \in S
      PROVE  /\ np[s].at \in 0 .. Len(h)
             /\ np[s].at = 0 => np[s].kind = "package"
             /\ np[s].at > 0 => IsVersion(h, s, np[s])
             /\ \A q \in no[s] : IsVersion(h, s, q) /\ q.at \in 1 .. np[s].at
  <2>1. /\ sp[s].at \in 0 .. Len(h) /\ (sp[s].at = 0 => sp[s].kind = "package")
        /\ sp[s].at > 0 => IsVersion(h, s, sp[s])
        /\ \A q \in po[s] : IsVersion(h, s, q) /\ q.at \in 1 .. sp[s].at
    BY DEF Ledger
  <2>2. CASE /\ np[s] = sp[s] /\ no[s] \in {{}, po[s], {sp[s]}}
             /\ no[s] = {sp[s]} => sp[s].at > 0
    BY <1>1, <2>1, <2>2
  <2>3. CASE /\ IsVersion(h, s, np[s]) /\ np[s].at = Len(h)
             /\ no[s] \in {{np[s]}, po[s] \cup {np[s]}}
    <3>1. \A q \in no[s] : IsVersion(h, s, q) /\ q.at \in 1 .. Len(h)
      BY <1>1, <2>1, <2>3
    <3> QED
      BY <1>1, <2>3, <3>1
  <2> QED
    BY <2>2, <2>3
<1> QED
  BY <1>2 DEF Ledger

\* The least of some versions' commits.
LEMMA OldestIsLeast ==
  ASSUME NEW I, I \subseteq Nat, I # {}
  PROVE  Fleets!Min(I) = Pairs!Min(I) /\ Fleets!Min(I) \in I /\ \A i \in I : Fleets!Min(I) <= i
<1>1. IsWellFoundedOn(OpToRel(<, Nat), Nat)
  BY NatLessThanWellFounded
<1>2. PICK x \in I : \A y \in I : <<y, x>> \notin OpToRel(<, Nat)
  BY <1>1, WFMin
<1>3. \A y \in I : ~(y < x)
  BY <1>2 DEF OpToRel
<1>4. \A y \in I : x <= y
  BY <1>3
<1> QED
  BY <1>4 DEF Fleets!Min, Pairs!Min

\* Whoever was built when it was applied differs from a service of now only if touched.
LEMMA ChangeOfKindShows ==
  ASSUME NEW S, NEW h, Chronicle(S, h), NEW sp, NEW po, Ledger(S, h, sp, po), NEW s \in S,
         sp[s].at > 0, sp[s].kind # h[Len(h)].kind[s]
  PROVE  s # "root" /\ \E k \in (sp[s].at + 1) .. Len(h) : s \in h[k].touches
<1>1. Len(h) \in Nat /\ sp[s].at \in 1 .. Len(h) /\ h[sp[s].at].kind[s] # h[Len(h)].kind[s]
  BY DEF Ledger, Chronicle, IsVersion
<1>2. PICK k \in (sp[s].at + 1) .. Len(h) : s \in h[k].touches
  BY <1>1 DEF Chronicle
<1>3. h[k] \in Commits(S)
  <2>1. k \in 1 .. Len(h)
    BY <1>1
  <2> QED
    BY <2>1 DEF Chronicle
<1> QED
  BY <1>2, <1>3 DEF Commits

\* A fleet's variables.
history == v1
applied == v2
running == v3

\* The oldest commit that a service's pods are built from is no later than any of them.
Built(po, s) == {q \in po[s] : q.kind = "built"}
Oldest(po, s) == Fleets!Min({q.image : q \in Built(po, s)})

LEMMA OldestReaches ==
  ASSUME NEW S, NEW h, Chronicle(S, h), NEW sp, NEW po, Ledger(S, h, sp, po), NEW s \in S,
         Built(po, s) # {}, h[Len(h)].kind[s] = "built"
  PROVE  /\ Oldest(po, s) \in Nat /\ Oldest(po, s) <= sp[s].at /\ sp[s].at \in 1 .. Len(h)
         /\ \A q \in Built(po, s) : Oldest(po, s) <= q.at
         /\ sp[s].kind # "built" =>
              s # "root" /\ \E k \in (Oldest(po, s) + 1) .. Len(h) : s \in h[k].touches
<1>1. \A q \in Built(po, s) : q.image = q.at /\ q.at \in 1 .. sp[s].at
  BY DEF Ledger, IsVersion, Built
<1>2. Len(h) \in Nat /\ sp[s].at \in 0 .. Len(h)
  BY DEF Ledger, Chronicle
<1> DEFINE I == {q.image : q \in Built(po, s)}
<1>3. I \subseteq Nat /\ I # {}
  BY <1>1, <1>2
<1> HIDE DEF I
<1>4. Fleets!Min(I) \in I /\ \A i \in I : Fleets!Min(I) <= i
  BY <1>3, OldestIsLeast
<1>5. PICK ref : ref = Fleets!Min(I)
  OBVIOUS
<1>6. ref = Oldest(po, s)
  BY <1>5 DEF Oldest, I
<1>7. ref \in Nat /\ \A q \in Built(po, s) : ref <= q.at
  BY <1>1, <1>3, <1>4, <1>5 DEF I
<1>8. ref <= sp[s].at /\ sp[s].at > 0
  BY <1>1, <1>2, <1>7
<1>9. ASSUME sp[s].kind # "built"
      PROVE  s # "root" /\ \E k \in (ref + 1) .. Len(h) : s \in h[k].touches
  <2>1. s # "root" /\ \E k \in (sp[s].at + 1) .. Len(h) : s \in h[k].touches
    BY <1>8, <1>9, ChangeOfKindShows
  <2> QED
    BY <1>2, <1>7, <1>8, <2>1
<1> QED
  BY <1>2, <1>6, <1>7, <1>8, <1>9

FleetInv ==
  /\ Chronicle(Fleet, history) /\ Ledger(Fleet, history, applied, running)
  /\ Len(history) <= MaxCommit

\* The fleet starts with one commit and nothing deployed.
LEMMA FleetStart == Fleets!Init => FleetInv
<1> SUFFICES ASSUME Fleets!Init PROVE FleetInv
  OBVIOUS
<1> DEFINE c == [touches |-> Fleet \ {"root"}, kind |-> FleetKinds,
                 pin |-> [s \in Fleet |-> CHOOSE q \in Pins : TRUE]]
<1>1. FleetKinds \in [Fleet -> {"built", "infra", "package"}]
  BY ReleaseAssumptions DEF Fleets!RolloutAssumption
<1>2. c \in Commits(Fleet)
  BY <1>1 DEF Commits
<1>3. history = <<c>> /\ applied = [s \in Fleet |-> [kind |-> "package", image |-> 0, at |-> 0]]
      /\ running = [s \in Fleet |-> {}]
  BY DEF Fleets!Init, Fleets!Dir, Fleets!Root, history, applied, running
<1>4. Len(history) = 1 /\ history \in Seq(Commits(Fleet)) /\ Len(history) <= MaxCommit
  BY <1>2, <1>3, ReleaseAssumptions DEF Fleets!RolloutAssumption
<1> QED
  BY <1>3, <1>4 DEF FleetInv, Chronicle, Ledger

\* A commit keeps the invariant of the fleet.
LEMMA FleetCommits == FleetInv /\ Fleets!Commit => FleetInv'
<1> SUFFICES ASSUME FleetInv, Fleets!Commit PROVE FleetInv'
  OBVIOUS
<1>1. PICK touches \in SUBSET (Fleet \ {"root"}), pin \in [Fleet -> Pins],
           kind \in [Fleet -> {"built", "infra", "package"}] :
        /\ \A s \in Fleet : kind[s] # history[Len(history)].kind[s] => s \in touches
        /\ history' = Append(history, [touches |-> touches, kind |-> kind, pin |-> pin])
        /\ Len(history) < MaxCommit
  BY DEF Fleets!Commit, Fleets!Dir, Fleets!Root, Fleets!Now, Fleets!HEAD, history
<1>2. [touches |-> touches, kind |-> kind, pin |-> pin] \in Commits(Fleet)
  BY DEF Commits
<1>3. applied' = applied /\ running' = running
  BY DEF Fleets!Commit, applied, running
<1>4. Chronicle(Fleet, history) /\ Ledger(Fleet, history, applied, running)
  BY DEF FleetInv
<1>5. Chronicle(Fleet, history') /\ Ledger(Fleet, history', applied, running)
  BY <1>1, <1>2, <1>4, ChronicleGrows, LedgerGrows
<1>6. Len(history) \in Nat /\ Len(history') = Len(history) + 1
  BY <1>1, <1>4 DEF Chronicle
<1> QED
  BY <1>1, <1>3, <1>5, <1>6, ReleaseAssumptions DEF FleetInv, Fleets!RolloutAssumption

\* A pod that runs is what was applied once.
LEMMA OnlyWhatRan ==
  ASSUME NEW S, NEW h, NEW sp, NEW po, Ledger(S, h, sp, po), NEW s \in S, sp[s] \in po[s]
  PROVE  sp[s].at > 0
BY DEF Ledger

\* What a deploy, the end of a rollout or the end of pods changes.
\* A deploy, whole or failed in part, keeps it: what is applied is of HEAD.
LEMMA FleetApplies ==
  ASSUME FleetInv, NEW these, NEW done, these \subseteq Fleets!Workloads, done \subseteq these,
         Fleets!Deploy(these, done)
  PROVE  FleetInv'
<1>1. /\ history' = history
      /\ applied' = [s \in Fleet |-> IF s \in these THEN Fleets!Version(s) ELSE applied[s]]
      /\ running' = [s \in Fleet |-> IF s \in done THEN {Fleets!Version(s)}
                                     ELSE IF s \in these THEN running[s] \cup {Fleets!Version(s)}
                                     ELSE running[s]]
  BY DEF Fleets!Deploy, history, applied, running
<1>2. ASSUME NEW s \in these
      PROVE  IsVersion(history, s, Fleets!Version(s)) /\ Fleets!Version(s).at = Len(history)
  BY DEF Fleets!Workloads, Fleets!Runs, Fleets!Version, Fleets!Now, Fleets!HEAD,
     IsVersion, history, FleetInv, Chronicle
<1>3. ASSUME NEW s \in Fleet
      PROVE  \/ /\ applied'[s] = applied[s] /\ running'[s] \in {{}, running[s], {applied[s]}}
                /\ running'[s] = {applied[s]} => applied[s].at > 0
             \/ /\ IsVersion(history, s, applied'[s]) /\ applied'[s].at = Len(history)
                /\ running'[s] \in {{applied'[s]}, running[s] \cup {applied'[s]}}
  <2>1. CASE s \in these
    BY <1>1, <1>2, <2>1
  <2>2. CASE s \notin these
    BY <1>1, <2>2, OnlyWhatRan DEF FleetInv
  <2> QED
    BY <2>1, <2>2
<1>4. DOMAIN applied' = Fleet /\ DOMAIN running' = Fleet
  BY <1>1
<1>5. Ledger(Fleet, history, applied', running')
  BY <1>3, <1>4, LedgerDeployed DEF FleetInv
<1> QED
  BY <1>1, <1>5 DEF FleetInv

\* The end of a rollout, and the loss of all pods, keep it.
LEMMA FleetSettles ==
  ASSUME FleetInv, NEW s \in Fleet, Fleets!Settle(s) \/ Fleets!Lose(s)
  PROVE  FleetInv'
<1>1. /\ history' = history /\ applied' = applied
      /\ \/ running' = [running EXCEPT ![s] = {applied[s]}] /\ applied[s].at > 0
         \/ running' = [running EXCEPT ![s] = {}]
  BY DEF Fleets!Settle, Fleets!Lose, history, applied, running
<1>2. DOMAIN applied = Fleet /\ DOMAIN running = Fleet
  BY DEF FleetInv, Ledger
<1>3. ASSUME NEW t \in Fleet
      PROVE  /\ applied'[t] = applied[t] /\ running'[t] \in {{}, running[t], {applied[t]}}
             /\ running'[t] = {applied[t]} => applied[t].at > 0
  BY <1>1, <1>2, OnlyWhatRan DEF FleetInv
<1>4. DOMAIN applied' = Fleet /\ DOMAIN running' = Fleet
  BY <1>1, <1>2
<1>5. Ledger(Fleet, history, applied', running')
  BY <1>3, <1>4, LedgerDeployed DEF FleetInv
<1> QED
  BY <1>1, <1>5 DEF FleetInv

\* Every step of the fleet keeps it.
LEMMA FleetNext == FleetInv /\ Fleets!Next => FleetInv'
<1> SUFFICES ASSUME FleetInv, Fleets!Next PROVE FleetInv'
  OBVIOUS
<1>1. CASE Fleets!Commit
  BY <1>1, FleetCommits
<1>2. CASE Fleets!DeployFails
  <2>1. PICK these \in SUBSET Fleets!Workloads, done \in SUBSET Fleets!Workloads :
          done \subseteq these /\ Fleets!Deploy(these, done)
    BY <1>2 DEF Fleets!DeployFails
  <2> QED
    BY <2>1, FleetApplies
<1>3. CASE Fleets!DeploySucceeds
  <2>1. PICK these \in SUBSET Fleets!Workloads : Fleets!Deploy(these, these)
    BY <1>3 DEF Fleets!DeploySucceeds
  <2> QED
    BY <2>1, FleetApplies
<1>4. CASE \E s \in Fleet : Fleets!Settle(s) \/ Fleets!Lose(s)
  BY <1>4, FleetSettles
<1> QED
  BY <1>1, <1>2, <1>3, <1>4 DEF Fleets!Next

\* In it no service whose code differs from the code that runs is left out.
LEMMA FleetIsWatched == FleetInv => Fleets!TypeOK /\ Fleets!BuiltNeverMissed
<1> SUFFICES ASSUME FleetInv PROVE Fleets!TypeOK /\ Fleets!BuiltNeverMissed
  OBVIOUS
<1>1. Fleets!TypeOK
  BY DEF FleetInv, Chronicle, Ledger, IsVersion, Fleets!TypeOK, Fleets!HEAD, history,
     applied, running
<1>2. ASSUME NEW m \in Fleets!SinceMaps, NEW s \in Fleet, Fleets!Now.kind[s] = "built",
             Fleets!Outdated(s) \/ \E q \in running[s] : q.kind = "built"
               /\ Fleets!FilesChanged(s, q.at)
      PROVE  s \in Fleets!Selected(m)
  <2>0. DOMAIN m = {t \in Fleet : running[t] # {}} /\ (s \in DOMAIN m => m[s] \in Fleets!Since(s))
    BY DEF Fleets!SinceMaps, Fleets!Deployed, running
  <2>1. CASE s \notin DOMAIN m \/ ~m[s].sha
    BY <1>2, <2>1 DEF Fleets!Selected, Fleets!HasChangedFiles, Fleets!Runs
  <2>2. CASE s \in DOMAIN m /\ m[s].sha
    <3>0. m[s] \in IF Built(running, s) # {} THEN {[sha |-> TRUE, ref |-> Oldest(running, s)]}
                   ELSE {[sha |-> FALSE, ref |-> q.image] : q \in running[s]}
      BY <2>0, <2>2 DEF Fleets!Since, running, Built, Oldest
    <3>1. PICK ref : ref = Oldest(running, s)
      OBVIOUS
    <3>2. Built(running, s) # {} /\ m[s].ref = ref
      BY <2>2, <3>0, <3>1
    <3>3. /\ ref \in Nat /\ ref <= applied[s].at /\ applied[s].at \in 1 .. Len(history)
          /\ \A q \in Built(running, s) : ref <= q.at
          /\ applied[s].kind # "built" =>
               s # "root" /\ \E k \in (ref + 1) .. Len(history) : s \in history[k].touches
      <4>1. history[Len(history)].kind[s] = "built"
        BY <1>2 DEF Fleets!Now, Fleets!HEAD, history
      <4> QED
        BY <3>1, <3>2, <4>1, OldestReaches DEF FleetInv
    <3>8. \A i \in Nat : ref <= i /\ Fleets!FilesChanged(s, i) => Fleets!FilesChanged(s, ref)
      BY <3>3 DEF Fleets!FilesChanged, Fleets!HEAD, FleetInv, Chronicle, history
    <3>4. Fleets!FilesChanged(s, ref)
      <4>1. CASE applied[s].kind # "built"
        <5>1. s \in Fleets!Roots(s)
          BY <3>3, <4>1 DEF Fleets!Roots, Fleets!Root
        <5> QED
          BY <3>3, <4>1, <5>1 DEF Fleets!FilesChanged, Fleets!HEAD, history
      <4>2. CASE Fleets!FilesChanged(s, applied[s].at)
        BY <3>3, <3>8, <4>2
      <4>3. CASE \E q \in Built(running, s) : Fleets!FilesChanged(s, q.at)
        <5>1. PICK q \in Built(running, s) : Fleets!FilesChanged(s, q.at)
          BY <4>3
        <5>2. q.at \in Nat
          BY DEF FleetInv, Chronicle, Ledger, IsVersion, Built
        <5> QED
          BY <3>3, <3>8, <5>1, <5>2
      <4> QED
        BY <1>2, <4>1, <4>2, <4>3 DEF Fleets!Outdated, applied, Built
    <3> QED
      BY <2>2, <3>2, <3>4 DEF Fleets!Selected, Fleets!HasChangedFiles
  <2> QED
    BY <2>1, <2>2
<1> QED
  BY <1>1, <1>2 DEF Fleets!BuiltNeverMissed, running

PairRoots(s) ==
  IF s = "root" THEN Pair \ {"root"}
  ELSE {s} \cup (IF PairKinds[s] = "built" THEN PairIncludes[s] ELSE {})

\* Nothing of a service changed between the commit that it runs and one that
\* anything else runs: whatever had changed was taken then.
TakenTogether ==
  \A s, t \in Pair : applied[s].at > 0 =>
    \A k \in (applied[s].at + 1) .. applied[t].at : history[k].touches \cap PairRoots(s) = {}

PairInv ==
  /\ Chronicle(Pair, history) /\ Ledger(Pair, history, applied, running)
  /\ Len(history) <= MaxCommit
  /\ \A i \in 1 .. Len(history) : history[i].kind = PairKinds
  /\ \A s \in Pair : running[s] = IF applied[s].at = 0 THEN {} ELSE {applied[s]}
  /\ \A s, t \in Pair : applied[s].at > 0 /\ PairKinds[t] # "package" => applied[t].at > 0
  /\ TakenTogether

\* The fleet without failures starts with one commit and nothing deployed.
LEMMA PairStart == Pairs!Init => PairInv
<1> SUFFICES ASSUME Pairs!Init PROVE PairInv
  OBVIOUS
<1> DEFINE c == [touches |-> Pair \ {"root"}, kind |-> PairKinds,
                 pin |-> [s \in Pair |-> CHOOSE q \in Pins : TRUE]]
<1>1. PairKinds \in [Pair -> {"built", "infra", "package"}] /\ MaxCommit \in Nat \ {0}
  BY ReleaseAssumptions DEF Pairs!RolloutAssumption
<1>2. c \in Commits(Pair)
  BY <1>1 DEF Commits
<1>3. history = <<c>> /\ applied = [s \in Pair |-> [kind |-> "package", image |-> 0, at |-> 0]]
      /\ running = [s \in Pair |-> {}]
  BY DEF Pairs!Init, Pairs!Dir, Pairs!Root, history, applied, running
<1>4. /\ Len(history) = 1 /\ history \in Seq(Commits(Pair)) /\ Len(history) <= MaxCommit
      /\ history[1].kind = PairKinds
  BY <1>1, <1>2, <1>3
<1> QED
  BY <1>3, <1>4 DEF PairInv, Chronicle, Ledger, TakenTogether

\* Its services keep their kinds, and what is applied is of their kind.
LEMMA PairNow ==
  ASSUME PairInv
  PROVE  /\ Len(history) \in Nat \ {0} /\ Pairs!HEAD = Len(history)
              /\ Pairs!Now = history[Len(history)]
         /\ Pairs!Now.kind = PairKinds
         /\ \A s \in Pair :
              /\ Pairs!Roots(s) = PairRoots(s)
              /\ applied[s].at \in 0 .. Len(history)
              /\ applied[s].at > 0 =>
                   /\ applied[s].kind = PairKinds[s] /\ PairKinds[s] # "package"
                   /\ PairKinds[s] = "built" => applied[s].image = applied[s].at
<1>1. Len(history) \in Nat \ {0}
  BY DEF PairInv, Chronicle
<1>2. /\ Pairs!HEAD = Len(history) /\ Pairs!Now = history[Len(history)]
      /\ Pairs!Now.kind = PairKinds
  BY <1>1 DEF PairInv, Pairs!HEAD, Pairs!Now, history
<1>3. ASSUME NEW s \in Pair
      PROVE  /\ applied[s].at \in 0 .. Len(history)
             /\ applied[s].at > 0 =>
                  /\ applied[s].kind = PairKinds[s] /\ PairKinds[s] # "package"
                  /\ PairKinds[s] = "built" => applied[s].image = applied[s].at
  BY DEF PairInv, Ledger, IsVersion
<1>4. \A s \in Pair : Pairs!Roots(s) = PairRoots(s)
  BY <1>2 DEF Pairs!Roots, PairRoots, Pairs!Root, Pairs!Dir
<1> QED
  BY <1>1, <1>2, <1>3, <1>4

\* What filter.ts knows of it: who is deployed, since which commit or image.
LEMMA PairSince ==
  ASSUME PairInv, NEW m \in Pairs!SinceMaps, NEW s \in Pair
  PROVE  /\ DOMAIN m \subseteq Pair
         /\ (s \in DOMAIN m <=> applied[s].at > 0)
         /\ applied[s].at > 0 => m[s].ref = applied[s].image
              /\ (m[s].sha <=> PairKinds[s] = "built")
<1>1. DOMAIN m = {t \in Pair : running[t] # {}} /\ (s \in DOMAIN m => m[s] \in Pairs!Since(s))
  BY DEF Pairs!SinceMaps, Pairs!Deployed, running
<1>2. /\ applied[s].at \in 0 .. Len(history) /\ Len(history) \in Nat
      /\ running[s] = IF applied[s].at = 0 THEN {} ELSE {applied[s]}
  BY PairNow DEF PairInv
<1>3. ASSUME applied[s].at > 0
      PROVE  m[s].ref = applied[s].image /\ (m[s].sha <=> PairKinds[s] = "built")
  <2>1. running[s] = {applied[s]} /\ m[s] \in Pairs!Since(s) /\ applied[s].kind = PairKinds[s]
    BY <1>1, <1>2, <1>3, PairNow
  <2>2. CASE PairKinds[s] # "built"
    <3>1. {q \in running[s] : q.kind = "built"} = {}
      BY <2>1, <2>2
    <3>2. m[s] \in {[sha |-> FALSE, ref |-> q.image] : q \in running[s]}
      BY <2>1, <3>1 DEF Pairs!Since, running
    <3> QED
      BY <2>1, <2>2, <3>2
  <2>3. CASE PairKinds[s] = "built"
    <3> DEFINE I == {q.image : q \in {r \in running[s] : r.kind = "built"}}
    <3>1. {q \in running[s] : q.kind = "built"} # {} /\ I = {applied[s].image}
      BY <2>1, <2>3
    <3>2. m[s] \in {[sha |-> TRUE, ref |-> Pairs!Min(I)]}
      BY <2>1, <3>1 DEF Pairs!Since, running
    <3> HIDE DEF I
    <3>3. applied[s].image \in Nat
      BY <1>2, <1>3, <2>3, PairNow
    <3>4. Pairs!Min(I) = applied[s].image
      BY <3>1, <3>3, OldestIsLeast
    <3> QED
      BY <2>3, <3>2, <3>4
  <2> QED
    BY <2>2, <2>3
<1>4. DOMAIN m \subseteq Pair /\ (s \in DOMAIN m <=> applied[s].at > 0)
  BY <1>1, <1>2
<1> QED
  BY <1>3, <1>4

\* Who is outdated is selected, whichever baseline the code takes.
LEMMA OutdatedIsTaken ==
  ASSUME PairInv, NEW m \in Pairs!SinceMaps, NEW s \in Pair, Pairs!Outdated(s)
  PROVE  s \in Pairs!Selected(m)
<1>1. Pairs!Runs(s) /\ PairKinds[s] # "package"
  BY PairNow DEF Pairs!Outdated, Pairs!Runs
<1>2. CASE applied[s].at = 0
  BY <1>1, <1>2, PairSince DEF Pairs!Selected, Pairs!HasChangedFiles
<1>3. CASE applied[s].at > 0
  <2>1. s \in DOMAIN m /\ m[s].ref = applied[s].image /\ (m[s].sha <=> PairKinds[s] = "built")
    BY <1>3, PairSince
  <2>2. \/ PairKinds[s] # "built" /\ applied[s].image # Pairs!Now.pin[s]
        \/ Pairs!FilesChanged(s, applied[s].at)
    BY <1>3, PairNow DEF Pairs!Outdated, applied
  <2>3. CASE PairKinds[s] = "built"
    <3>1. Pairs!FilesChanged(s, m[s].ref)
      BY <1>3, <2>1, <2>2, <2>3, PairNow
    <3> QED
      BY <2>1, <2>3, <3>1 DEF Pairs!Selected, Pairs!HasChangedFiles
  <2>4. CASE PairKinds[s] # "built" /\ applied[s].image # Pairs!Now.pin[s]
    BY <2>1, <2>4 DEF Pairs!Selected, Pairs!HasChangedFiles
  <2>5. CASE PairKinds[s] # "built" /\ Pairs!FilesChanged(s, applied[s].at)
    <3>1. PICK t \in Pair : PairKinds[t] = "built"
      BY ReleaseAssumptions
    <3>2. applied[t].at > 0
      BY <1>3, <3>1 DEF PairInv
    <3> DEFINE B == Pairs!Shas(m)
    <3>3. ASSUME NEW b \in B
          PROVE  \E u \in Pair : b = applied[u].at /\ b \in Nat
      <4>1. PICK u \in DOMAIN m : m[u].sha /\ b = m[u].ref
        BY DEF Pairs!Shas
      <4>2. u \in Pair /\ applied[u].at > 0 /\ PairKinds[u] = "built" /\ b = applied[u].image
        BY <4>1, PairSince
      <4> QED
        BY <4>2, PairNow
    <3>4. m[t].ref \in B
      <4>1. t \in DOMAIN m /\ m[t].sha
        BY <3>1, <3>2, PairSince
      <4> QED
        BY <4>1 DEF Pairs!Shas
    <3> HIDE DEF B
    <3>5. Pairs!Min(B) \in B
      <4>1. B \subseteq Nat /\ B # {}
        BY <3>3, <3>4
      <4> QED
        BY <4>1, OldestIsLeast
    <3>6. PICK u \in Pair : Pairs!Min(B) = applied[u].at
      BY <3>3, <3>5
    <3>7. PICK k \in (applied[s].at + 1) .. Len(history) : history[k].touches \cap PairRoots(s) # {}
      BY <2>5, PairNow DEF Pairs!FilesChanged, history
    <3>8. k \notin (applied[s].at + 1) .. applied[u].at
      BY <1>3, <3>7 DEF PairInv, TakenTogether
    <3>9. k \in (applied[u].at + 1) .. Len(history)
      BY <3>7, <3>8, PairNow
    <3>10. Pairs!FilesChanged(s, Pairs!Min(B))
      BY <3>6, <3>7, <3>9, PairNow DEF Pairs!FilesChanged, history
    <3>11. Pairs!Min(B) \in Pairs!FleetBaseline(m)
      BY <3>4 DEF Pairs!FleetBaseline, B
    <3> QED
      BY <2>1, <2>5, <3>10, <3>11 DEF Pairs!Selected, Pairs!HasChangedFiles
  <2> QED
    BY <2>2, <2>3, <2>4, <2>5
<1> QED
  BY <1>2, <1>3, PairNow

\* So nothing outdated is missed by the code, by a pin or by the configuration.
LEMMA PairIsWatched ==
  ASSUME PairInv
  PROVE  /\ Pairs!TypeOK /\ Pairs!BuiltNeverMissed /\ Pairs!PinNeverMissed
              /\ Pairs!ConfigNeverMissed
<1>1. Pairs!TypeOK
  BY DEF PairInv, Chronicle, Ledger, IsVersion, Pairs!TypeOK, Pairs!HEAD, history,
     applied, running
<1>2. ASSUME NEW s \in Pair, NEW q \in running[s], Pairs!FilesChanged(s, q.at)
      PROVE  Pairs!Outdated(s)
  <2>1. running[s] = IF applied[s].at = 0 THEN {} ELSE {applied[s]}
    BY DEF PairInv
  <2>2. q = applied[s] /\ applied[s].at > 0
    BY <2>1, PairNow
  <2> QED
    BY <1>2, <2>2, PairNow DEF Pairs!Outdated, Pairs!Runs, applied
<1>3. ASSUME NEW s \in Pair, Pairs!Now.kind[s] = "infra", applied[s].image # Pairs!Now.pin[s]
      PROVE  Pairs!Outdated(s)
  BY <1>3 DEF Pairs!Outdated, Pairs!Runs, applied
<1> QED
  BY <1>1, <1>2, <1>3, OutdatedIsTaken DEF Pairs!BuiltNeverMissed, Pairs!PinNeverMissed,
     Pairs!ConfigNeverMissed, running, applied

\* A commit keeps the invariant of the fleet without failures.
LEMMA PairCommits == PairInv /\ Pairs!Commit => PairInv'
<1> SUFFICES ASSUME PairInv, Pairs!Commit PROVE PairInv'
  OBVIOUS
<1>0. PairKinds \in [Pair -> {"built", "infra", "package"}] /\ MaxCommit \in Nat \ {0}
  BY ReleaseAssumptions DEF Pairs!RolloutAssumption
<1>a. PICK touches \in SUBSET (Pair \ {"root"}), pin \in [Pair -> Pins],
           kind \in [Pair -> {"built", "infra", "package"}] :
        /\ \A s \in Pair : kind[s] = Pairs!Now.kind[s]
        /\ history' = Append(history, [touches |-> touches, kind |-> kind, pin |-> pin])
        /\ Pairs!HEAD < MaxCommit
  BY DEF Pairs!Commit, Pairs!Dir, Pairs!Root, history
<1>1. /\ \A s \in Pair : kind[s] = PairKinds[s]
      /\ history' = Append(history, [touches |-> touches, kind |-> kind, pin |-> pin])
      /\ Len(history) < MaxCommit
  BY <1>a, PairNow
<1>2. kind = PairKinds
  BY <1>0, <1>1
<1>3. [touches |-> touches, kind |-> kind, pin |-> pin] \in Commits(Pair)
  BY DEF Commits
<1>4. applied' = applied /\ running' = running
  BY DEF Pairs!Commit, applied, running
<1>5. Chronicle(Pair, history) /\ Ledger(Pair, history, applied, running)
      /\ history[Len(history)].kind = PairKinds
  BY PairNow DEF PairInv
<1>6. Chronicle(Pair, history') /\ Ledger(Pair, history', applied, running)
  BY <1>1, <1>2, <1>3, <1>5, ChronicleGrows, LedgerGrows
<1>7. /\ Len(history) \in Nat /\ Len(history') = Len(history) + 1
      /\ \A i \in 1 .. Len(history) : history'[i] = history[i]
      /\ history'[Len(history) + 1].kind = PairKinds
  BY <1>1, <1>2, <1>5 DEF Chronicle
<1>8. \A i \in 1 .. Len(history') : history'[i].kind = PairKinds
  BY <1>7 DEF PairInv
<1>9. TakenTogether'
  <2> SUFFICES ASSUME NEW s \in Pair, NEW t \in Pair, applied[s].at > 0,
                      NEW k \in (applied[s].at + 1) .. applied[t].at
               PROVE  history'[k].touches \cap PairRoots(s) = {}
    BY <1>4 DEF TakenTogether
  <2>1. k \in 1 .. Len(history)
    BY PairNow
  <2> QED
    BY <1>7, <2>1 DEF PairInv, TakenTogether
<1>10. Len(history') <= MaxCommit
  BY <1>0, <1>1, <1>7
<1> QED
  BY <1>4, <1>6, <1>8, <1>9, <1>10 DEF PairInv

\* A deploy of all that is selected keeps it.
LEMMA PairDeploys ==
  ASSUME PairInv, NEW m \in Pairs!SinceMaps, NEW these,
         these = Pairs!Selected(m) \cap Pairs!Workloads, Pairs!Deploy(these, these)
  PROVE  PairInv'
<1>1. /\ history' = history
      /\ applied' = [s \in Pair |-> IF s \in these THEN Pairs!Version(s) ELSE applied[s]]
      /\ running' = [s \in Pair |-> IF s \in these THEN {Pairs!Version(s)} ELSE running[s]]
  BY DEF Pairs!Deploy, history, applied, running
<1>2. ASSUME NEW s \in these
      PROVE  IsVersion(history, s, Pairs!Version(s)) /\ Pairs!Version(s).at = Len(history)
  BY PairNow DEF Pairs!Workloads, Pairs!Runs, Pairs!Version, IsVersion
<1>3. ASSUME NEW s \in Pair
      PROVE  \/ /\ applied'[s] = applied[s] /\ running'[s] \in {{}, running[s], {applied[s]}}
                /\ running'[s] = {applied[s]} => applied[s].at > 0
             \/ /\ IsVersion(history, s, applied'[s]) /\ applied'[s].at = Len(history)
                /\ running'[s] \in {{applied'[s]}, running[s] \cup {applied'[s]}}
  <2>1. CASE s \in these
    BY <1>1, <1>2, <2>1
  <2>2. CASE s \notin these
    BY <1>1, <2>2, OnlyWhatRan DEF PairInv
  <2> QED
    BY <2>1, <2>2
<1>4. DOMAIN applied' = Pair /\ DOMAIN running' = Pair
  BY <1>1
<1>5. Ledger(Pair, history, applied', running')
  BY <1>3, <1>4, LedgerDeployed DEF PairInv
<1>6. \A s \in Pair : running'[s] = IF applied'[s].at = 0 THEN {} ELSE {applied'[s]}
  BY <1>1, <1>2, PairNow DEF PairInv
<1>7. ASSUME NEW t \in Pair, PairKinds[t] # "package" PROVE applied'[t].at > 0
  <2>1. CASE applied[t].at > 0
    BY <1>1, <1>2, <2>1, PairNow
  <2>2. CASE ~(applied[t].at > 0)
    <3>1. t \in these
      BY <1>7, <2>2, PairNow, PairSince DEF Pairs!Selected, Pairs!HasChangedFiles,
         Pairs!Runs, Pairs!Workloads
    <3> QED
      BY <1>1, <1>2, <3>1, PairNow
  <2> QED
    BY <2>1, <2>2
<1>8. TakenTogether'
  <2> SUFFICES ASSUME NEW s \in Pair, NEW t \in Pair, applied'[s].at > 0,
                      NEW k \in (applied'[s].at + 1) .. applied'[t].at
               PROVE  history[k].touches \cap PairRoots(s) = {}
    BY <1>1 DEF TakenTogether
  <2>1. applied'[t].at \in 0 .. Len(history) /\ applied'[s].at \in 0 .. Len(history)
    BY <1>5 DEF Ledger
  <2>2. s \notin these /\ applied'[s] = applied[s]
    BY <1>1, <1>2, <2>1, PairNow
  <2>3. ~Pairs!Outdated(s) /\ Pairs!Runs(s)
    BY <2>2, OutdatedIsTaken, PairNow DEF Pairs!Workloads, Pairs!Runs
  <2>4. ~Pairs!FilesChanged(s, applied[s].at)
    BY <2>3 DEF Pairs!Outdated, applied
  <2>5. k \in (applied[s].at + 1) .. Len(history)
    BY <2>1, <2>2, PairNow
  <2> QED
    BY <2>4, <2>5, PairNow DEF Pairs!FilesChanged, history
<1> QED
  BY <1>1, <1>5, <1>6, <1>7, <1>8 DEF PairInv

\* Every step of it keeps it.
LEMMA PairNext == PairInv /\ Pairs!Next => PairInv'
<1> SUFFICES ASSUME PairInv, Pairs!Next PROVE PairInv'
  OBVIOUS
<1>1. CASE Pairs!Commit
  BY <1>1, PairCommits
<1>2. CASE Pairs!DeployFails
  <2>1. PICK m \in Pairs!SinceMaps :
          LET all == Pairs!Selected(m) \cap Pairs!Workloads IN Pairs!Deploy(all, all)
    BY <1>2 DEF Pairs!DeployFails
  <2> QED
    BY <2>1, PairDeploys
<1>3. CASE Pairs!DeploySucceeds
  <2>1. PICK m \in Pairs!SinceMaps :
          LET all == Pairs!Selected(m) \cap Pairs!Workloads IN Pairs!Deploy(all, all)
    BY <1>3 DEF Pairs!DeploySucceeds
  <2> QED
    BY <2>1, PairDeploys
<1>4. CASE \E s \in Pair : Pairs!Settle(s)
  <2>1. PICK s \in Pair : Pairs!Settle(s)
    BY <1>4
  <2>2. history' = history /\ applied' = applied /\ applied[s].at > 0
        /\ running' = [running EXCEPT ![s] = {applied[s]}]
    BY <2>1 DEF Pairs!Settle, history, applied, running
  <2>3. DOMAIN running = Pair /\ DOMAIN applied = Pair /\ Ledger(Pair, history, applied, running)
        /\ Chronicle(Pair, history)
    BY DEF PairInv, Ledger
  <2>7. \A t \in Pair : running[t] = IF applied[t].at = 0 THEN {} ELSE {applied[t]}
    BY DEF PairInv
  <2>8. \A t \in Pair : applied[t].at \in Nat
    BY PairNow
  <2>4. DOMAIN running' = Pair
        /\ \A t \in Pair : running'[t] = IF applied[t].at = 0 THEN {} ELSE {applied[t]}
    <3>1. DOMAIN running' = Pair
          /\ \A t \in Pair : running'[t] = IF t = s THEN {applied[s]} ELSE running[t]
      BY <2>2, <2>3
    <3>2. applied[s].at # 0
      BY <2>2, <2>8
    <3> QED
      BY <2>7, <3>1, <3>2
  <2>5. ASSUME NEW t \in Pair
        PROVE  /\ applied'[t] = applied[t] /\ running'[t] \in {{}, running[t], {applied[t]}}
               /\ running'[t] = {applied[t]} => applied[t].at > 0
    <3>1. {applied[t]} # {} /\ running'[t] = IF applied[t].at = 0 THEN {} ELSE {applied[t]}
      BY <2>4
    <3> QED
      BY <2>2, <2>8, <3>1
  <2>6. Ledger(Pair, history, applied', running')
    <3>1. DOMAIN applied' = Pair /\ DOMAIN running' = Pair
      BY <2>2, <2>3, <2>4
    <3> QED
      BY <2>3, <2>5, <3>1, LedgerDeployed
  <2> QED
    BY <2>2, <2>4, <2>6 DEF PairInv, TakenTogether
<1>5. \A s : ~Pairs!Lose(s)
  BY DEF Pairs!Lose
<1> QED
  BY <1>1, <1>2, <1>3, <1>4, <1>5 DEF Pairs!Next

-----------------------------------------------------------------------------
(* Deploys and teardowns. *)

\* Their variables.
release == v1
ups == v2
downs == v3
stage == v5
place == v6
rolled == v8
ran == v9
secret == v11
config == v12
template == v13
pods == v14

These(S) == {S[i] : i \in 1 .. Len(S)}
UpTo(S, k) == {S[i] : i \in 1 .. k}
Applying == {"secrets", "configs", "workloads"}
Stages == {"idle", "wait", "pre_deploy", "post_deploy", "deployed", "failed"} \cup Applying
Hook == {"pre_deploy", "post_deploy"}

\* The deployer goes through the services at each of its stages.
OnwardTo(S, next) ==
  \/ stage' = stage /\ place < Len(S) /\ place' = place + 1
  \/ stage' \in next /\ place >= Len(S) /\ place' = 1

\* What a step can do to the deployer's place and to what it remembers of a deploy.
Moves(S) ==
  \/ UNCHANGED <<stage, place, rolled, ran>>
  \/ stage' \in {"secrets", "idle", "failed"} /\ place' = 1 /\ rolled' = {} /\ ran' = << >>
  \/ stage' = "failed" /\ place' = 1 /\ UNCHANGED <<rolled, ran>>
  \/ stage = "secrets" /\ OnwardTo(S, {"configs"}) /\ UNCHANGED <<rolled, ran>>
  \/ stage = "configs" /\ OnwardTo(S, {"workloads"}) /\ UNCHANGED <<rolled, ran>>
  \/ stage = "workloads" /\ OnwardTo(S, {"wait", "failed"}) /\ UNCHANGED <<rolled, ran>>
  \/ stage = "wait" /\ OnwardTo(S, {"pre_deploy"})
     /\ rolled' = rolled \cup {S[place]} /\ UNCHANGED ran
  \/ stage = "pre_deploy" /\ OnwardTo(S, {"post_deploy"})
     /\ ran' = Append(ran, <<stage, S[place]>>) /\ UNCHANGED rolled
  \/ stage = "post_deploy" /\ OnwardTo(S, {"deployed"})
     /\ ran' = Append(ran, <<stage, S[place]>>) /\ UNCHANGED rolled

OnlyBefore(hooks) == \A i \in 1 .. Len(hooks) : hooks[i][1] = "pre_deploy"
BeforeThenAfter(hooks) ==
  \A i, j \in 1 .. Len(hooks) : i < j /\ hooks[i][1] = "post_deploy" =>
    hooks[j][1] = "post_deploy"
HooksSound(S) ==
  /\ stage \in Stages /\ place \in 1 .. Len(S)
  /\ stage \in Applying => rolled = {}
  /\ stage = "wait" => rolled = UpTo(S, place - 1)
  /\ stage \in Hook \cup {"deployed"} => rolled = These(S)
  /\ ran \in Seq(Hook \X These(S)) /\ (ran # << >> => rolled = These(S))
  /\ stage \in Applying \cup {"wait"} => ran = << >>
  /\ stage = "pre_deploy" => OnlyBefore(ran)
  /\ BeforeThenAfter(ran)

\* A hook run in its phase keeps the hooks in order.
LEMMA HookAppended ==
  ASSUME NEW S, NEW r \in Seq(Hook \X These(S)), NEW h \in Hook, NEW s \in These(S),
         BeforeThenAfter(r), h = "pre_deploy" => OnlyBefore(r)
  PROVE  /\ Append(r, <<h, s>>) \in Seq(Hook \X These(S))
         /\ BeforeThenAfter(Append(r, <<h, s>>))
         /\ h = "pre_deploy" => OnlyBefore(Append(r, <<h, s>>))
<1> DEFINE q == Append(r, <<h, s>>)
<1>1. /\ q \in Seq(Hook \X These(S)) /\ Len(q) = Len(r) + 1 /\ Len(r) \in Nat
      /\ \A i \in 1 .. Len(r) : q[i] = r[i]
      /\ q[Len(r) + 1] = <<h, s>>
  <2>1. <<h, s>> \in Hook \X These(S)
    OBVIOUS
  <2> QED
    BY <2>1
<1>2. \A i \in 1 .. Len(q) : i \in 1 .. Len(r) \/ i = Len(r) + 1
  BY <1>1
<1> HIDE DEF q
<1>3. q[Len(r) + 1][1] = h
  BY <1>1
<1>4. ASSUME NEW i \in 1 .. Len(q), NEW j \in 1 .. Len(q), i < j, q[i][1] = "post_deploy"
      PROVE  q[j][1] = "post_deploy"
  <2>1. i \in 1 .. Len(r)
    BY <1>1, <1>4
  <2>2. h = "post_deploy"
    BY <1>1, <1>4, <2>1 DEF Hook, OnlyBefore
  <2> QED
    BY <1>1, <1>2, <1>3, <1>4, <2>1, <2>2 DEF BeforeThenAfter
<1>5. h = "pre_deploy" => \A i \in 1 .. Len(q) : q[i][1] = "pre_deploy"
  BY <1>1, <1>2, <1>3 DEF OnlyBefore
<1>6. BeforeThenAfter(q) /\ (h = "pre_deploy" => OnlyBefore(q))
  BY <1>4, <1>5 DEF BeforeThenAfter, OnlyBefore
<1> QED
  BY <1>1, <1>6 DEF q

\* The walk over stages and services keeps the hooks and the rollouts in order.
LEMMA MovesKeepHooks ==
  ASSUME NEW S, Len(S) \in Nat \ {0}, HooksSound(S), Moves(S)
  PROVE  HooksSound(S)'
<1> USE DEF Applying, Hook, Stages
<1>0. place \in 1 .. Len(S) /\ ran \in Seq(Hook \X These(S))
  BY DEF HooksSound
<1>1. CASE UNCHANGED <<stage, place, rolled, ran>>
  BY <1>1 DEF HooksSound
<1>2. CASE stage' \in {"secrets", "idle", "failed"} /\ place' = 1 /\ rolled' = {} /\ ran' = << >>
  <2>1. << >> \in Seq(Hook \X These(S)) /\ BeforeThenAfter(<< >>)
    BY DEF BeforeThenAfter
  <2> QED
    BY <1>2, <2>1 DEF HooksSound
<1>3. CASE stage' = "failed" /\ place' = 1 /\ UNCHANGED <<rolled, ran>>
  BY <1>3 DEF HooksSound
<1>4. CASE /\ \/ stage = "secrets" /\ OnwardTo(S, {"configs"})
              \/ stage = "configs" /\ OnwardTo(S, {"workloads"})
              \/ stage = "workloads" /\ OnwardTo(S, {"wait", "failed"})
           /\ UNCHANGED <<rolled, ran>>
  <2>1. rolled' = {} /\ ran' = << >> /\ << >> \in Seq(Hook \X These(S))
    BY <1>4 DEF HooksSound
  <2>2. /\ place' \in 1 .. Len(S) /\ stage' \in Applying \cup {"wait", "failed"}
        /\ stage' = "wait" => place' = 1
    BY <1>0, <1>4 DEF OnwardTo
  <2>3. UpTo(S, 0) = {} /\ BeforeThenAfter(<< >>)
    BY DEF UpTo, BeforeThenAfter
  <2> QED
    BY <2>1, <2>2, <2>3 DEF HooksSound
<1>5. CASE stage = "wait" /\ OnwardTo(S, {"pre_deploy"})
           /\ rolled' = rolled \cup {S[place]} /\ UNCHANGED ran
  <2>1. rolled' = UpTo(S, place) /\ ran' = << >>
    <3>1. rolled = UpTo(S, place - 1) /\ ran = << >>
      BY <1>5 DEF HooksSound
    <3>2. UpTo(S, place - 1) \cup {S[place]} = UpTo(S, place)
      BY <1>0 DEF UpTo
    <3> QED
      BY <1>5, <3>1, <3>2
  <2>2. CASE stage' = stage /\ place < Len(S) /\ place' = place + 1
    <3>1. place' - 1 = place /\ place' \in 1 .. Len(S) /\ stage' = "wait"
      BY <1>0, <1>5, <2>2
    <3>2. rolled' = UpTo(S, place' - 1) /\ ran' = << >> /\ << >> \in Seq(Hook \X These(S))
      BY <2>1, <3>1
    <3>3. BeforeThenAfter(<< >>)
      BY DEF BeforeThenAfter
    <3> QED
      BY <3>1, <3>2, <3>3 DEF HooksSound
  <2>3. CASE stage' = "pre_deploy" /\ place >= Len(S) /\ place' = 1
    <3>1. UpTo(S, place) = These(S)
      BY <1>0, <2>3 DEF UpTo, These
    <3>2. << >> \in Seq(Hook \X These(S)) /\ BeforeThenAfter(<< >>) /\ OnlyBefore(<< >>)
      BY DEF BeforeThenAfter, OnlyBefore
    <3> QED
      BY <2>1, <2>3, <3>1, <3>2 DEF HooksSound
  <2> QED
    BY <1>5, <2>2, <2>3 DEF OnwardTo
<1>6. CASE /\ \/ stage = "pre_deploy" /\ OnwardTo(S, {"post_deploy"})
              \/ stage = "post_deploy" /\ OnwardTo(S, {"deployed"})
           /\ ran' = Append(ran, <<stage, S[place]>>) /\ UNCHANGED rolled
  <2>1. /\ stage \in Hook /\ S[place] \in These(S) /\ rolled' = These(S)
        /\ stage' \in Hook \cup {"deployed"} /\ place' \in 1 .. Len(S)
        /\ stage' = "pre_deploy" => stage = "pre_deploy"
    BY <1>0, <1>6 DEF HooksSound, OnwardTo, These
  <2>2. /\ ran' \in Seq(Hook \X These(S))
        /\ BeforeThenAfter(ran') /\ (stage = "pre_deploy" => OnlyBefore(ran'))
    <3>1. BeforeThenAfter(ran) /\ (stage = "pre_deploy" => OnlyBefore(ran))
      BY DEF HooksSound
    <3> QED
      BY <1>0, <1>6, <2>1, <3>1, HookAppended
  <2> QED
    BY <2>1, <2>2 DEF HooksSound
<1> QED
  BY <1>1, <1>2, <1>3, <1>4, <1>5, <1>6 DEF Moves

Blank == [image |-> 0, checksum |-> 0]
Templates == [image : Nat, checksum : Nat]
PodRecords == [template : Templates, config : Nat, secret : {0, 1}, ready : BOOLEAN]

DeployTypes(S) ==
  /\ ups \in 0 .. MaxUps /\ (stage \in Applying => ups >= 1)
  /\ release \in [These(S) -> [image : Nat \ {0}, config : Nat \ {0}, secret : {1}]]
  /\ \A s \in These(S) : release[s].config <= 1 \/ release[s].config <= ups
  /\ secret \in [These(S) -> {0, 1}] /\ config \in [These(S) -> 0 .. ups]
  /\ template \in [These(S) -> Templates] /\ pods \in [These(S) -> SUBSET PodRecords]
  /\ \A s \in These(S) : \A q \in pods[s] : q.template # Blank /\ q.config \in 1 .. ups

\* What the deployer and the cluster's controllers can do to the objects of a service.
Wanted(s) == [image |-> release[s].image, checksum |-> release[s].config]
Fresh(s) == [template |-> template[s], config |-> config[s], secret |-> secret[s], ready |-> FALSE]
Repods(s) ==
  \E P : /\ pods' = [pods EXCEPT ![s] = P]
         /\ \/ template[s] # Blank /\ config[s] # 0 /\ P \in {{Fresh(s)}, pods[s] \cup {Fresh(s)}}
            \/ P = {}
            \/ \E q \in pods[s] : P = {[q EXCEPT !.ready = TRUE]}
Changes(S) ==
  \/ UNCHANGED <<ups, release, secret, config, template, pods>>
  \/ /\ ups < MaxUps /\ ups' = ups + 1 /\ UNCHANGED <<secret, config, template, pods>>
     /\ release' \in
                [These(S) -> [image : 1 .. (ups + 1), config : 1 .. (ups + 1), secret : {1}]]
     /\ \A s \in These(S) : release'[s].config \in {release[s].config, ups + 1}
  \/ \E s \in These(S) :
       /\ stage \in Applying
       /\ \/ secret' = [secret EXCEPT ![s] = 1] /\ UNCHANGED <<config, template, pods>>
          \/ config' = [config EXCEPT ![s] = release[s].config]
               /\ UNCHANGED <<secret, template, pods>>
          \/ template' = [template EXCEPT ![s] = Wanted(s)] /\ UNCHANGED <<secret, config, pods>>
       /\ UNCHANGED <<ups, release>>
  \/ \E s \in These(S) : Repods(s) /\ UNCHANGED <<ups, release, secret, config, template>>
  \/ /\ template' = [s \in These(S) |-> Blank] \/ template' = template
     /\ pods' = [s \in These(S) |-> {}] \/ pods' = pods
     /\ secret' = [s \in These(S) |-> 0] \/ secret' = secret
     /\ config' = [s \in These(S) |-> 0] \/ config' = config
     /\ UNCHANGED <<ups, release>>

\* The cluster makes pods of what was applied only.
LEMMA PodsOf ==
  ASSUME NEW S, DeployTypes(S), NEW s \in These(S), Repods(s)
  PROVE  /\ pods' \in [These(S) -> SUBSET PodRecords]
         /\ \A t \in These(S) : \A q \in pods'[t] : q.template # Blank /\ q.config \in 1 .. ups
<1>1. /\ template[s] \in Templates /\ config[s] \in 0 .. ups /\ secret[s] \in {0, 1}
           /\ ups \in Nat
      /\ pods \in [These(S) -> SUBSET PodRecords]
      /\ \A t \in These(S) : \A q \in pods[t] : q.template # Blank /\ q.config \in 1 .. ups
  BY DEF DeployTypes
<1>2. PICK P :
        /\ pods' = [pods EXCEPT ![s] = P]
        /\ \/ template[s] # Blank /\ config[s] # 0 /\ P \in {{Fresh(s)}, pods[s] \cup {Fresh(s)}}
           \/ P = {}
           \/ \E q \in pods[s] : P = {[q EXCEPT !.ready = TRUE]}
  BY DEF Repods
<1>3. Fresh(s) \in PodRecords /\ Fresh(s).template = template[s] /\ Fresh(s).config = config[s]
  BY <1>1 DEF Fresh, PodRecords
<1>4. ASSUME NEW q \in pods[s]
      PROVE  /\ [q EXCEPT !.ready = TRUE] \in PodRecords
             /\ [q EXCEPT !.ready = TRUE].template = q.template
             /\ [q EXCEPT !.ready = TRUE].config = q.config
  <2>1. q \in [template : Templates, config : Nat, secret : {0, 1}, ready : BOOLEAN]
    BY <1>1 DEF PodRecords
  <2> QED
    BY <2>1 DEF PodRecords
<1>5. P \subseteq PodRecords /\ \A q \in P : q.template # Blank /\ q.config \in 1 .. ups
  <2>1. CASE template[s] # Blank /\ config[s] # 0 /\ P \in {{Fresh(s)}, pods[s] \cup {Fresh(s)}}
    <3>1. Fresh(s).template # Blank /\ Fresh(s).config \in 1 .. ups
      BY <1>1, <1>3, <2>1
    <3> QED
      BY <1>1, <1>3, <2>1, <3>1
  <2>2. CASE P = {}
    BY <2>2
  <2>3. CASE \E q \in pods[s] : P = {[q EXCEPT !.ready = TRUE]}
    BY <1>1, <1>4, <2>3
  <2> QED
    BY <1>2, <2>1, <2>2, <2>3
<1> QED
  BY <1>1, <1>2, <1>5

\* A step of the deployer or the cluster keeps the types.
LEMMA TypesKept ==
  ASSUME NEW S, DeployTypes(S), MaxUps \in Nat, Changes(S),
         stage' \in Applying => stage \in Applying \/ ups' = ups + 1
  PROVE  DeployTypes(S)'
<1>1. ups \in Nat
  BY DEF DeployTypes
<1>2. CASE UNCHANGED <<ups, release, secret, config, template, pods>>
  BY <1>1, <1>2 DEF DeployTypes
<1>3. CASE /\ ups < MaxUps /\ ups' = ups + 1 /\ UNCHANGED <<secret, config, template, pods>>
           /\ release' \in
                [These(S) -> [image : 1 .. (ups + 1), config : 1 .. (ups + 1), secret : {1}]]
  <2>1. release' \in [These(S) -> [image : Nat \ {0}, config : Nat \ {0}, secret : {1}]]
        /\ \A s \in These(S) : release'[s].config <= ups'
    BY <1>1, <1>3
  <2>2. config' \in [These(S) -> 0 .. ups'] /\ ups' \in 0 .. MaxUps
    BY <1>1, <1>3 DEF DeployTypes
  <2> QED
    BY <1>1, <1>3, <2>1, <2>2 DEF DeployTypes
<1>4. ASSUME NEW s \in These(S), stage \in Applying, UNCHANGED <<ups, release>>,
             \/ secret' = [secret EXCEPT ![s] = 1] /\ UNCHANGED <<config, template, pods>>
             \/ config' = [config EXCEPT ![s] = release[s].config]
                  /\ UNCHANGED <<secret, template, pods>>
             \/ template' = [template EXCEPT ![s] = Wanted(s)]
                  /\ UNCHANGED <<secret, config, pods>>
      PROVE  DeployTypes(S)'
  <2>1. release[s].config \in 0 .. ups /\ Wanted(s) \in Templates
    BY <1>1, <1>4 DEF DeployTypes, Wanted, Templates
  <2>2. /\ secret' \in [These(S) -> {0, 1}] /\ config' \in [These(S) -> 0 .. ups]
        /\ template' \in [These(S) -> Templates] /\ pods' = pods
    BY <1>4, <2>1 DEF DeployTypes
  <2> QED
    BY <1>4, <2>2 DEF DeployTypes
<1>5. ASSUME NEW s \in These(S), Repods(s), UNCHANGED <<ups, release, secret, config, template>>
      PROVE  DeployTypes(S)'
  BY <1>1, <1>5, PodsOf DEF DeployTypes
<1>6. CASE /\ template' = [s \in These(S) |-> Blank] \/ template' = template
           /\ pods' = [s \in These(S) |-> {}] \/ pods' = pods
           /\ secret' = [s \in These(S) |-> 0] \/ secret' = secret
           /\ config' = [s \in These(S) |-> 0] \/ config' = config
           /\ UNCHANGED <<ups, release>>
  <2>1. Blank \in Templates
    BY DEF Blank, Templates
  <2>2. /\ secret' \in [These(S) -> {0, 1}] /\ config' \in [These(S) -> 0 .. ups]
        /\ template' \in [These(S) -> Templates] /\ pods' \in [These(S) -> SUBSET PodRecords]
        /\ \A s \in These(S) : \A q \in pods'[s] : q.template # Blank /\ q.config \in 1 .. ups
    BY <1>1, <1>6, <2>1 DEF DeployTypes
  <2> QED
    BY <1>1, <1>6, <2>2 DEF DeployTypes
<1> QED
  BY <1>2, <1>3, <1>4, <1>5, <1>6 DEF Changes

\* The deployer of S, and whether it is also taken down.
DeployOf(S, d) == INSTANCE K8sDeploy WITH
  release <- v1, ups <- v2, downs <- v3, evictions <- v4, pc <- v5, at <- v6,
  failed <- v7, rolled <- v8, ran <- v9, namespace <- v10, secret <- v11,
  config <- v12, template <- v13, pods <- v14,
  Services <- S, Recreated <- Claimed, Secretive <- WithSecrets,
  Preserved <- d, Strict <- d, Refusals <- d, MaxDowns <- IF d THEN MaxDowns ELSE 0

\* Every step of a deploy or a teardown is a move of the walk and such a change.
LEMMA DeployerSteps ==
  ASSUME NEW S, NEW d, Len(S) \in Nat \ {0}, MaxUps \in Nat,
         DeployTypes(S), HooksSound(S), DeployOf(S, d)!Next
  PROVE  /\ Moves(S) /\ Changes(S) /\ (downs' = downs \/ d \/ downs < 0)
         /\ stage' \in Applying => stage \in Applying \/ ups' = ups + 1
<1> USE DEF release, ups, downs, stage, place, rolled, ran, secret, config, template, pods,
            Applying
<1>0. /\ DeployOf(S, d)!Svc = These(S) /\ Len(S) \in Nat \ {0} /\ MaxUps \in Nat
      /\ place \in 1 .. Len(S) /\ S[place] \in These(S)
      /\ DeployOf(S, d)!NoTemplate = Blank
  <2>1. place \in 1 .. Len(S)
    BY DEF HooksSound
  <2> QED
    BY <2>1 DEF DeployOf!Svc, These, Blank, DeployOf!NoTemplate, DeployOf!NoVersion
<1>1. /\ ups \in Nat
      /\ release \in [These(S) -> [image : Nat \ {0}, config : Nat \ {0}, secret : {1}]]
      /\ secret \in [These(S) -> {0, 1}]
      /\ config \in [These(S) -> 0 .. ups]
      /\ pods \in [These(S) -> SUBSET PodRecords]
  BY DEF DeployTypes
<1>2. CASE DeployOf(S, d)!Up
  <2>1. PICK r \in [These(S) ->
                     [image : 1 .. (ups + 1), config : 1 .. (ups + 1), secret : {1}]] :
          DeployOf(S, d)!Edited(r) /\ release' = r
    BY <1>0, <1>2 DEF DeployOf!Up
  <2>2. \A s \in These(S) : release'[s].config \in {release[s].config, ups + 1}
    BY <1>0, <2>1 DEF DeployOf!Edited
  <2>3. Changes(S) /\ ups' = ups + 1
    BY <1>2, <2>1, <2>2 DEF DeployOf!Up, Changes
  <2> QED
    BY <1>2, <2>3 DEF DeployOf!Up, DeployOf!FirstStep, Moves
<1>3. CASE DeployOf(S, d)!Throw /\ UNCHANGED DeployOf(S, d)!cluster
  BY <1>3 DEF DeployOf!Throw, DeployOf!Go, DeployOf!cluster, Moves, Changes
<1>4. CASE DeployOf(S, d)!ApplySecret
  <2>1. CASE DeployOf(S, d)!Throw /\ UNCHANGED secret
    BY <1>3, <1>4, <2>1 DEF DeployOf!ApplySecret, DeployOf!cluster
  <2>2. CASE /\ secret' = [secret EXCEPT ![S[place]] =
                             IF S[place] \in WithSecrets
                             THEN release[S[place]].secret ELSE @]
             /\ DeployOf(S, d)!Advance("configs")
                  /\ UNCHANGED <<release, ups, downs, v7, rolled, ran>>
    <3>1. release[S[place]].secret = 1
      BY <1>0, <1>1
    <3>2. secret' = [secret EXCEPT ![S[place]] = 1] \/ secret' = secret
      BY <1>0, <1>1, <2>2, <3>1
    <3>3. Changes(S)
      BY <1>0, <1>4, <2>2, <3>2 DEF DeployOf!ApplySecret, Changes
    <3> QED
      BY <1>0, <1>4, <2>2, <3>3 DEF DeployOf!ApplySecret, DeployOf!Advance, DeployOf!Go,
         Moves, OnwardTo
  <2> QED
    BY <1>4, <2>1, <2>2 DEF DeployOf!ApplySecret
<1>5. CASE DeployOf(S, d)!ApplyConfig
  <2>1. Changes(S)
    BY <1>0, <1>5 DEF DeployOf!ApplyConfig, Changes
  <2> QED
    BY <1>0, <1>5, <2>1 DEF DeployOf!ApplyConfig, DeployOf!Advance, DeployOf!Go, Moves, OnwardTo
<1>6. CASE DeployOf(S, d)!ApplyWorkload
  <2>1. Changes(S)
    BY <1>0, <1>6 DEF DeployOf!ApplyWorkload, Changes, DeployOf!Template, Wanted
  <2> QED
    BY <1>0, <1>6, <2>1 DEF DeployOf!ApplyWorkload, DeployOf!Advance, DeployOf!Go,
       DeployOf!AfterApply, Moves, OnwardTo
<1>7. CASE DeployOf(S, d)!WaitFor
  <2>1. CASE DeployOf(S, d)!Throw
    BY <1>3, <1>7, <2>1 DEF DeployOf!WaitFor
  <2>2. CASE ~DeployOf(S, d)!Throw
    BY <1>0, <1>7, <2>2 DEF DeployOf!WaitFor, DeployOf!Advance, DeployOf!Go,
       DeployOf!cluster, Moves, OnwardTo, Changes
  <2> QED
    BY <2>1, <2>2
<1>8. CASE DeployOf(S, d)!RunHook
  <2>1. CASE DeployOf(S, d)!Throw
    BY <1>3, <1>8, <2>1 DEF DeployOf!RunHook
  <2>2. CASE ~DeployOf(S, d)!Throw
    BY <1>0, <1>8, <2>2 DEF DeployOf!RunHook, DeployOf!AfterHook, DeployOf!Advance,
       DeployOf!Go, DeployOf!cluster, Moves, OnwardTo, Changes
  <2> QED
    BY <2>1, <2>2
<1>9. CASE DeployOf(S, d)!Killed
  BY <1>3, <1>9 DEF DeployOf!Killed
<1>10. CASE DeployOf(S, d)!Down
  <2>1. /\ template' = [s \in These(S) |-> Blank] \/ template' = template
        /\ pods' = [s \in These(S) |-> {}] \/ pods' = pods
        /\ secret' = [s \in These(S) |-> 0] \/ secret' = secret
        /\ config' = [s \in These(S) |-> 0] \/ config' = config
    BY <1>0, <1>10 DEF DeployOf!Down, DeployOf!Delete, DeployOf!NoVersion, DeployOf!cluster
  <2>2. stage' \in {"idle", "failed"} /\ place' = 1
    BY <1>10 DEF DeployOf!Down, DeployOf!Go, DeployOf!DownEnd
  <2> QED
    BY <1>10, <2>1, <2>2 DEF DeployOf!Down, Moves, Changes
<1>11. ASSUME NEW s \in These(S),
              DeployOf(S, d)!StartPod(s) \/ DeployOf(S, d)!PodReady(s) \/ DeployOf(S, d)!Evict(s)
       PROVE  /\ UNCHANGED <<release, ups, downs, stage, place, rolled, ran, secret,
                             config, template>>
              /\ Repods(s)
  <2>1. UNCHANGED <<release, ups, downs, stage, place, rolled, ran, secret, config, template>>
    BY <1>11 DEF DeployOf!StartPod, DeployOf!PodReady, DeployOf!Evict, DeployOf!deployer
  <2>2. DeployOf(S, d)!Pod(s) = Fresh(s)
    BY DEF DeployOf!Pod, Fresh
  <2>3. Repods(s)
    <3> DEFINE P1 == (IF s \in Claimed THEN {} ELSE pods[s]) \cup {Fresh(s)}
               P2 == IF config[s] = 0 THEN {} ELSE {Fresh(s)}
    <3>1. CASE DeployOf(S, d)!StartPod(s)
      <4>1. pods' = [pods EXCEPT ![s] = P1] /\ template[s] # Blank /\ config[s] # 0
        BY <1>0, <2>2, <3>1 DEF DeployOf!StartPod, DeployOf!NoVersion
      <4>2. P1 \in {{Fresh(s)}, pods[s] \cup {Fresh(s)}}
        OBVIOUS
      <4> HIDE DEF P1
      <4> QED
        BY <4>1, <4>2 DEF Repods
    <3>2. CASE DeployOf(S, d)!PodReady(s)
      <4>1. PICK q \in pods[s] : pods' = [pods EXCEPT ![s] = {[q EXCEPT !.ready = TRUE]}]
        BY <3>2 DEF DeployOf!PodReady, DeployOf!Current
      <4> QED
        BY <4>1 DEF Repods
    <3>3. CASE DeployOf(S, d)!Evict(s)
      <4>1. pods' = [pods EXCEPT ![s] = P2] /\ template[s] # Blank
        BY <1>0, <2>2, <3>3 DEF DeployOf!Evict, DeployOf!NoVersion
      <4>2. P2 = {} \/ (config[s] # 0 /\ P2 = {Fresh(s)})
        OBVIOUS
      <4> HIDE DEF P2
      <4> QED
        BY <4>1, <4>2 DEF Repods
    <3> QED
      BY <1>11, <3>1, <3>2, <3>3
  <2> QED
    BY <2>1, <2>3
<1>12. CASE \E s \in DeployOf(S, d)!Svc :
              DeployOf(S, d)!StartPod(s) \/ DeployOf(S, d)!PodReady(s) \/ DeployOf(S, d)!Evict(s)
  BY <1>0, <1>11, <1>12 DEF Moves, Changes
<1> QED
  BY <1>2, <1>4, <1>5, <1>6, <1>7, <1>8, <1>9, <1>10, <1>12 DEF DeployOf!Next, DeployOf!Deployer

\* The deploys and the teardowns are instances of the same walk.
LEMMA DeployedIsOne == Deployed!Next => DeployOf(DeployOrder, FALSE)!Next
  BY DEF Deployed!Next, Deployed!Up, Deployed!Edited, Deployed!FirstStep,
     Deployed!Deployer, Deployed!ApplySecret, Deployed!ApplyConfig,
     Deployed!ApplyWorkload, Deployed!WaitFor, Deployed!RunHook, Deployed!Killed,
     Deployed!Down, Deployed!StartPod, Deployed!PodReady, Deployed!Evict, Deployed!Go,
     Deployed!Advance, Deployed!Throw, Deployed!Template, Deployed!AfterApply,
     Deployed!RolledOut, Deployed!AfterHook, Deployed!Kinds, Deployed!Delete,
     Deployed!DownEnd, Deployed!Pod, Deployed!Current, Deployed!Busy, Deployed!Svc,
     Deployed!NoVersion, Deployed!NoTemplate, Deployed!deployer, Deployed!cluster,
     DeployOf!Next, DeployOf!Up, DeployOf!Edited, DeployOf!FirstStep, DeployOf!Deployer,
     DeployOf!ApplySecret, DeployOf!ApplyConfig, DeployOf!ApplyWorkload,
     DeployOf!WaitFor, DeployOf!RunHook, DeployOf!Killed, DeployOf!Down,
     DeployOf!StartPod, DeployOf!PodReady, DeployOf!Evict, DeployOf!Go,
     DeployOf!Advance, DeployOf!Throw, DeployOf!Template, DeployOf!AfterApply,
     DeployOf!RolledOut, DeployOf!AfterHook, DeployOf!Kinds, DeployOf!Delete,
     DeployOf!DownEnd, DeployOf!Pod, DeployOf!Current, DeployOf!Busy, DeployOf!Svc,
     DeployOf!NoVersion, DeployOf!NoTemplate, DeployOf!deployer, DeployOf!cluster

\* The teardowns are.
LEMMA DownedIsOne == Downed!Next => DeployOf(DownOrder, TRUE)!Next
  BY DEF Downed!Next, Downed!Up, Downed!Edited, Downed!FirstStep, Downed!Deployer,
     Downed!ApplySecret, Downed!ApplyConfig, Downed!ApplyWorkload, Downed!WaitFor,
     Downed!RunHook, Downed!Killed, Downed!Down, Downed!StartPod, Downed!PodReady,
     Downed!Evict, Downed!Go, Downed!Advance, Downed!Throw, Downed!Template,
     Downed!AfterApply, Downed!RolledOut, Downed!AfterHook, Downed!Kinds, Downed!Delete,
     Downed!DownEnd, Downed!Pod, Downed!Current, Downed!Busy, Downed!Svc,
     Downed!NoVersion, Downed!NoTemplate, Downed!deployer, Downed!cluster,
     DeployOf!Next, DeployOf!Up, DeployOf!Edited, DeployOf!FirstStep, DeployOf!Deployer,
     DeployOf!ApplySecret, DeployOf!ApplyConfig, DeployOf!ApplyWorkload,
     DeployOf!WaitFor, DeployOf!RunHook, DeployOf!Killed, DeployOf!Down,
     DeployOf!StartPod, DeployOf!PodReady, DeployOf!Evict, DeployOf!Go,
     DeployOf!Advance, DeployOf!Throw, DeployOf!Template, DeployOf!AfterApply,
     DeployOf!RolledOut, DeployOf!AfterHook, DeployOf!Kinds, DeployOf!Delete,
     DeployOf!DownEnd, DeployOf!Pod, DeployOf!Current, DeployOf!Busy, DeployOf!Svc,
     DeployOf!NoVersion, DeployOf!NoTemplate, DeployOf!deployer, DeployOf!cluster

\* How far a deploy has come with a service.
Visited(s) == \E i \in 1 .. (place - 1) : s = DeployOrder[i]
Passed(step, later, s) == stage \in later \/ (stage = step /\ Visited(s))
AfterWait == Hook \cup {"deployed"}
AfterWorkloads == AfterWait \cup {"wait"}
AfterConfigs == AfterWorkloads \cup {"workloads"}
AfterSecrets == AfterConfigs \cup {"configs"}
SecretIsThere(s) == Passed("secrets", AfterSecrets, s)
ConfigIsThere(s) == Passed("configs", AfterConfigs, s)
TemplateIsThere(s) == Passed("workloads", AfterWorkloads, s)
IsRolledOut(s) == Passed("wait", AfterWait, s)

\* A pod never reads files older than its template asks for, which are never newer
\* than the release; and what the deploy has been through is as released.
FilesInOrder(s) ==
  /\ template[s].checksum <= config[s] /\ config[s] <= release[s].config
  /\ \A q \in pods[s] : q.template.checksum <= q.config /\ q.config <= config[s]
SecretsInOrder(s) ==
  s \in WithSecrets =>
    /\ SecretIsThere(s) \/ template[s] # Blank => secret[s] = 1
    /\ \A q \in pods[s] : q.secret = 1
StepsInOrder(s) ==
  /\ ConfigIsThere(s) => config[s] = release[s].config
  /\ TemplateIsThere(s) => template[s] = Wanted(s)
  /\ IsRolledOut(s) => \E q \in pods[s] : pods[s] = {q} /\ q.template = template[s]
ServiceSound(s) == FilesInOrder(s) /\ SecretsInOrder(s) /\ StepsInOrder(s)

DeployInv ==
  /\ DeployTypes(DeployOrder) /\ HooksSound(DeployOrder) /\ downs = 0
  /\ \A s \in These(DeployOrder) : ServiceSound(s)

\* What is said of the services before the current one is gained one by one.
LEMMA DeployGoesInOrder ==
  ASSUME HooksSound(DeployOrder), Moves(DeployOrder), NEW s \in These(DeployOrder)
  PROVE  /\ SecretIsThere(s)' => SecretIsThere(s) \/ (stage = "secrets" /\ s = DeployOrder[place])
         /\ ConfigIsThere(s)' => ConfigIsThere(s) \/ (stage = "configs" /\ s = DeployOrder[place])
         /\ TemplateIsThere(s)' => TemplateIsThere(s) \/ (stage = "workloads"
              /\ s = DeployOrder[place])
         /\ IsRolledOut(s)' => IsRolledOut(s) \/ (stage = "wait" /\ s = DeployOrder[place])
<1> USE DEF SecretIsThere, ConfigIsThere, TemplateIsThere, IsRolledOut, Passed, AfterSecrets,
            AfterConfigs, AfterWorkloads, AfterWait, Hook
<1>1. place \in 1 .. Len(DeployOrder) /\ Len(DeployOrder) \in Nat
  BY ReleaseAssumptions DEF HooksSound, Deployed!DeployAssumption
<1>2. place' = 1 => ~Visited(s)'
  BY DEF Visited
<1>3. place' = place + 1 => (Visited(s)' => Visited(s) \/ s = DeployOrder[place])
  BY <1>1 DEF Visited
<1>4. place >= Len(DeployOrder) => Visited(s) \/ s = DeployOrder[place]
  BY <1>1 DEF Visited, These
<1>5. CASE UNCHANGED <<stage, place, rolled, ran>>
  BY <1>5 DEF Visited
<1>6. CASE stage' \in {"secrets", "idle", "failed"} /\ place' = 1
  BY <1>2, <1>6
<1>7. CASE stage = "secrets" /\ OnwardTo(DeployOrder, {"configs"})
  BY <1>2, <1>3, <1>4, <1>7 DEF OnwardTo
<1>8. CASE stage = "configs" /\ OnwardTo(DeployOrder, {"workloads"})
  BY <1>2, <1>3, <1>4, <1>8 DEF OnwardTo
<1>9. CASE stage = "workloads" /\ OnwardTo(DeployOrder, {"wait", "failed"})
  BY <1>2, <1>3, <1>4, <1>9 DEF OnwardTo
<1>10. CASE stage = "wait" /\ OnwardTo(DeployOrder, {"pre_deploy"})
  BY <1>2, <1>3, <1>4, <1>10 DEF OnwardTo
<1>11. CASE stage = "pre_deploy" /\ OnwardTo(DeployOrder, {"post_deploy"})
  BY <1>2, <1>3, <1>4, <1>11 DEF OnwardTo
<1>12. CASE stage = "post_deploy" /\ OnwardTo(DeployOrder, {"deployed"})
  BY <1>2, <1>3, <1>4, <1>12 DEF OnwardTo
<1> QED
  BY <1>5, <1>6, <1>7, <1>8, <1>9, <1>10, <1>11, <1>12 DEF Moves

\* The cluster, which starts, readies and evicts pods, keeps a service sound.
LEMMA PodsStaySound ==
  ASSUME DeployInv, NEW s \in These(DeployOrder), NEW t \in These(DeployOrder),
         UNCHANGED <<release, stage, place, secret, config, template>>,
         Deployed!StartPod(s) \/ Deployed!PodReady(s) \/ Deployed!Evict(s)
  PROVE  ServiceSound(t)'
<1>1. /\ ServiceSound(t) /\ ups \in Nat /\ pods \in [These(DeployOrder) -> SUBSET PodRecords]
      /\ config[t] \in Nat /\ release[t].config \in Nat \ {0} /\ template[t] \in Templates
      /\ Deployed!NoTemplate = Blank /\ Deployed!Pod(t) = Fresh(t)
  BY DEF DeployInv, DeployTypes, Deployed!NoTemplate, Deployed!NoVersion, Blank,
     Deployed!Pod, Fresh, template, config, secret
<1>2. IsRolledOut(t) => ConfigIsThere(t)
  BY DEF IsRolledOut, ConfigIsThere, Passed, AfterConfigs, AfterWorkloads
<1>3. /\ SecretIsThere(t)' <=> SecretIsThere(t)
      /\ ConfigIsThere(t)' <=> ConfigIsThere(t)
      /\ TemplateIsThere(t)' <=> TemplateIsThere(t)
      /\ IsRolledOut(t)' <=> IsRolledOut(t)
  BY DEF SecretIsThere, ConfigIsThere, TemplateIsThere, IsRolledOut, Passed, Visited
<1>4. ASSUME \A q \in pods'[t] :
               /\ q.template.checksum <= q.config /\ q.config <= config[t]
               /\ t \in WithSecrets => q.secret = 1,
             IsRolledOut(t) => \E q \in pods'[t] : pods'[t] = {q} /\ q.template = template[t]
      PROVE  ServiceSound(t)'
  BY <1>1, <1>3, <1>4 DEF ServiceSound, FilesInOrder, SecretsInOrder, StepsInOrder, Wanted
<1>5. template[t] # Blank => /\ Fresh(t).template = template[t] /\ Fresh(t).config = config[t]
                             /\ Fresh(t).template.checksum <= Fresh(t).config
                             /\ t \in WithSecrets => Fresh(t).secret = 1
  BY <1>1 DEF Fresh, ServiceSound, FilesInOrder, SecretsInOrder
<1>6. CASE t # s
  <2>1. pods'[t] = pods[t]
    BY <1>1, <1>6 DEF Deployed!StartPod, Deployed!PodReady, Deployed!Evict, pods
  <2> QED
    BY <1>1, <1>4, <2>1 DEF ServiceSound, FilesInOrder, SecretsInOrder, StepsInOrder
<1>7. CASE t = s /\ Deployed!StartPod(t)
  <2>1. pods'[t] = (IF t \in Claimed THEN {} ELSE pods[t]) \cup {Fresh(t)} /\ template[t] # Blank
    BY <1>1, <1>7 DEF Deployed!StartPod, pods, template
  <2>2. ~IsRolledOut(t)
    BY <1>1, <1>7 DEF Deployed!StartPod, Deployed!Current, ServiceSound, StepsInOrder,
       pods, template
  <2>3. \A q \in pods'[t] : q \in pods[t] \/ q = Fresh(t)
    BY <2>1
  <2>4. config[t] <= config[t]
    BY <1>1
  <2> QED
    BY <1>1, <1>4, <1>5, <2>1, <2>2, <2>3, <2>4 DEF ServiceSound, FilesInOrder, SecretsInOrder
<1>8. CASE t = s /\ Deployed!PodReady(t)
  <2>1. PICK q \in pods[t] : q.template = template[t]
               /\ pods' = [pods EXCEPT ![t] = {[q EXCEPT !.ready = TRUE]}]
    BY <1>8 DEF Deployed!PodReady, Deployed!Current, pods, template
  <2> DEFINE r == [q EXCEPT !.ready = TRUE]
  <2>2. pods'[t] = {r}
    BY <1>1, <2>1
  <2>3. q \in [template : Templates, config : Nat, secret : {0, 1}, ready : BOOLEAN]
    BY <1>1 DEF PodRecords
  <2>4. r.template = q.template /\ r.config = q.config /\ r.secret = q.secret
    BY <2>3
  <2> HIDE DEF r
  <2> QED
    BY <1>1, <1>4, <2>1, <2>2, <2>4 DEF ServiceSound, FilesInOrder, SecretsInOrder
<1>9. CASE t = s /\ Deployed!Evict(t)
  <2>1. pods'[t] = (IF config[t] = 0 THEN {} ELSE {Fresh(t)}) /\ template[t] # Blank
    BY <1>1, <1>9 DEF Deployed!Evict, Deployed!NoVersion, pods, config, template
  <2>2. IsRolledOut(t) => config[t] # 0
    BY <1>1, <1>2 DEF ServiceSound, StepsInOrder
  <2>3. config[t] <= config[t] /\ \A q \in pods'[t] : q = Fresh(t)
    BY <1>1, <2>1
  <2>4. IsRolledOut(t) => \E q \in pods'[t] : pods'[t] = {q} /\ q.template = template[t]
    BY <1>5, <2>1, <2>2
  <2> QED
    BY <1>4, <1>5, <2>1, <2>3, <2>4
<1> QED
  BY <1>6, <1>7, <1>8, <1>9

\* A step that leaves the pods of a service alone.
LEMMA DeployStaysSound ==
  ASSUME DeployInv, Moves(DeployOrder), NEW t \in These(DeployOrder), pods' = pods,
         release'[t].config >= release[t].config,
         release'[t].config \in Nat, config'[t] \in Nat,
         secret'[t] \in {1, secret[t]},
         config'[t] \in {config[t], release'[t].config},
         template'[t] = template[t] \/ (template'[t] = Wanted(t) /\ ConfigIsThere(t)
           /\ SecretIsThere(t) /\ UNCHANGED config),
         SecretIsThere(t)' => SecretIsThere(t) \/ t \notin WithSecrets \/ secret'[t] = 1,
         ConfigIsThere(t)' => release'[t] = release[t] /\ (ConfigIsThere(t)
           \/ config'[t] = release[t].config),
         TemplateIsThere(t)' => release'[t] = release[t] /\ (TemplateIsThere(t)
           \/ template'[t] = Wanted(t)),
         IsRolledOut(t)' => UNCHANGED template /\ (IsRolledOut(t)
           \/ \E q \in pods[t] : pods[t] = {q} /\ q.template = template[t])
  PROVE  ServiceSound(t)'
<1>1. /\ ServiceSound(t) /\ config[t] \in Nat /\ release[t].config \in Nat \ {0}
      /\ template[t] \in Templates
      /\ \A q \in pods[t] : q.config \in Nat /\ q.template.checksum \in Nat
  BY DEF DeployInv, DeployTypes, PodRecords, Templates
<1>2. config'[t] >= config[t] /\ config'[t] <= release'[t].config
  BY <1>1 DEF ServiceSound, FilesInOrder
<1>3. FilesInOrder(t)'
  <2>1. template'[t].checksum <= config'[t]
    <3>1. CASE template'[t] = template[t]
      BY <1>1, <1>2, <3>1 DEF ServiceSound, FilesInOrder, Templates
    <3>2. CASE template'[t] = Wanted(t) /\ ConfigIsThere(t) /\ config' = config
      BY <1>1, <3>2 DEF ServiceSound, StepsInOrder, Wanted
    <3> QED
      BY <3>1, <3>2
  <2>2. \A q \in pods[t] : q.template.checksum <= q.config /\ q.config <= config'[t]
    BY <1>1, <1>2 DEF ServiceSound, FilesInOrder
  <2> QED
    BY <1>2, <2>1, <2>2 DEF FilesInOrder
<1>4. SecretsInOrder(t)'
  BY <1>1 DEF ServiceSound, SecretsInOrder
<1>5. StepsInOrder(t)'
  BY <1>1 DEF ServiceSound, StepsInOrder, Wanted
<1> QED
  BY <1>3, <1>4, <1>5 DEF ServiceSound

\* Every step of a deploy keeps each service sound.
LEMMA ServicesStaySound ==
  ASSUME DeployInv, Deployed!Next, Moves(DeployOrder), NEW t \in These(DeployOrder)
  PROVE  ServiceSound(t)'
<1> USE DEF release, ups, downs, stage, place, rolled, ran, secret, config, template
<1>0. /\ Deployed!Svc = These(DeployOrder) /\ place \in 1 .. Len(DeployOrder)
      /\ DeployOrder[place] \in These(DeployOrder)
  BY DEF DeployInv, HooksSound, Deployed!Svc, These
<1>1. /\ ups \in Nat
      /\ release \in [These(DeployOrder) -> [image : Nat \ {0}, config : Nat \ {0}, secret : {1}]]
      /\ secret \in [These(DeployOrder) -> {0, 1}]
      /\ config \in [These(DeployOrder) -> 0 .. ups]
      /\ template \in [These(DeployOrder) -> Templates]
      /\ release[t].config <= 1 \/ release[t].config <= ups
      /\ ServiceSound(t)
  BY DEF DeployInv, DeployTypes
<1>2. /\ release[t].config \in Nat /\ config[t] \in Nat /\ release[t].config >= release[t].config
      /\ release[t].secret = 1
  BY <1>1
<1>3. /\ SecretIsThere(t)' => SecretIsThere(t) \/ (stage = "secrets" /\ t = DeployOrder[place])
      /\ ConfigIsThere(t)' => ConfigIsThere(t) \/ (stage = "configs" /\ t = DeployOrder[place])
      /\ TemplateIsThere(t)' => TemplateIsThere(t) \/ (stage = "workloads"
           /\ t = DeployOrder[place])
      /\ IsRolledOut(t)' => IsRolledOut(t) \/ (stage = "wait" /\ t = DeployOrder[place])
  BY DeployGoesInOrder DEF DeployInv
<1>4. ASSUME stage' = "failed" \/ (stage' = "secrets" /\ place' = 1)
      PROVE  ~SecretIsThere(t)' /\ ~ConfigIsThere(t)' /\ ~TemplateIsThere(t)' /\ ~IsRolledOut(t)'
  BY <1>4 DEF SecretIsThere, ConfigIsThere, TemplateIsThere, IsRolledOut, Passed,
     Visited, AfterSecrets, AfterConfigs, AfterWorkloads, AfterWait, Hook
<1>5. /\ stage = "secrets" => ~ConfigIsThere(t) /\ ~TemplateIsThere(t) /\ ~IsRolledOut(t)
      /\ stage = "configs" => ~TemplateIsThere(t) /\ ~IsRolledOut(t)
      /\ stage = "workloads" => SecretIsThere(t) /\ ConfigIsThere(t) /\ ~IsRolledOut(t)
  BY DEF SecretIsThere, ConfigIsThere, TemplateIsThere, IsRolledOut, Passed,
     AfterSecrets, AfterConfigs, AfterWorkloads, AfterWait, Hook
<1>6. CASE Deployed!Up
  <2>1. /\ stage' = "secrets" /\ place' = 1 /\ UNCHANGED <<secret, config, template, pods>>
        /\ \A s \in These(DeployOrder) : release'[s].config \in {release[s].config, ups + 1}
    BY <1>0, <1>6 DEF Deployed!Up, Deployed!Edited, Deployed!FirstStep, pods
  <2>2. release'[t].config \in Nat /\ release'[t].config >= release[t].config
    BY <1>1, <1>2, <2>1
  <2> QED
    BY <1>2, <1>4, <2>1, <2>2, DeployStaysSound
<1>7. CASE Deployed!Throw /\ UNCHANGED Deployed!cluster
  <2>1. stage' = "failed" /\ UNCHANGED <<release, secret, config, template, pods>>
    BY <1>7 DEF Deployed!Throw, Deployed!Go, Deployed!cluster, pods
  <2> QED
    BY <1>2, <1>4, <2>1, DeployStaysSound
<1>8. CASE Deployed!ApplySecret
  <2>1. /\ stage = "secrets" /\ UNCHANGED <<release, config, template, pods>>
    BY <1>8 DEF Deployed!ApplySecret, Deployed!Throw, pods
  <2>2. CASE Deployed!Throw /\ UNCHANGED secret
    BY <1>7, <2>1, <2>2, <1>8 DEF Deployed!cluster, Deployed!ApplySecret, pods
  <2>3. CASE secret' = [secret EXCEPT ![DeployOrder[place]] =
                          IF DeployOrder[place] \in WithSecrets
                          THEN release[DeployOrder[place]].secret ELSE @]
    <3>1. secret'[t] = IF t = DeployOrder[place] /\ t \in WithSecrets THEN 1 ELSE secret[t]
      BY <1>0, <1>1, <1>2, <2>3
    <3> QED
      BY <1>2, <1>3, <1>5, <2>1, <3>1, DeployStaysSound
  <2> QED
    BY <1>8, <2>2, <2>3 DEF Deployed!ApplySecret
<1>9. CASE Deployed!ApplyConfig
  <2>1. /\ stage = "configs" /\ UNCHANGED <<release, secret, template, pods>>
        /\ config' = [config EXCEPT ![DeployOrder[place]] = release[DeployOrder[place]].config]
    BY <1>9 DEF Deployed!ApplyConfig, pods
  <2>2. config'[t] = IF t = DeployOrder[place] THEN release[t].config ELSE config[t]
    BY <1>0, <1>1, <2>1
  <2> QED
    BY <1>2, <1>3, <1>5, <2>1, <2>2, DeployStaysSound
<1>10. CASE Deployed!ApplyWorkload
  <2>1. /\ stage = "workloads" /\ UNCHANGED <<release, secret, config, pods>>
        /\ template' = [template EXCEPT ![DeployOrder[place]] = Wanted(DeployOrder[place])]
    BY <1>10 DEF Deployed!ApplyWorkload, Deployed!Template, Wanted, pods
  <2>2. template'[t] = IF t = DeployOrder[place] THEN Wanted(t) ELSE template[t]
    BY <1>0, <1>1, <2>1
  <2> QED
    BY <1>2, <1>3, <1>5, <2>1, <2>2, DeployStaysSound
<1>11. CASE Deployed!WaitFor /\ ~Deployed!Throw
  <2>1. /\ stage = "wait" /\ UNCHANGED <<release, secret, config, template, pods>>
        /\ \E q \in pods[DeployOrder[place]] :
             pods[DeployOrder[place]] = {q} /\ q.template = template[DeployOrder[place]]
    BY <1>11 DEF Deployed!WaitFor, Deployed!RolledOut, Deployed!cluster, pods
  <2> QED
    BY <1>2, <1>3, <2>1, DeployStaysSound
<1>12. CASE Deployed!RunHook /\ ~Deployed!Throw
  <2>1. /\ stage \in Hook /\ UNCHANGED <<release, secret, config, template, pods>>
    BY <1>12 DEF Deployed!RunHook, Deployed!cluster, Hook, pods
  <2> QED
    BY <1>2, <1>3, <2>1, DeployStaysSound DEF Hook
<1>13. CASE \E s \in Deployed!Svc : Deployed!StartPod(s) \/ Deployed!PodReady(s)
              \/ Deployed!Evict(s)
  <2>1. PICK s \in These(DeployOrder) : Deployed!StartPod(s) \/ Deployed!PodReady(s)
               \/ Deployed!Evict(s)
    BY <1>0, <1>13
  <2>2. UNCHANGED <<release, stage, place, secret, config, template>>
    BY <2>1 DEF Deployed!StartPod, Deployed!PodReady, Deployed!Evict, Deployed!deployer
  <2> QED
    BY <2>1, <2>2, PodsStaySound
<1>14. CASE Deployed!WaitFor \/ Deployed!RunHook \/ Deployed!Killed
  BY <1>7, <1>11, <1>12, <1>14 DEF Deployed!WaitFor, Deployed!RunHook, Deployed!Killed
<1>15. ~Deployed!Down
  BY DEF Deployed!Down, DeployInv
<1> QED
  BY <1>6, <1>8, <1>9, <1>10, <1>13, <1>14, <1>15 DEF Deployed!Next, Deployed!Deployer

\* Before the first deploy nothing is applied and no hook has run.
LEMMA NothingDeployed ==
  ASSUME NEW S, Len(S) \in Nat \ {0}, MaxUps \in Nat,
         release = [s \in These(S) |-> [image |-> 1, config |-> 1, secret |-> 1]],
         ups = 0, stage = "idle", place = 1, rolled = {}, ran = << >>,
         secret = [s \in These(S) |-> 0], config = [s \in These(S) |-> 0],
         template = [s \in These(S) |-> Blank], pods = [s \in These(S) |-> {}]
  PROVE  DeployTypes(S) /\ HooksSound(S)
<1>1. Blank \in Templates
  BY DEF Blank, Templates
<1>2. DeployTypes(S)
  BY <1>1 DEF DeployTypes, Applying
<1>3. << >> \in Seq(Hook \X These(S)) /\ BeforeThenAfter(<< >>)
  BY DEF BeforeThenAfter
<1> QED
  BY <1>2, <1>3 DEF HooksSound, Stages, Applying, Hook

\* A project that was never deployed is in the invariant.
LEMMA DeployStart == Deployed!Init => DeployInv
<1> SUFFICES ASSUME Deployed!Init PROVE DeployInv
  OBVIOUS
<1> USE DEF release, ups, downs, stage, place, rolled, ran, secret, config, template, pods
<1>1. /\ Len(DeployOrder) \in Nat \ {0} /\ MaxUps \in Nat
      /\ Deployed!Svc = These(DeployOrder) /\ Deployed!NoTemplate = Blank
  BY ReleaseAssumptions DEF Deployed!DeployAssumption, Deployed!Svc, These, Blank,
     Deployed!NoTemplate, Deployed!NoVersion
<1>2. DeployTypes(DeployOrder) /\ HooksSound(DeployOrder)
  BY <1>1, NothingDeployed DEF Deployed!Init, Deployed!NoVersion
<1>3. \A s \in These(DeployOrder) : ServiceSound(s)
  BY <1>1 DEF Deployed!Init, Deployed!NoVersion, ServiceSound, FilesInOrder,
     SecretsInOrder, StepsInOrder, Blank, SecretIsThere, ConfigIsThere, TemplateIsThere,
     IsRolledOut, Passed, AfterSecrets, AfterConfigs, AfterWorkloads, AfterWait, Hook
<1> QED
  BY <1>2, <1>3 DEF Deployed!Init, DeployInv

\* Every step of a deploy keeps it.
LEMMA DeployNext == DeployInv /\ Deployed!Next => DeployInv'
<1> SUFFICES ASSUME DeployInv, Deployed!Next PROVE DeployInv'
  OBVIOUS
<1>1. /\ DeployTypes(DeployOrder) /\ HooksSound(DeployOrder) /\ downs \in Nat
      /\ Len(DeployOrder) \in Nat \ {0} /\ MaxUps \in Nat
  BY ReleaseAssumptions DEF DeployInv, Deployed!DeployAssumption
<1>2. /\ Moves(DeployOrder) /\ Changes(DeployOrder) /\ downs' = downs
      /\ stage' \in Applying => stage \in Applying \/ ups' = ups + 1
  <2>1. /\ Moves(DeployOrder) /\ Changes(DeployOrder) /\ (downs' = downs \/ FALSE \/ downs < 0)
        /\ stage' \in Applying => stage \in Applying \/ ups' = ups + 1
    BY <1>1, DeployedIsOne, DeployerSteps
  <2>2. ~(downs < 0)
    BY <1>1
  <2> QED
    BY <2>1, <2>2
<1>3. DeployTypes(DeployOrder)' /\ HooksSound(DeployOrder)'
  BY <1>1, <1>2, TypesKept, MovesKeepHooks
<1>4. \A s \in These(DeployOrder) : ServiceSound(s)'
  BY <1>2, ServicesStaySound
<1> QED
  BY <1>2, <1>3, <1>4 DEF DeployInv

\* In it, what a deploy reports is so.
LEMMA DeployReports ==
  ASSUME DeployInv
  PROVE  /\ Deployed!TypeOK /\ Deployed!PodsHaveSecrets
         /\ Deployed!DeployedIsReleased /\ Deployed!HooksAfterRollouts
<1> USE DEF release, ups, downs, stage, place, rolled, ran, secret, config, template, pods
<1>1. /\ Deployed!Svc = These(DeployOrder) /\ Deployed!NoTemplate = Blank /\ MaxUps \in Nat
      /\ DeployTypes(DeployOrder) /\ HooksSound(DeployOrder)
      /\ \A s \in These(DeployOrder) : ServiceSound(s)
  BY ReleaseAssumptions DEF DeployInv, Deployed!DeployAssumption, Deployed!Svc, These,
     Blank, Deployed!NoTemplate, Deployed!NoVersion
<1>2. Deployed!TypeOK
  BY <1>1 DEF DeployTypes, HooksSound, Deployed!TypeOK, Deployed!Versions
<1>3. Deployed!PodsHaveSecrets
  BY <1>1 DEF ServiceSound, SecretsInOrder, Deployed!PodsHaveSecrets, Deployed!NoVersion
<1>4. ASSUME stage = "deployed", NEW s \in These(DeployOrder), NEW q \in pods[s]
      PROVE  q.template.image = release[s].image /\ q.config = release[s].config
  <2>1. ConfigIsThere(s) /\ TemplateIsThere(s) /\ IsRolledOut(s)
    BY <1>4 DEF ConfigIsThere, TemplateIsThere, IsRolledOut, Passed, AfterConfigs,
       AfterWorkloads, AfterWait
  <2>2. q.template = Wanted(s) /\ config[s] = release[s].config
    BY <1>1, <1>4, <2>1 DEF ServiceSound, StepsInOrder
  <2>3. q.config \in Nat /\ release[s].config \in Nat
    BY <1>1, <1>4 DEF DeployTypes, PodRecords
  <2>4. q.template.image = release[s].image /\ q.template.checksum = release[s].config
    BY <2>2 DEF Wanted
  <2> QED
    BY <1>1, <1>4, <2>2, <2>3, <2>4 DEF ServiceSound, FilesInOrder
<1>5. Deployed!DeployedIsReleased
  BY <1>1, <1>4 DEF Deployed!DeployedIsReleased
<1>6. Deployed!HooksAfterRollouts
  BY <1>1 DEF HooksSound, BeforeThenAfter, Deployed!HooksAfterRollouts
<1> QED
  BY <1>2, <1>3, <1>5, <1>6

IdleIsClean ==
  stage = "idle" => \A s \in These(DownOrder) : template[s] = Blank /\ secret[s] = 0
    /\ config[s] = 0
DownInv == DeployTypes(DownOrder) /\ HooksSound(DownOrder) /\ IdleIsClean

\* A project that was never deployed is in the invariant of the teardowns.
LEMMA DownStart == Downed!Init => DownInv
<1> SUFFICES ASSUME Downed!Init PROVE DownInv
  OBVIOUS
<1> USE DEF release, ups, downs, stage, place, rolled, ran, secret, config, template, pods
<1>1. /\ Len(DownOrder) \in Nat \ {0} /\ MaxUps \in Nat
      /\ Downed!Svc = These(DownOrder) /\ Downed!NoTemplate = Blank
  BY ReleaseAssumptions DEF Downed!DeployAssumption, Downed!Svc, These, Blank,
     Downed!NoTemplate, Downed!NoVersion
<1>2. DeployTypes(DownOrder) /\ HooksSound(DownOrder)
  BY <1>1, NothingDeployed DEF Downed!Init, Downed!NoVersion
<1>3. IdleIsClean
  BY <1>1 DEF Downed!Init, Downed!NoVersion, IdleIsClean
<1> QED
  BY <1>2, <1>3 DEF DownInv

\* Every step of a deploy or a teardown keeps the invariant of the teardowns.
LEMMA DownNext == DownInv /\ Downed!Next => DownInv'
<1> SUFFICES ASSUME DownInv, Downed!Next PROVE DownInv'
  OBVIOUS
<1>1. /\ DeployTypes(DownOrder) /\ HooksSound(DownOrder)
      /\ Len(DownOrder) \in Nat \ {0} /\ MaxUps \in Nat
  BY ReleaseAssumptions DEF DownInv, Downed!DeployAssumption
<1>2. /\ Moves(DownOrder) /\ Changes(DownOrder)
      /\ stage' \in Applying => stage \in Applying \/ ups' = ups + 1
  BY <1>1, DownedIsOne, DeployerSteps
<1>3. DeployTypes(DownOrder)' /\ HooksSound(DownOrder)'
  BY <1>1, <1>2, TypesKept, MovesKeepHooks
<1>4. IdleIsClean'
  <2> SUFFICES ASSUME stage' = "idle"
               PROVE  \A s \in These(DownOrder) : template'[s] = Blank /\ secret'[s] = 0
                        /\ config'[s] = 0
    BY DEF IdleIsClean
  <2> USE DEF release, ups, downs, stage, place, rolled, ran, secret, config, template, pods
  <2>1. Downed!Svc = These(DownOrder) /\ Downed!NoTemplate = Blank
    BY DEF Downed!Svc, These, Blank, Downed!NoTemplate, Downed!NoVersion
  <2>2. CASE Downed!Down
    <3>1. PICK gone \in SUBSET Downed!Kinds :
            Downed!Delete(gone) /\ Downed!Go(Downed!DownEnd(gone = Downed!Kinds))
      BY <2>2 DEF Downed!Down
    <3>2. gone = Downed!Kinds
      BY <3>1 DEF Downed!Go, Downed!DownEnd
    <3> QED
      BY <2>1, <3>1, <3>2 DEF Downed!Delete, Downed!Kinds, Downed!NoVersion
  <2>3. CASE \E s \in Downed!Svc : Downed!StartPod(s) \/ Downed!PodReady(s) \/ Downed!Evict(s)
    <3>1. UNCHANGED <<stage, secret, config, template>>
      BY <2>3 DEF Downed!StartPod, Downed!PodReady, Downed!Evict, Downed!deployer
    <3> QED
      BY <3>1 DEF DownInv, IdleIsClean
  <2>4. ~Downed!Up
    BY DEF Downed!Up, Downed!FirstStep
  <2>5. ~Downed!Throw
    BY DEF Downed!Throw, Downed!Go
  <2>6. ~Downed!Deployer /\ ~Downed!Killed
    BY <2>5 DEF Downed!Deployer, Downed!Killed, Downed!ApplySecret, Downed!ApplyConfig,
       Downed!ApplyWorkload, Downed!WaitFor, Downed!RunHook, Downed!AfterHook,
       Downed!AfterApply, Downed!Advance, Downed!Go
  <2> QED
    BY <2>2, <2>3, <2>4, <2>6 DEF Downed!Next
<1> QED
  BY <1>3, <1>4 DEF DownInv

\* In it, what a teardown reports is so.
LEMMA DownReports ==
  ASSUME DownInv
  PROVE  Downed!TypeOK /\ Downed!CleanWhenIdle /\ Downed!HooksAfterRollouts
<1> USE DEF release, ups, downs, stage, place, rolled, ran, secret, config, template, pods
<1>1. /\ Downed!Svc = These(DownOrder) /\ Downed!NoTemplate = Blank /\ MaxUps \in Nat
      /\ DeployTypes(DownOrder) /\ HooksSound(DownOrder)
  BY ReleaseAssumptions DEF DownInv, Downed!DeployAssumption, Downed!Svc, These, Blank,
     Downed!NoTemplate, Downed!NoVersion
<1>2. Downed!TypeOK
  BY <1>1 DEF DeployTypes, HooksSound, Downed!TypeOK, Downed!Versions
<1>3. Downed!CleanWhenIdle
  BY <1>1 DEF DownInv, IdleIsClean, Downed!CleanWhenIdle, Downed!NoVersion
<1>4. Downed!HooksAfterRollouts
  BY <1>1 DEF HooksSound, BeforeThenAfter, Downed!HooksAfterRollouts
<1> QED
  BY <1>2, <1>3, <1>4

-----------------------------------------------------------------------------
(* Runs in throwaway namespaces. *)

\* Runs that need the services in D, and whether they may be killed.
RunsOf(D, k) == INSTANCE K8sRun WITH
  pc <- v1, dep <- v2, attempts <- v3, spaces <- v4, saw <- v5, stuck <- v6,
  Runs <- RunIds, NameOf <- RunNames, Deps <- D, Postgres <- PostgresDeps, Kills <- k

step == v1
dep == v2
tries == v3
spaces == v4
saw == v5
stuck == v6

Over == {"ended", "threw", "killed"}
Held == {"deps", "rolled", "secret", "pod", "unsecret"}
Contents(D) == [ready : SUBSET These(D), secrets : SUBSET RunIds]
Named(r) == RunNames[r] \in DOMAIN spaces
HasRefused(r, i) == tries[r][i] = 10
Answers(D, r, i) == D[i] \in spaces[RunNames[r]].ready \/ HasRefused(r, i)

RunTypes(D) ==
  /\ step \in [RunIds -> Held \cup Over \cup {"start", "cleanup"}]
  /\ dep \in [RunIds -> Nat] /\ (D # << >> => \A r \in RunIds : dep[r] \in 1 .. Len(D))
  /\ tries \in [RunIds -> [1 .. Len(D) -> 0 .. 10]] /\ saw \in [RunIds -> BOOLEAN]
  /\ DOMAIN spaces \subseteq {RunNames[r] : r \in RunIds}
  /\ spaces \in [DOMAIN spaces -> Contents(D)]

\* What a run has deployed answers, or has refused connections ten times; its
\* namespace is there until it takes it away.
RunSound(D, k, r) ==
  /\ step[r] \in Held => Named(r)
  /\ step[r] = "start" => dep[r] = 1
  /\ step[r] \in {"deps", "rolled"} =>
       D # << >> /\ \A i \in 1 .. Len(D) : i < dep[r] => Answers(D, r, i)
  /\ step[r] = "rolled" /\ D[dep[r]] \notin PostgresDeps =>
       D[dep[r]] \in spaces[RunNames[r]].ready
  /\ step[r] \in {"secret", "pod"} => \A i \in 1 .. Len(D) : Answers(D, r, i)
  /\ saw[r] \/ \E i \in 1 .. Len(D) : HasRefused(r, i)
  /\ ~k /\ step[r] \in Over => RunNames[r] \in stuck \/ ~Named(r)

RunInv(D, k) == RunTypes(D) /\ \A r \in RunIds : RunSound(D, k, r)

\* A run whose own state and namespace stand stays sound.
LEMMA OtherRuns ==
  ASSUME NEW D, NEW k, NEW t \in RunIds, RunSound(D, k, t),
         step'[t] = step[t], dep'[t] = dep[t], tries'[t] = tries[t], saw'[t] = saw[t],
         stuck \subseteq stuck', Named(t)' <=> Named(t),
         Named(t) => spaces'[RunNames[t]].ready = spaces[RunNames[t]].ready
  PROVE  RunSound(D, k, t)'
BY DEF RunSound, Answers, HasRefused, Held

\* A step of one run is no other's business.
LEMMA RunsKeepApart ==
  ASSUME NEW D, NEW k, \A q, t \in RunIds : RunNames[q] = RunNames[t] => q = t,
         RunInv(D, k), NEW r \in RunIds, NEW t \in RunIds, t # r,
         \A u \in RunIds : u # r =>
           step'[u] = step[u] /\ dep'[u] = dep[u] /\ tries'[u] = tries[u] /\ saw'[u] = saw[u],
         stuck \subseteq stuck',
         \A n : n # RunNames[r] => (n \in DOMAIN spaces' <=> n \in DOMAIN spaces),
         \A n \in DOMAIN spaces : n # RunNames[r] => spaces'[n].ready = spaces[n].ready
  PROVE  RunSound(D, k, t)'
<1>1. RunNames[t] # RunNames[r]
  OBVIOUS
<1>2. Named(t)' <=> Named(t)
  BY <1>1 DEF Named
<1> QED
  BY <1>1, <1>2, OtherRuns DEF RunInv, Named

\* Every step of a run keeps the invariant of the runs.
LEMMA RunStepsAreSound ==
  ASSUME NEW D, NEW k, D \in Seq(These(D)), \A q, t \in RunIds : RunNames[q] = RunNames[t] =>
           q = t,
         RunInv(D, k), NEW r \in RunIds,
         RunsOf(D, k)!Run(r) \/ RunsOf(D, k)!Accepts(r) \/ RunsOf(D, k)!Kill(r)
  PROVE  RunInv(D, k)'
<1> DEFINE N == RunNames[r]
           A == spaces[N]
           Apart == \A n : n # N => (n \in DOMAIN spaces' <=> n \in DOMAIN spaces)
           Alike == \A n \in DOMAIN spaces : n # N => spaces'[n].ready = spaces[n].ready
           Alone == \A u \in RunIds : u # r =>
             step'[u] = step[u] /\ dep'[u] = dep[u] /\ tries'[u] = tries[u] /\ saw'[u] = saw[u]
<1>1. /\ RunTypes(D) /\ RunSound(D, k, r) /\ Len(D) \in Nat
      /\ step \in [RunIds -> Held \cup Over \cup {"start", "cleanup"}]
      /\ dep \in [RunIds -> Nat] /\ (D # << >> => dep[r] \in 1 .. Len(D))
      /\ tries \in [RunIds -> [1 .. Len(D) -> 0 .. 10]] /\ saw \in [RunIds -> BOOLEAN]
      /\ spaces \in [DOMAIN spaces -> Contents(D)]
  BY DEF RunInv, RunTypes
<1>2. ASSUME RunTypes(D)', Alone, Apart, Alike, stuck \subseteq stuck', RunSound(D, k, r)'
      PROVE  RunInv(D, k)'
  BY <1>2, RunsKeepApart DEF RunInv
<1>3. D # << >> => Len(D) \in Nat \ {0}
  OBVIOUS
\* Steps that only change where the run is.
<1>4. ASSUME NEW to \in Held \cup Over \cup {"start", "cleanup"}, step' = [step EXCEPT ![r] = to],
             UNCHANGED <<dep, tries, spaces, saw>>, stuck \subseteq stuck',
             to \in {"cleanup"} \/ (to = "killed" /\ k)
      PROVE  RunInv(D, k)'
  <2>1. RunTypes(D)' /\ step'[r] = to /\ Alone /\ Apart /\ Alike
    BY <1>1, <1>4 DEF RunTypes
  <2>2. RunSound(D, k, r)'
    BY <1>1, <1>4, <2>1 DEF RunSound, Held, Over, Answers, HasRefused, Named
  <2> QED
    BY <1>2, <1>4, <2>1, <2>2
<1>5. CASE RunsOf(D, k)!CreateNamespace(r)
  <2>1. CASE RunsOf(D, k)!Throw(r, "start")
    BY <1>4, <2>1 DEF RunsOf!Throw, RunsOf!Step, step, dep, tries, spaces, saw, stuck
  <2>2. CASE ~RunsOf(D, k)!Throw(r, "start")
    <3> DEFINE x == IF Named(r) THEN spaces[N] ELSE [ready |-> {}, secrets |-> {}]
               to == IF D = << >> THEN "secret" ELSE "deps"
    <3>1. /\ step[r] = "start" /\ step' = [step EXCEPT ![r] = to]
               /\ UNCHANGED <<dep, tries, saw, stuck>>
          /\ RunsOf(D, k)!Put(r, x)
      BY <1>5, <2>2 DEF RunsOf!CreateNamespace, RunsOf!Step, RunsOf!Exists,
         RunsOf!Space, RunsOf!Empty, step, dep, tries, spaces, saw, stuck, Named
    <3>2. x \in Contents(D)
      BY <1>1 DEF Contents, Named
    <3> HIDE DEF x
    <3>3. /\ spaces' \in [DOMAIN spaces \cup {N} -> Contents(D)] /\ Alike /\ N \in DOMAIN spaces'
          /\ DOMAIN spaces' \subseteq {RunNames[t] : t \in RunIds}
      BY <1>1, <3>1, <3>2 DEF RunsOf!Put, RunTypes, spaces
    <3>4. RunTypes(D)' /\ Alone /\ Apart /\ step'[r] = to
      BY <1>1, <3>1, <3>3 DEF RunTypes, Held
    <3>5. RunSound(D, k, r)'
      <4>1. D = << >> => 1 .. Len(D) = {}
        OBVIOUS
      <4> QED
        BY <1>1, <3>1, <3>3, <3>4, <4>1 DEF RunSound, Held, Over, Named, HasRefused
    <3> QED
      BY <1>2, <3>1, <3>3, <3>4, <3>5
  <2> QED
    BY <2>1, <2>2
<1>6. CASE RunsOf(D, k)!DeployDep(r)
  <2>1. CASE RunsOf(D, k)!Throw(r, "deps")
    BY <1>4, <2>1 DEF RunsOf!Throw, RunsOf!Step, step, dep, tries, spaces, saw, stuck
  <2>2. CASE ~RunsOf(D, k)!Throw(r, "deps")
    <3>1. PICK up \in IF D[dep[r]] \in PostgresDeps THEN BOOLEAN ELSE {TRUE} :
            RunsOf(D, k)!Put(r, [spaces[N] EXCEPT !.ready = IF up THEN @ \cup {D[dep[r]]} ELSE @])
      BY <1>6, <2>2 DEF RunsOf!DeployDep, RunsOf!Space, dep, spaces
    <3>2. /\ step[r] = "deps" /\ step' = [step EXCEPT ![r] = "rolled"]
          /\ UNCHANGED <<dep, tries, saw, stuck>> /\ N \in DOMAIN spaces
      BY <1>6, <2>2 DEF RunsOf!DeployDep, RunsOf!Step, RunsOf!Exists, step, dep, tries,
         spaces, saw, stuck
    <3> DEFINE x == [spaces[N] EXCEPT !.ready = IF up THEN @ \cup {D[dep[r]]} ELSE @]
    <3>3. D # << >> /\ D[dep[r]] \in These(D)
      BY <1>1, <3>2 DEF RunSound, These
    <3>4. /\ x \in Contents(D) /\ spaces[N].ready \subseteq x.ready
          /\ D[dep[r]] \notin PostgresDeps => D[dep[r]] \in x.ready
      BY <1>1, <3>1, <3>2, <3>3 DEF Contents
    <3>5. RunsOf(D, k)!Put(r, x)
      BY <3>1
    <3> HIDE DEF x
    <3>6. /\ spaces' \in [DOMAIN spaces \cup {N} -> Contents(D)] /\ Alike /\ spaces'[N] = x
          /\ DOMAIN spaces' \subseteq {RunNames[t] : t \in RunIds}
      BY <1>1, <3>4, <3>5 DEF RunsOf!Put, RunTypes, spaces
    <3>7. RunTypes(D)' /\ Alone /\ Apart /\ step'[r] = "rolled" /\ N \in DOMAIN spaces'
      BY <1>1, <3>2, <3>6 DEF RunTypes, Held
    <3>8. RunSound(D, k, r)'
      BY <1>1, <3>2, <3>4, <3>6, <3>7 DEF RunSound, Held, Over, Named, HasRefused, Answers
    <3> QED
      BY <1>2, <3>2, <3>6, <3>7, <3>8
  <2> QED
    BY <2>1, <2>2
<1>7. CASE RunsOf(D, k)!NextDep(r) /\ (D[dep[r]] \in PostgresDeps /\ ~RunsOf(D, k)!Accepting(r)
                                      => tries[r][dep[r]] = 10)
  <2> DEFINE to == IF dep[r] < Len(D) THEN "deps" ELSE "secret"
  <2>1. /\ step[r] = "rolled" /\ step' = [step EXCEPT ![r] = to]
             /\ UNCHANGED <<tries, spaces, saw, stuck>>
        /\ dep' = [dep EXCEPT ![r] = IF @ < Len(D) THEN @ + 1 ELSE @]
    BY <1>7 DEF RunsOf!NextDep, RunsOf!Step, step, dep, tries, spaces, saw, stuck
  <2>2. D # << >> /\ dep[r] \in 1 .. Len(D)
    BY <1>1, <2>1 DEF RunSound
  <2>3. Answers(D, r, dep[r])
    BY <1>1, <1>7, <2>1, <2>2 DEF RunSound, Answers, HasRefused, RunsOf!Accepting,
       RunsOf!Space, dep, spaces
  <2>4. /\ step'[r] = to /\ dep'[r] = IF dep[r] < Len(D) THEN dep[r] + 1 ELSE dep[r]
        /\ Alone /\ Apart /\ Alike
    BY <1>1, <2>1
  <2>5. RunTypes(D)'
    <3>1. dep'[r] \in 1 .. Len(D) /\ \A t \in RunIds : t # r => dep'[t] = dep[t]
      BY <1>1, <2>1, <2>2, <2>4
    <3> QED
      BY <1>1, <2>1, <2>2, <3>1 DEF RunTypes, Held
  <2>6. \A i \in 1 .. Len(D) : i < dep[r] \/ i = dep[r] => Answers(D, r, i)
    BY <1>1, <2>1, <2>3 DEF RunSound
  <2>7. \A i \in 1 .. Len(D) : (to = "deps" /\ i < dep'[r]) \/ to = "secret" => i < dep[r]
          \/ i = dep[r]
    BY <1>1, <2>2, <2>4
  <2>8. RunSound(D, k, r)'
    BY <1>1, <2>1, <2>2, <2>4, <2>6, <2>7 DEF RunSound, Held, Over, Named, HasRefused, Answers
  <2> QED
    BY <1>2, <2>1, <2>4, <2>5, <2>8
<1>8. CASE /\ step[r] = "rolled" /\ UNCHANGED <<step, dep, spaces, saw, stuck>>
                /\ tries[r][dep[r]] < 10
           /\ tries' = [tries EXCEPT ![r] = [@ EXCEPT ![dep[r]] = tries[r][dep[r]] + 1]]
  <2>1. dep[r] \in 1 .. Len(D) /\ tries[r] \in [1 .. Len(D) -> 0 .. 10]
    BY <1>1, <1>8 DEF RunSound
  <2>2. tries'[r] = [tries[r] EXCEPT ![dep[r]] = tries[r][dep[r]] + 1]
    BY <1>1, <1>8
  <2>3. /\ tries'[r] \in [1 .. Len(D) -> 0 .. 10]
        /\ \A i \in 1 .. Len(D) : tries[r][i] = 10 => tries'[r][i] = 10
    <3>1. ASSUME NEW f \in [1 .. Len(D) -> 0 .. 10], NEW e \in 1 .. Len(D), f[e] < 10
          PROVE  /\ [f EXCEPT ![e] = f[e] + 1] \in [1 .. Len(D) -> 0 .. 10]
                 /\ \A i \in 1 .. Len(D) : f[i] = 10 => [f EXCEPT ![e] = f[e] + 1][i] = 10
      <4>1. f[e] + 1 \in 0 .. 10
        BY <3>1
      <4> QED
        BY <3>1, <4>1
    <3> QED
      BY <1>8, <2>1, <2>2, <3>1
  <2>4. RunTypes(D)' /\ Alone /\ Apart /\ Alike
    <3>1. Alone /\ Apart /\ Alike /\ tries' \in [RunIds -> [1 .. Len(D) -> 0 .. 10]]
      BY <1>1, <1>8, <2>2, <2>3
    <3> QED
      BY <1>1, <1>8, <3>1 DEF RunTypes
  <2>5. RunSound(D, k, r)'
    BY <1>1, <1>8, <2>3 DEF RunSound, Held, Over, Named, HasRefused, Answers
  <2> QED
    BY <1>2, <1>8, <2>4, <2>5
<1>9. CASE RunsOf(D, k)!PgReady(r)
  BY <1>7, <1>8, <1>9 DEF RunsOf!PgReady, RunsOf!MaxAttempts, step, dep, tries, spaces, saw, stuck
<1>10. CASE RunsOf(D, k)!Accepts(r)
  <2> DEFINE x == [spaces[N] EXCEPT !.ready = @ \cup {D[dep[r]]}]
  <2>1. /\ step[r] = "rolled" /\ N \in DOMAIN spaces /\ UNCHANGED <<step, dep, tries, saw, stuck>>
        /\ RunsOf(D, k)!Put(r, x)
    BY <1>10 DEF RunsOf!Accepts, RunsOf!Exists, RunsOf!Space, step, dep, tries, spaces, saw, stuck
  <2>2. D # << >> /\ D[dep[r]] \in These(D)
    BY <1>1, <2>1 DEF RunSound, These
  <2>3. x \in Contents(D) /\ spaces[N].ready \subseteq x.ready
    BY <1>1, <2>1, <2>2, ZenonT(60) DEF Contents
  <2> HIDE DEF x
  <2>4. /\ spaces' \in [DOMAIN spaces \cup {N} -> Contents(D)] /\ Alike /\ spaces'[N] = x
        /\ DOMAIN spaces' \subseteq {RunNames[t] : t \in RunIds}
    BY <1>1, <2>1, <2>3 DEF RunsOf!Put, RunTypes, spaces
  <2>5. RunTypes(D)' /\ Alone /\ Apart /\ N \in DOMAIN spaces'
    BY <1>1, <2>1, <2>4 DEF RunTypes
  <2>6. RunSound(D, k, r)'
    BY <1>1, <2>1, <2>3, <2>4, <2>5 DEF RunSound, Held, Over, Named, HasRefused, Answers
  <2> QED
    BY <1>2, <2>1, <2>4, <2>5, <2>6
<1>11. CASE RunsOf(D, k)!CreateSecret(r)
  <2>1. CASE RunsOf(D, k)!Throw(r, "secret")
    BY <1>4, <2>1 DEF RunsOf!Throw, RunsOf!Step, step, dep, tries, spaces, saw, stuck
  <2>2. CASE ~RunsOf(D, k)!Throw(r, "secret")
    <3> DEFINE x == [spaces[N] EXCEPT !.secrets = @ \cup {r}]
    <3>1. /\ step[r] = "secret" /\ step' = [step EXCEPT ![r] = "pod"]
               /\ UNCHANGED <<dep, tries, saw, stuck>>
          /\ N \in DOMAIN spaces /\ RunsOf(D, k)!Put(r, x)
      BY <1>11, <2>2 DEF RunsOf!CreateSecret, RunsOf!Step, RunsOf!Exists, RunsOf!Space,
         step, dep, tries, spaces, saw, stuck
    <3>2. x \in Contents(D) /\ x.ready = spaces[N].ready
      BY <1>1, <3>1 DEF Contents
    <3> HIDE DEF x
    <3>3. /\ spaces' \in [DOMAIN spaces \cup {N} -> Contents(D)] /\ Alike /\ spaces'[N] = x
          /\ DOMAIN spaces' \subseteq {RunNames[t] : t \in RunIds}
      BY <1>1, <3>1, <3>2 DEF RunsOf!Put, RunTypes, spaces
    <3>4. RunTypes(D)' /\ Alone /\ Apart /\ step'[r] = "pod" /\ N \in DOMAIN spaces'
      BY <1>1, <3>1, <3>3 DEF RunTypes, Held
    <3>5. RunSound(D, k, r)'
      BY <1>1, <3>1, <3>2, <3>3, <3>4 DEF RunSound, Held, Over, Named, HasRefused, Answers
    <3> QED
      BY <1>2, <3>1, <3>3, <3>4, <3>5
  <2> QED
    BY <2>1, <2>2
<1>12. CASE RunsOf(D, k)!RunPod(r)
  <2>1. /\ step[r] = "pod" /\ step' = [step EXCEPT ![r] = "unsecret"]
             /\ UNCHANGED <<dep, tries, spaces, stuck>>
        /\ saw' = [saw EXCEPT ![r] = N \in DOMAIN spaces /\ These(D) \subseteq spaces[N].ready]
    BY <1>12 DEF RunsOf!RunPod, RunsOf!Step, RunsOf!Exists, RunsOf!Space, These, step,
       dep, tries, spaces, saw, stuck
  <2>2. N \in DOMAIN spaces /\ \A i \in 1 .. Len(D) : Answers(D, r, i)
    BY <1>1, <2>1 DEF RunSound, Held, Named
  <2>3. saw'[r] <=> These(D) \subseteq spaces[N].ready
    BY <1>1, <2>1, <2>2
  <2>4. saw'[r] \/ \E i \in 1 .. Len(D) : HasRefused(r, i)
    BY <2>2, <2>3 DEF Answers, These
  <2>5. RunTypes(D)' /\ Alone /\ Apart /\ Alike /\ step'[r] = "unsecret"
    BY <1>1, <2>1 DEF RunTypes, Held
  <2>6. RunSound(D, k, r)'
    BY <1>1, <2>1, <2>2, <2>4, <2>5 DEF RunSound, Held, Over, Named, HasRefused
  <2> QED
    BY <1>2, <2>1, <2>5, <2>6
<1>13. CASE RunsOf(D, k)!DeleteSecret(r)
  <2> DEFINE emptied == [n \in DOMAIN spaces |->
                           [spaces[n] EXCEPT !.secrets = IF n = N THEN @ \ {r} ELSE @]]
  <2>1. /\ step[r] = "unsecret" /\ step' = [step EXCEPT ![r] = "cleanup"]
             /\ UNCHANGED <<dep, tries, saw>>
        /\ (spaces' = emptied /\ stuck' = stuck) \/ (stuck' = stuck \cup {r} /\ spaces' = spaces)
    BY <1>13 DEF RunsOf!DeleteSecret, RunsOf!Step, step, dep, tries, spaces, saw, stuck
  <2>2. CASE spaces' = spaces
    BY <1>4, <2>1, <2>2
  <2>3. CASE spaces' = emptied
    <3>1. ASSUME NEW n \in DOMAIN spaces
          PROVE  emptied[n] \in Contents(D) /\ emptied[n].ready = spaces[n].ready
      <4>1. spaces[n] \in Contents(D)
        BY <1>1
      <4>2. ASSUME NEW c \in Contents(D), NEW z \in SUBSET RunIds
            PROVE  [c EXCEPT !.secrets = z] \in Contents(D)
                     /\ [c EXCEPT !.secrets = z].ready = c.ready
        BY DEF Contents
      <4> DEFINE left == IF n = N THEN spaces[n].secrets \ {r} ELSE spaces[n].secrets
      <4>3. left \in SUBSET RunIds
        BY <4>1 DEF Contents
      <4>4. emptied[n] = [spaces[n] EXCEPT !.secrets = left]
        OBVIOUS
      <4> HIDE DEF emptied, left
      <4> QED
        BY <4>1, <4>2, <4>3, <4>4, ZenonT(60)
    <3> HIDE DEF emptied
    <3>2. DOMAIN emptied = DOMAIN spaces /\ emptied \in [DOMAIN spaces -> Contents(D)]
      BY <3>1 DEF emptied
    <3>3. RunTypes(D)' /\ Alone /\ Apart /\ Alike /\ step'[r] = "cleanup"
            /\ stuck \subseteq stuck'
      BY <1>1, <2>1, <2>3, <3>1, <3>2 DEF RunTypes, Held
    <3>4. RunSound(D, k, r)'
      BY <1>1, <2>1, <3>3 DEF RunSound, Held, Over, HasRefused
    <3> QED
      BY <1>2, <3>3, <3>4
  <2> QED
    BY <2>1, <2>2, <2>3
<1>14. CASE RunsOf(D, k)!Cleanup(r)
  <2>1. /\ step[r] = "cleanup" /\ step' = [step EXCEPT ![r] = "ended"]
             /\ UNCHANGED <<dep, tries, saw>>
        /\ \/ spaces' = [n \in DOMAIN spaces \ {N} |-> spaces[n]] /\ stuck' = stuck
           \/ stuck' = stuck \cup {N} /\ spaces' = spaces
    BY <1>14 DEF RunsOf!Cleanup, RunsOf!Step, step, dep, tries, spaces, saw, stuck
  <2>2. /\ Alone /\ Apart /\ Alike /\ step'[r] = "ended" /\ stuck \subseteq stuck'
        /\ DOMAIN spaces' \subseteq DOMAIN spaces /\ spaces' \in [DOMAIN spaces' -> Contents(D)]
    BY <1>1, <2>1
  <2>3. RunTypes(D)'
    BY <1>1, <2>1, <2>2 DEF RunTypes, Over
  <2>4. N \in stuck' \/ N \notin DOMAIN spaces'
    BY <2>1
  <2>5. RunSound(D, k, r)'
    BY <1>1, <2>1, <2>2, <2>4 DEF RunSound, Held, Over, HasRefused, Named
  <2> QED
    BY <1>2, <2>2, <2>3, <2>5
<1>15. CASE RunsOf(D, k)!Kill(r)
  <2>1. k /\ step' = [step EXCEPT ![r] = "killed"] /\ UNCHANGED <<dep, tries, spaces, saw, stuck>>
    BY <1>15 DEF RunsOf!Kill, step, dep, tries, spaces, saw, stuck
  <2> QED
    BY <1>4, <2>1 DEF Over
<1> QED
  BY <1>5, <1>6, <1>9, <1>10, <1>11, <1>12, <1>13, <1>14, <1>15 DEF RunsOf!Run

\* Runs that have not begun have no namespace.
LEMMA RunsStart ==
  ASSUME NEW D, NEW k, D \in Seq(These(D)), RunsOf(D, k)!Init
  PROVE  RunInv(D, k)
<1>1. /\ step = [r \in RunIds |-> "start"] /\ dep = [r \in RunIds |-> 1]
      /\ tries = [r \in RunIds |-> [i \in 1 .. Len(D) |-> 0]]
      /\ DOMAIN spaces = {} /\ spaces \in [{} -> Contents(D)] /\ saw = [r \in RunIds |-> TRUE]
  BY DEF RunsOf!Init, step, dep, tries, spaces, saw
<1>2. D # << >> => Len(D) \in Nat \ {0}
  OBVIOUS
<1>3. RunTypes(D)
  BY <1>1, <1>2 DEF RunTypes
<1>4. \A r \in RunIds : RunSound(D, k, r)
  BY <1>1 DEF RunSound, Held, Over
<1> QED
  BY <1>3, <1>4 DEF RunInv

\* In the invariant, runs are isolated, find what they need and leave nothing.
LEMMA RunsReport ==
  ASSUME NEW D, NEW k, RunInv(D, k)
  PROVE  /\ RunsOf(D, k)!TypeOK /\ RunsOf(D, k)!Isolated /\ RunsOf(D, k)!CommandFindsDepsInTime
         /\ ~k => RunsOf(D, k)!NothingIsLeft
<1> USE DEF step, dep, tries, spaces, saw, stuck
<1>1. RunsOf(D, k)!TypeOK
  BY DEF RunInv, RunTypes, RunsOf!TypeOK, RunsOf!MaxAttempts
<1>2. RunsOf(D, k)!Isolated
  BY DEF RunInv, RunSound, Held, Named, RunsOf!Isolated, RunsOf!Exists
<1>3. RunsOf(D, k)!CommandFindsDepsInTime
  BY DEF RunInv, RunSound, HasRefused, RunsOf!CommandFindsDepsInTime, RunsOf!MaxAttempts
<1>4. ~k => RunsOf(D, k)!NothingIsLeft
  BY DEF RunInv, RunSound, Over, Named, RunsOf!NothingIsLeft, RunsOf!Dead, RunsOf!Exists
<1> QED
  BY <1>1, <1>2, <1>3, <1>4

\* The runs that nobody kills are instances of the same steps.
LEMMA ThrowawayIsOne ==
  /\ Throwaway!Init => RunsOf(RunDeps, FALSE)!Init
  /\ Throwaway!Next => \E r \in RunIds : RunsOf(RunDeps, FALSE)!Run(r) \/ RunsOf(RunDeps,
       FALSE)!Accepts(r)
                                         \/ RunsOf(RunDeps, FALSE)!Kill(r)
  /\ RunsOf(RunDeps, FALSE)!TypeOK => Throwaway!TypeOK
  /\ RunsOf(RunDeps, FALSE)!Isolated => Throwaway!Isolated
  /\ RunsOf(RunDeps, FALSE)!CommandFindsDepsInTime => Throwaway!CommandFindsDepsInTime
  /\ RunsOf(RunDeps, FALSE)!NothingIsLeft => Throwaway!NothingIsLeft
  BY DEF Throwaway!Init, Throwaway!Next, Throwaway!Run, Throwaway!CreateNamespace,
     Throwaway!DeployDep, Throwaway!NextDep, Throwaway!Accepting, Throwaway!PgReady,
     Throwaway!Accepts, Throwaway!CreateSecret, Throwaway!RunPod,
     Throwaway!DeleteSecret, Throwaway!Cleanup, Throwaway!Kill, Throwaway!Throw,
     Throwaway!Step, Throwaway!Put, Throwaway!Space, Throwaway!Exists, Throwaway!Empty,
     Throwaway!MaxAttempts, Throwaway!Dead, Throwaway!TypeOK, Throwaway!Isolated,
     Throwaway!CommandFindsDepsInTime, Throwaway!NothingIsLeft, RunsOf!Init, RunsOf!Run,
     RunsOf!CreateNamespace, RunsOf!DeployDep, RunsOf!NextDep, RunsOf!Accepting,
     RunsOf!PgReady, RunsOf!Accepts, RunsOf!CreateSecret, RunsOf!RunPod,
     RunsOf!DeleteSecret, RunsOf!Cleanup, RunsOf!Kill, RunsOf!Throw, RunsOf!Step,
     RunsOf!Put, RunsOf!Space, RunsOf!Exists, RunsOf!Empty, RunsOf!MaxAttempts,
     RunsOf!Dead, RunsOf!TypeOK, RunsOf!Isolated, RunsOf!CommandFindsDepsInTime,
     RunsOf!NothingIsLeft

\* The runs that may be killed are.
LEMMA KilledIsOne ==
  /\ Killed!Init => RunsOf(KilledDeps, TRUE)!Init
  /\ Killed!Next => \E r \in RunIds : RunsOf(KilledDeps, TRUE)!Run(r) \/ RunsOf(KilledDeps,
       TRUE)!Accepts(r)
                                      \/ RunsOf(KilledDeps, TRUE)!Kill(r)
  /\ RunsOf(KilledDeps, TRUE)!TypeOK => Killed!TypeOK
  /\ RunsOf(KilledDeps, TRUE)!Isolated => Killed!Isolated
  /\ RunsOf(KilledDeps, TRUE)!CommandFindsDepsInTime => Killed!CommandFindsDepsInTime
  BY DEF Killed!Init, Killed!Next, Killed!Run, Killed!CreateNamespace, Killed!DeployDep,
     Killed!NextDep, Killed!Accepting, Killed!PgReady, Killed!Accepts,
     Killed!CreateSecret, Killed!RunPod, Killed!DeleteSecret, Killed!Cleanup,
     Killed!Kill, Killed!Throw, Killed!Step, Killed!Put, Killed!Space, Killed!Exists,
     Killed!Empty, Killed!MaxAttempts, Killed!Dead, Killed!TypeOK, Killed!Isolated,
     Killed!CommandFindsDepsInTime, RunsOf!Init, RunsOf!Run, RunsOf!CreateNamespace,
     RunsOf!DeployDep, RunsOf!NextDep, RunsOf!Accepting, RunsOf!PgReady, RunsOf!Accepts,
     RunsOf!CreateSecret, RunsOf!RunPod, RunsOf!DeleteSecret, RunsOf!Cleanup,
     RunsOf!Kill, RunsOf!Throw, RunsOf!Step, RunsOf!Put, RunsOf!Space, RunsOf!Exists,
     RunsOf!Empty, RunsOf!MaxAttempts, RunsOf!Dead, RunsOf!TypeOK, RunsOf!Isolated,
     RunsOf!CommandFindsDepsInTime

-----------------------------------------------------------------------------
(* Whichever component runs. *)

ClusterInv ==
  /\ part = "deploy" => DeployInv
  /\ part = "down" => DownInv
  /\ part = "run" => RunInv(RunDeps, FALSE)
  /\ part = "killed" => RunInv(KilledDeps, TRUE)
  /\ part = "fleet" => FleetInv
  /\ part = "pair" => PairInv

\* The dependencies are finitely many, the names distinct.
LEMMA DepsAndNames ==
  /\ \A q, t \in RunIds : RunNames[q] = RunNames[t] => q = t
  /\ RunDeps \in Seq(These(RunDeps)) /\ KilledDeps \in Seq(These(KilledDeps))
BY ReleaseAssumptions DEF Throwaway!RunAssumption, Killed!RunAssumption, These

\* A step of none of the components keeps the invariants of all.
LEMMA ClusterStutters == ClusterInv /\ UNCHANGED vars => ClusterInv'
<1> SUFFICES ASSUME ClusterInv, UNCHANGED vars PROVE ClusterInv'
  OBVIOUS
<1> USE DEF vars
<1>1. \A S : /\ DeployTypes(S) => DeployTypes(S)'
             /\ HooksSound(S) => HooksSound(S)'
  BY DEF release, ups, stage, place, rolled, ran, secret, config, template, pods,
     DeployTypes, HooksSound, UpTo, OnlyBefore, BeforeThenAfter
<1>2. \A s : ServiceSound(s) => ServiceSound(s)'
  BY DEF release, stage, place, secret, config, template, pods, ServiceSound,
     FilesInOrder, SecretsInOrder, StepsInOrder, SecretIsThere, ConfigIsThere,
     TemplateIsThere, IsRolledOut, Passed, Visited, Wanted
<1>3. DeployInv => DeployInv'
  BY <1>1, <1>2 DEF DeployInv, downs
<1>4. DownInv => DownInv'
  BY <1>1 DEF DownInv, IdleIsClean, stage, secret, config, template
<1>5. \A D, k : RunInv(D, k) => RunInv(D, k)'
  BY DEF step, dep, tries, spaces, saw, stuck, RunInv, RunTypes, RunSound, Answers,
     HasRefused, Named
<1>6. FleetInv => FleetInv'
  BY DEF FleetInv, history, applied, running, Chronicle, Ledger, IsVersion
<1>7. PairInv => PairInv'
  BY DEF PairInv, TakenTogether, history, applied, running, Chronicle, Ledger, IsVersion
<1> QED
  BY <1>3, <1>4, <1>5, <1>6, <1>7 DEF ClusterInv

\* The invariant of whichever component runs always holds.
LEMMA ClusterAlways == Spec => []ClusterInv
<1>1. Init => ClusterInv
  <2> SUFFICES ASSUME Init PROVE ClusterInv
    OBVIOUS
  <2>1. part = "deploy" => DeployInv
    BY DeployStart DEF Init
  <2>2. part = "down" => DownInv
    BY DownStart DEF Init
  <2>3. part = "run" => RunInv(RunDeps, FALSE)
    BY ThrowawayIsOne, DepsAndNames, RunsStart DEF Init
  <2>4. part = "killed" => RunInv(KilledDeps, TRUE)
    BY KilledIsOne, DepsAndNames, RunsStart DEF Init
  <2>5. part = "fleet" => FleetInv
    BY FleetStart DEF Init
  <2>6. part = "pair" => PairInv
    BY PairStart DEF Init
  <2> QED
    BY <2>1, <2>2, <2>3, <2>4, <2>5, <2>6 DEF ClusterInv
<1>2. ClusterInv /\ [Next]_vars => ClusterInv'
  <2> SUFFICES ASSUME ClusterInv, Next PROVE ClusterInv'
    BY ClusterStutters
  <2>1. CASE part = "deploy"
    BY <2>1, DeployNext DEF ClusterInv, Next
  <2>2. CASE part = "down"
    BY <2>2, DownNext DEF ClusterInv, Next
  <2>3. CASE part = "run"
    <3>1. RunInv(RunDeps, FALSE)'
      BY <2>3, ThrowawayIsOne, DepsAndNames, RunStepsAreSound DEF ClusterInv, Next
    <3> QED
      BY <2>3, <3>1 DEF ClusterInv, Next
  <2>4. CASE part = "killed"
    <3>1. RunInv(KilledDeps, TRUE)'
      BY <2>4, KilledIsOne, DepsAndNames, RunStepsAreSound DEF ClusterInv, Next
    <3> QED
      BY <2>4, <3>1 DEF ClusterInv, Next
  <2>5. CASE part = "fleet"
    BY <2>5, FleetNext DEF ClusterInv, Next
  <2>6. CASE part = "pair"
    BY <2>6, PairNext DEF ClusterInv, Next
  <2>7. part' = part
    BY DEF Next
  <2> QED
    BY <2>1, <2>2, <2>3, <2>4, <2>5, <2>6, <2>7 DEF ClusterInv
<1> QED
  BY <1>1, <1>2, PTL DEF Spec

\* Of every fleet: whichever pods a deploy looks at and whatever failed before, it
\* takes each built service whose code is not what runs; where no failure splits a
\* deploy it also takes each whose upstream image or files are not the pinned ones
\* (packages/nopo/src/filter.ts).
THEOREM NothingIsMissed == Spec => []NothingOutdatedIsMissed
<1>1. ClusterInv => NothingOutdatedIsMissed
  BY FleetIsWatched, PairIsWatched DEF ClusterInv, NothingOutdatedIsMissed
<1> QED
  BY <1>1, ClusterAlways, PTL

\* Of every project that is deployed, taken down or run in a throwaway namespace:
\* what is reported of the cluster is so (plugins/terraform/src/index.ts).
THEOREM ReportsAreTrue == Spec => []ClusterIsAsReported
<1>1. ClusterInv => ClusterIsAsReported
  <2> SUFFICES ASSUME ClusterInv PROVE ClusterIsAsReported
    OBVIOUS
  <2>1. part = "run" => /\ Throwaway!TypeOK /\ Throwaway!NothingIsLeft /\ Throwaway!Isolated
                        /\ Throwaway!CommandFindsDepsInTime
    BY RunsReport, ThrowawayIsOne DEF ClusterInv
  <2>2. part = "killed" => Killed!TypeOK /\ Killed!Isolated /\ Killed!CommandFindsDepsInTime
    BY RunsReport, KilledIsOne DEF ClusterInv
  <2> QED
    BY <2>1, <2>2, DeployReports, DownReports DEF ClusterInv, ClusterIsAsReported
<1> QED
  BY <1>1, ClusterAlways, PTL

-----------------------------------------------------------------------------
(* Docker images. *)

\* A finite set, one element after the other.
LEMMA SetIsListed ==
  ASSUME NEW S, IsFiniteSet(S), NEW q,
         q = CHOOSE f \in [1 .. Cardinality(S) -> S] : \A a, b \in DOMAIN f : f[a] = f[b] => a = b
  PROVE  q \in Seq(S) /\ These(q) = S
<1>1. Cardinality(S) \in Nat /\ ExistsBijection(1 .. Cardinality(S), S)
  BY FS_CardinalityType
<1>2. PICK g \in [1 .. Cardinality(S) -> S] : \A a, b \in DOMAIN g : g[a] = g[b] => a = b
  BY <1>1 DEF ExistsBijection, Bijection, Injection, IsInjective
<1>3. q \in [1 .. Cardinality(S) -> S] /\ \A a, b \in DOMAIN q : q[a] = q[b] => a = b
  BY <1>2, ZenonT(60)
<1>4. IsFiniteSet(1 .. Cardinality(S)) /\ Cardinality(1 .. Cardinality(S)) = Cardinality(S)
  BY <1>1, FS_Interval
<1>5. q \in Injection(1 .. Cardinality(S), S)
  BY <1>3 DEF Injection, IsInjective
<1>6. q \in Surjection(1 .. Cardinality(S), S)
  BY <1>4, <1>5, FS_Injection
<1>7. q \in Seq(S) /\ Len(q) = Cardinality(S)
  BY <1>1, <1>3
<1>8. These(q) = S
  BY <1>6, <1>7 DEF Surjection, These
<1> QED
  BY <1>7, <1>8

-----------------------------------------------------------------------------
(* Image builds. *)

bakePc == v1
bakeFlags == v2
bakeKind == v3
bakeTodo == v4
bakeDef == v5
bakeDirs == v6
bakeEnv == v7
bakeBuilt == v8
bakeShipped == v9
bakeFile == v11
bakeHow == v12
Bases == {"root", "root-info"}
\* The services that are in the definition, and those that will be.
Served == DOMAIN bakeDef \ Bases
ToBake == IF bakeFlags.dev THEN Baked!needsBuild ELSE Baked!Claims
TagOf(s) == <<"own", "image-", s>>
Leaves == {t \in DOMAIN bakeDef : bakeDef[t].output \in {"push", "registry"}}
\* The last bake succeeded.
IsBaked == bakePc \in {"info", "post", "done"} \/ (bakePc = "cleanup" /\ bakeHow = "ok")

BakeTypes ==
  /\ bakePc \in {"start", "base", "generate", "bake", "info", "cleanup", "post", "done", "failed"}
  /\ bakeFlags \in BakeFlags /\ bakeKind \in [BakeServices -> BakeKinds]
  /\ bakeTodo \in Seq(BakeServices) /\ bakeHow \in {"ok", "failed"}
  /\ bakeFile.of \subseteq BakeServices
Unstarted ==
  /\ bakeTodo = <<>> /\ bakeDef = <<>> /\ bakeDirs = {} /\ bakeEnv = {} /\ bakeBuilt = {}
  /\ bakeShipped = {} /\ bakeFile = Baked!Absent /\ bakeHow = "ok"
\* Every target can be built, and names what it builds.
TargetsSound ==
  /\ Bases \subseteq DOMAIN bakeDef /\ Served \subseteq BakeServices
  /\ These(bakeTodo) \cup Served = ToBake
  /\ \A t \in DOMAIN bakeDef :
       /\ bakeDef[t].from \subseteq Bases
       /\ bakeDef[t].output = IF t = "root-info" THEN "none" ELSE Baked!Output
       /\ t \in Served => TagOf(t) \in bakeDef[t].tags
\* What there is before the last bake, or where one failed.
NotBaked ==
  /\ bakeShipped = {} /\ bakeBuilt \subseteq {"root"} /\ bakeFile = Baked!Absent
  /\ bakePc \in {"base", "generate", "bake"} => bakeHow = "ok"
  /\ bakePc \in {"base", "generate"} => bakeEnv = {}
  /\ bakePc = "base" => bakeFlags.dev /\ Served = {}
  /\ bakePc = "bake" => bakeTodo = <<>> /\ bakeEnv = {TagOf(s) : s \in Served}
\* What there is after it: in dev mode it may be the base image and no more.
BakedWhole ==
  /\ bakeTodo = <<>> /\ bakeEnv = {TagOf(s) : s \in Served} /\ bakeHow = "ok"
  /\ \/ bakeBuilt = DOMAIN bakeDef /\ bakeShipped = Leaves
     \/ bakeFlags.dev /\ bakeBuilt = {"root"} /\ bakeShipped = {} /\ Served = {}
  /\ bakePc = "info" => bakeFile = Baked!Absent
  /\ bakePc # "done" /\ bakeFile # Baked!Absent => ~bakeFlags.dev /\ bakeFile.of = Baked!Claims
DirsSound ==
  /\ bakeDirs \subseteq DOMAIN bakeDef
  /\ bakePc \in {"info", "cleanup"} => ~bakeFlags.dev
  /\ ~bakeFlags.dev /\ bakePc \in {"post", "done", "failed"} => bakeDirs = {}
ImageInv ==
  /\ BakeTypes /\ DirsSound
  /\ bakePc = "start" => Unstarted
  /\ bakePc # "start" => TargetsSound
  /\ bakePc # "start" /\ ~IsBaked => NotBaked
  /\ IsBaked => BakedWhole

\* The flags and the services stay what they are.
LEMMA AskedStays ==
  ASSUME UNCHANGED <<v2, v3>>
  PROVE  /\ Baked!Claims' = Baked!Claims /\ Baked!needsBuild' = Baked!needsBuild
         /\ Baked!Output' = Baked!Output /\ ToBake' = ToBake
         /\ bakeFlags' = bakeFlags /\ bakeKind' = bakeKind
  BY DEF Baked!Claims, Baked!needsBuild, Baked!Output, Baked!Push, ToBake, bakeFlags, bakeKind

\* Nothing is staged, written or baked at first.
LEMMA ImageStart == Baked!Init => ImageInv
<1> SUFFICES ASSUME Baked!Init PROVE ImageInv
  OBVIOUS
<1>1. bakePc = "start" /\ Unstarted /\ bakeFlags \in BakeFlags
      /\ bakeKind \in [BakeServices -> BakeKinds]
  BY DEF Baked!Init, Unstarted, bakePc, bakeFlags, bakeKind, bakeTodo, bakeDef, bakeDirs, bakeEnv,
     bakeBuilt, bakeShipped, bakeFile, bakeHow
<1>2. ~IsBaked
  BY <1>1 DEF IsBaked
<1>3. BakeTypes /\ DirsSound
  BY <1>1 DEF Unstarted, BakeTypes, DirsSound, Baked!Absent
<1> QED
  BY <1>1, <1>2, <1>3 DEF ImageInv

\* The batch starts: what is asked for, one service after the other.
LEMMA ImageStarts == ImageInv /\ Baked!Start => ImageInv'
<1> SUFFICES ASSUME ImageInv, Baked!Start PROVE ImageInv'
  OBVIOUS
<1>1. /\ bakePc = "start" /\ bakePc' = (IF bakeFlags.dev THEN "base" ELSE "generate")
      /\ bakeTodo' = Baked!SetToSeq(ToBake) /\ bakeDef' = Baked!RootTargets
      /\ UNCHANGED <<v2, v3, v6, v7, v8, v9, v10, v11, v12>>
  BY DEF Baked!Start, ToBake, bakePc, bakeFlags, bakeTodo, bakeDef
<1>2. Unstarted /\ BakeTypes
  BY <1>1 DEF ImageInv
<1>3. /\ bakeDirs' = {} /\ bakeEnv' = {} /\ bakeBuilt' = {} /\ bakeShipped' = {}
      /\ bakeFile' = Baked!Absent /\ bakeHow' = "ok"
  BY <1>1, <1>2 DEF Unstarted, bakeDirs, bakeEnv, bakeBuilt, bakeShipped, bakeFile, bakeHow
<1>4. ToBake \subseteq BakeServices
  BY DEF ToBake, Baked!needsBuild, Baked!Claims
<1>5. bakeTodo' \in Seq(BakeServices) /\ These(bakeTodo') = ToBake
  <2>1. IsFiniteSet(ToBake)
    <3>1. Baked!IsFiniteSet(BakeServices)
      BY ReleaseAssumptions DEF Baked!BakeAssumption
    <3>2. IsFiniteSet(BakeServices)
      BY <3>1 DEF IsFiniteSet, Baked!IsFiniteSet
    <3> QED
      BY <1>4, <3>2, FS_Subset
  <2>2. bakeTodo' \in Seq(ToBake) /\ These(bakeTodo') = ToBake
    <3>1. \A S : Baked!Cardinality(S) = Cardinality(S)
      BY DEF Cardinality, Baked!Cardinality
    <3> QED
      BY <1>1, <2>1, <3>1, SetIsListed DEF Baked!SetToSeq, Baked!IsInjective
  <2> QED
    BY <1>4, <2>2
<1>6. /\ DOMAIN bakeDef' = Bases /\ bakeDef'["root"].from = {} /\ bakeDef'["root-info"].from = {}
      /\ bakeDef'["root"].output = Baked!Output /\ bakeDef'["root-info"].output = "none"
  BY <1>1 DEF Baked!RootTargets, Baked!RootTarget, Baked!Target, Baked!Root, Baked!Info, Bases
<1>7. Served' = {}
  BY <1>6 DEF Served
<1>8. TargetsSound'
  BY <1>1, <1>5, <1>6, <1>7, AskedStays DEF TargetsSound, Bases, These
<1>9. bakePc' \in {"base", "generate"} /\ ~IsBaked' /\ (bakePc' = "base" => bakeFlags'.dev)
  BY <1>1, AskedStays DEF IsBaked
<1>10. NotBaked'
  BY <1>3, <1>7, <1>9 DEF NotBaked
<1>11. BakeTypes' /\ DirsSound'
  BY <1>2, <1>3, <1>5, <1>6, <1>9, <1>1, AskedStays DEF BakeTypes, DirsSound, Baked!Absent
<1> QED
  BY <1>8, <1>9, <1>10, <1>11 DEF ImageInv

\* What a bake starts from stays until a service is added.
LEMMA TargetsStay ==
  ASSUME UNCHANGED <<v2, v3, v4, v5>>
  PROVE  /\ TargetsSound => TargetsSound'
         /\ Served' = Served /\ Leaves' = Leaves /\ bakeTodo' = bakeTodo /\ bakeDef' = bakeDef
<1>1. /\ Served' = Served /\ Leaves' = Leaves /\ bakeTodo' = bakeTodo /\ bakeDef' = bakeDef
  BY DEF Served, Leaves, bakeTodo, bakeDef
<1>2. ToBake' = ToBake /\ Baked!Output' = Baked!Output
  BY AskedStays
<1>3. These(bakeTodo)' = These(bakeTodo)
  BY <1>1 DEF These
<1> QED
  BY <1>1, <1>2, <1>3 DEF TargetsSound

\* A step that fails ends the batch, by way of the cleanup outside dev mode.
LEMMA ImageFails ==
  ASSUME ImageInv, bakePc \in {"base", "generate", "bake"}, Baked!Throw,
         UNCHANGED <<v2, v3, v4, v5, v6, v7, v8, v9, v11>>
  PROVE  ImageInv'
<1>1. /\ bakePc' = (IF bakeFlags.dev THEN "failed" ELSE "cleanup") /\ bakeHow' = "failed"
      /\ bakeFlags' = bakeFlags /\ bakeKind' = bakeKind /\ bakeTodo' = bakeTodo
      /\ bakeDirs' = bakeDirs /\ bakeShipped' = bakeShipped /\ bakeBuilt' = bakeBuilt
      /\ bakeFile' = bakeFile /\ bakeDef' = bakeDef
  BY DEF Baked!Throw, bakePc, bakeHow, bakeFlags, bakeKind, bakeTodo, bakeDef, bakeDirs,
     bakeShipped,
     bakeBuilt, bakeFile
<1>2. ~IsBaked /\ ~IsBaked'
  BY <1>1 DEF IsBaked
<1>3. TargetsSound'
  BY TargetsStay DEF ImageInv
<1>4. NotBaked'
  BY <1>1, <1>2 DEF ImageInv, NotBaked, Baked!Absent
<1>5. BakeTypes' /\ DirsSound'
  BY <1>1 DEF ImageInv, BakeTypes, DirsSound
<1> QED
  BY <1>1, <1>2, <1>3, <1>4, <1>5 DEF ImageInv

\* The base image of a dev build.
LEMMA ImageBase == ImageInv /\ Baked!BakeBase => ImageInv'
<1> SUFFICES ASSUME ImageInv, Baked!BakeBase PROVE ImageInv'
  OBVIOUS
<1>1. /\ bakePc = "base" /\ UNCHANGED <<v2, v3, v4, v5, v6, v7, v9, v11>>
      /\ \/ /\ bakeBuilt' = {"root"} /\ bakeHow' = bakeHow
            /\ bakePc' = (IF bakeTodo = <<>> THEN "post" ELSE "generate")
         \/ Baked!Throw /\ UNCHANGED v8
  BY DEF Baked!BakeBase, Baked!Root, bakePc, bakeTodo, bakeBuilt, bakeHow
<1>2. CASE Baked!Throw /\ UNCHANGED v8
  BY <1>1, <1>2, ImageFails
<1>3. CASE /\ bakeBuilt' = {"root"} /\ bakeHow' = bakeHow
           /\ bakePc' = (IF bakeTodo = <<>> THEN "post" ELSE "generate")
  <2>1. /\ bakeFlags' = bakeFlags /\ bakeKind' = bakeKind /\ bakeDirs' = bakeDirs
        /\ bakeShipped' = bakeShipped /\ bakeFile' = bakeFile /\ bakeEnv' = bakeEnv
        /\ Served' = Served /\ bakeTodo' = bakeTodo /\ bakeDef' = bakeDef
    BY <1>1, TargetsStay DEF bakeFlags, bakeKind, bakeDirs, bakeShipped, bakeFile, bakeEnv
  <2>2. /\ bakeShipped = {} /\ bakeFile = Baked!Absent /\ bakeHow = "ok" /\ bakeEnv = {}
        /\ bakeFlags.dev /\ Served = {} /\ TargetsSound /\ BakeTypes /\ DirsSound
    BY <1>1 DEF ImageInv, IsBaked, NotBaked
  <2>3. TargetsSound'
    BY <1>1, <2>2, TargetsStay
  <2>4. BakeTypes' /\ DirsSound'
    BY <1>3, <2>1, <2>2 DEF BakeTypes, DirsSound
  <2>5. CASE bakeTodo = <<>>
    <3>1. bakePc' = "post" /\ IsBaked'
      BY <1>3, <2>5 DEF IsBaked
    <3>2. BakedWhole'
      BY <1>3, <2>1, <2>2, <2>5, <3>1 DEF BakedWhole, Baked!Absent
    <3> QED
      BY <2>3, <2>4, <3>1, <3>2 DEF ImageInv
  <2>6. CASE bakeTodo # <<>>
    <3>1. bakePc' = "generate" /\ ~IsBaked'
      BY <1>3, <2>6 DEF IsBaked
    <3>2. NotBaked'
      BY <1>3, <2>1, <2>2, <3>1 DEF NotBaked, Baked!Absent
    <3> QED
      BY <2>3, <2>4, <3>1, <3>2 DEF ImageInv
  <2> QED
    BY <2>5, <2>6
<1> QED
  BY <1>1, <1>2, <1>3

\* The target of the next service.
LEMMA ImageGenerates == ImageInv /\ Baked!Generate => ImageInv'
<1> SUFFICES ASSUME ImageInv, Baked!Generate PROVE ImageInv'
  OBVIOUS
<1> DEFINE s == Head(bakeTodo)
<1>1. /\ bakePc = "generate" /\ bakeTodo # <<>> /\ UNCHANGED <<v2, v3, v7, v8, v9, v11>>
      /\ \/ Baked!Throw /\ UNCHANGED <<v4, v5, v6>>
         \/ /\ bakeTodo' = Tail(bakeTodo) /\ bakePc' = bakePc /\ bakeHow' = bakeHow
            /\ bakeDef' = [t \in DOMAIN bakeDef \cup {s} |->
                             IF t = s THEN Baked!ServiceTarget(s) ELSE bakeDef[t]]
            /\ bakeDirs' \in {bakeDirs, bakeDirs \cup {s}}
  BY DEF Baked!Generate, bakePc, bakeTodo, bakeDef, bakeDirs, bakeHow
<1>2. CASE Baked!Throw /\ UNCHANGED <<v4, v5, v6>>
  BY <1>1, <1>2, ImageFails
<1>3. CASE /\ bakeTodo' = Tail(bakeTodo) /\ bakePc' = bakePc /\ bakeHow' = bakeHow
           /\ bakeDef' = [t \in DOMAIN bakeDef \cup {s} |->
                            IF t = s THEN Baked!ServiceTarget(s) ELSE bakeDef[t]]
           /\ bakeDirs' \in {bakeDirs, bakeDirs \cup {s}}
  <2>1. /\ bakeFlags' = bakeFlags /\ bakeKind' = bakeKind /\ bakeBuilt' = bakeBuilt
        /\ bakeShipped' = bakeShipped /\ bakeFile' = bakeFile /\ bakeEnv' = bakeEnv
        /\ ToBake' = ToBake /\ Baked!Output' = Baked!Output
    BY <1>1, AskedStays DEF bakeBuilt, bakeShipped, bakeFile, bakeEnv
  <2>2. TargetsSound /\ BakeTypes /\ DirsSound /\ NotBaked
    BY <1>1 DEF ImageInv, IsBaked
  <2>3. /\ s \in BakeServices /\ bakeTodo' \in Seq(BakeServices)
        /\ These(bakeTodo) = {s} \cup These(bakeTodo')
    <3>1. bakeTodo \in Seq(BakeServices)
      BY <2>2 DEF BakeTypes
    <3>2. /\ s \in BakeServices /\ bakeTodo' \in Seq(BakeServices) /\ s = bakeTodo[1]
          /\ Len(bakeTodo) \in Nat /\ Len(bakeTodo') = Len(bakeTodo) - 1
          /\ \A i \in 1 .. Len(bakeTodo') : bakeTodo'[i] = bakeTodo[i + 1]
      BY <1>1, <1>3, <3>1, HeadTailProperties
    <3>3. Len(bakeTodo) # 0
      BY <1>1, <3>1
    <3>4. \A i \in 1 .. Len(bakeTodo) : i = 1 \/ (i - 1 \in 1 .. Len(bakeTodo')
                                                 /\ bakeTodo[i] = bakeTodo'[i - 1])
      BY <3>2
    <3>5. \A i \in 1 .. Len(bakeTodo') : i + 1 \in 1 .. Len(bakeTodo)
      BY <3>2
    <3>6. These(bakeTodo) \subseteq {s} \cup These(bakeTodo')
      BY <3>2, <3>4 DEF These
    <3>7. {s} \cup These(bakeTodo') \subseteq These(bakeTodo)
      BY <3>2, <3>3, <3>5 DEF These
    <3> QED
      BY <3>2, <3>6, <3>7
  <2>4. s \notin Bases
    BY <2>3, ReleaseAssumptions DEF Baked!BakeAssumption, Baked!Root, Baked!Info, Bases
  <2>5. Served' = Served \cup {s} /\ DOMAIN bakeDef' = DOMAIN bakeDef \cup {s}
    BY <1>3, <2>4 DEF Served
  <2>6. LET t == Baked!ServiceTarget(s)
        IN  t.from = Bases /\ t.output = Baked!Output /\ TagOf(s) \in t.tags
    BY DEF Baked!ServiceTarget, Baked!Target, Baked!serviceImageTags, Baked!serviceImageTag,
       Baked!OwnRegistry, Baked!Root, Baked!Info, Bases, TagOf
  <2>7. TargetsSound'
    <3>1. Bases \subseteq DOMAIN bakeDef' /\ Served' \subseteq BakeServices
      BY <2>2, <2>3, <2>5 DEF TargetsSound
    <3>2. These(bakeTodo') \cup Served' = ToBake'
      BY <2>1, <2>2, <2>3, <2>5 DEF TargetsSound
    <3>3. ASSUME NEW t \in DOMAIN bakeDef'
          PROVE  /\ bakeDef'[t].from \subseteq Bases
                 /\ bakeDef'[t].output = IF t = "root-info" THEN "none" ELSE Baked!Output
                 /\ t \in Served' => TagOf(t) \in bakeDef'[t].tags
      <4>1. CASE t = s
        <5>1. bakeDef'[t] = Baked!ServiceTarget(s) /\ s # "root-info"
          BY <1>3, <2>4, <2>5, <4>1 DEF Bases
        <5> QED
          BY <2>6, <4>1, <5>1
      <4>2. CASE t # s
        <5>1. t \in DOMAIN bakeDef /\ bakeDef'[t] = bakeDef[t] /\ (t \in Served' => t \in Served)
          BY <1>3, <2>5, <3>3, <4>2
        <5> QED
          BY <2>2, <5>1 DEF TargetsSound
      <4> QED
        BY <4>1, <4>2
    <3> QED
      BY <2>1, <3>1, <3>2, <3>3 DEF TargetsSound, TagOf, These
  <2>8. BakeTypes' /\ DirsSound'
    BY <1>1, <1>3, <2>1, <2>2, <2>3, <2>5 DEF BakeTypes, DirsSound
  <2>9. NotBaked' /\ ~IsBaked' /\ bakePc' = "generate"
    BY <1>1, <1>3, <2>1, <2>2 DEF NotBaked, IsBaked, Baked!Absent
  <2> QED
    BY <2>7, <2>8, <2>9 DEF ImageInv
<1> QED
  BY <1>1, <1>2, <1>3

\* The tags are saved.
LEMMA ImageSaves == ImageInv /\ Baked!SaveEnv => ImageInv'
<1> SUFFICES ASSUME ImageInv, Baked!SaveEnv PROVE ImageInv'
  OBVIOUS
<1>1. /\ bakePc = "generate" /\ bakeTodo = <<>> /\ bakePc' = "bake"
      /\ bakeEnv' = {TagOf(s) : s \in Served} /\ UNCHANGED <<v2, v3, v4, v5, v6, v8, v9, v11, v12>>
  BY DEF Baked!SaveEnv, Baked!serviceImageTag, Baked!OwnRegistry, Baked!Root, Baked!Info, Served,
     Bases, TagOf, bakePc, bakeTodo, bakeEnv, bakeDef
<1>2. /\ bakeFlags' = bakeFlags /\ bakeKind' = bakeKind /\ bakeBuilt' = bakeBuilt
      /\ bakeShipped' = bakeShipped /\ bakeFile' = bakeFile /\ bakeDirs' = bakeDirs
      /\ Served' = Served /\ bakeTodo' = bakeTodo /\ bakeDef' = bakeDef /\ bakeHow' = bakeHow
  BY <1>1, TargetsStay DEF bakeFlags, bakeKind, bakeDirs, bakeShipped, bakeFile, bakeBuilt, bakeHow
<1>3. TargetsSound /\ BakeTypes /\ DirsSound /\ NotBaked
  BY <1>1 DEF ImageInv, IsBaked
<1>4. TargetsSound'
  BY <1>1, <1>3, TargetsStay
<1>5. BakeTypes' /\ DirsSound'
  BY <1>1, <1>2, <1>3 DEF BakeTypes, DirsSound
<1>6. NotBaked' /\ ~IsBaked'
  BY <1>1, <1>2, <1>3 DEF NotBaked, IsBaked, Baked!Absent, TagOf
<1> QED
  BY <1>1, <1>4, <1>5, <1>6 DEF ImageInv

\* The bake.
LEMMA ImageBakes == ImageInv /\ Baked!Bake => ImageInv'
<1> SUFFICES ASSUME ImageInv, Baked!Bake PROVE ImageInv'
  OBVIOUS
<1>1. /\ bakePc = "bake" /\ UNCHANGED <<v2, v3, v4, v5, v6, v7, v11>>
      /\ \/ /\ bakeBuilt' = DOMAIN bakeDef /\ bakeShipped' = Leaves /\ bakeHow' = bakeHow
            /\ bakePc' = (IF bakeFlags.dev THEN "post"
                          ELSE IF bakeFlags.output THEN "info" ELSE "cleanup")
         \/ Baked!Throw /\ UNCHANGED <<v8, v9>>
  BY DEF Baked!Bake, Leaves, bakePc, bakeDef, bakeFlags, bakeBuilt, bakeShipped, bakeHow
<1>2. CASE Baked!Throw /\ UNCHANGED <<v8, v9>>
  BY <1>1, <1>2, ImageFails
<1>3. CASE /\ bakeBuilt' = DOMAIN bakeDef /\ bakeShipped' = Leaves /\ bakeHow' = bakeHow
           /\ bakePc' = (IF bakeFlags.dev THEN "post"
                         ELSE IF bakeFlags.output THEN "info" ELSE "cleanup")
  <2>1. /\ bakeFlags' = bakeFlags /\ bakeKind' = bakeKind /\ bakeDirs' = bakeDirs
        /\ bakeFile' = bakeFile /\ bakeEnv' = bakeEnv /\ Leaves' = Leaves
        /\ Served' = Served /\ bakeTodo' = bakeTodo /\ bakeDef' = bakeDef
    BY <1>1, TargetsStay DEF bakeFlags, bakeKind, bakeDirs, bakeFile, bakeEnv
  <2>2. TargetsSound /\ BakeTypes /\ DirsSound /\ NotBaked
    BY <1>1 DEF ImageInv, IsBaked
  <2>3. /\ bakeTodo = <<>> /\ bakeEnv = {TagOf(s) : s \in Served} /\ bakeHow = "ok"
        /\ bakeFile = Baked!Absent
    BY <1>1, <2>2 DEF NotBaked
  <2>4. TargetsSound'
    BY <1>1, <2>2, TargetsStay
  <2>5. BakeTypes' /\ DirsSound'
    BY <1>1, <1>3, <2>1, <2>2 DEF BakeTypes, DirsSound
  <2>6. IsBaked' /\ BakedWhole'
    BY <1>3, <2>1, <2>3 DEF IsBaked, BakedWhole, Baked!Absent, TagOf
  <2> QED
    BY <1>3, <2>4, <2>5, <2>6 DEF ImageInv
<1> QED
  BY <1>1, <1>2, <1>3

\* The build info, the cleanup, and the node after the batch.
LEMMA ImageEnds ==
  ImageInv /\ (Baked!outputBuildInfo \/ Baked!cleanupTempContexts \/ Baked!buildPost) => ImageInv'
<1> SUFFICES ASSUME ImageInv,
                    Baked!outputBuildInfo \/ Baked!cleanupTempContexts \/ Baked!buildPost
             PROVE  ImageInv'
  OBVIOUS
<1>1. /\ bakePc \in {"info", "cleanup", "post"} /\ UNCHANGED <<v2, v3, v4, v5, v7, v8, v9, v12>>
      /\ \/ /\ bakePc = "info" /\ bakePc' = "cleanup" /\ bakeDirs' = bakeDirs
            /\ bakeFile' = [is |-> "images", of |-> Baked!Claims]
         \/ /\ bakePc = "cleanup" /\ bakePc' = (IF bakeHow = "ok" THEN "post" ELSE "failed")
            /\ bakeDirs' = {} /\ bakeFile' = bakeFile
         \/ /\ bakePc = "post" /\ bakePc' = "done" /\ bakeDirs' = bakeDirs
            /\ bakeFile' \in {[is |-> "{}", of |-> {}], bakeFile}
  BY DEF Baked!outputBuildInfo, Baked!cleanupTempContexts, Baked!buildPost, bakePc, bakeDirs,
     bakeFile, bakeHow
<1>2. /\ bakeFlags' = bakeFlags /\ bakeKind' = bakeKind /\ bakeBuilt' = bakeBuilt
      /\ bakeShipped' = bakeShipped /\ bakeEnv' = bakeEnv /\ Leaves' = Leaves
      /\ Served' = Served /\ bakeTodo' = bakeTodo /\ bakeDef' = bakeDef /\ bakeHow' = bakeHow
      /\ Baked!Claims' = Baked!Claims
  BY <1>1, TargetsStay, AskedStays DEF bakeEnv, bakeShipped, bakeBuilt, bakeHow
<1>3. TargetsSound /\ TargetsSound' /\ BakeTypes /\ DirsSound
  BY <1>1, TargetsStay DEF ImageInv
<1>4. BakeTypes' /\ DirsSound'
  <2>1. Baked!Claims \subseteq BakeServices
    BY DEF Baked!Claims
  <2>2. bakeFile'.of \subseteq BakeServices
    <3>1. /\ [is |-> "images", of |-> Baked!Claims].of = Baked!Claims
          /\ [is |-> "{}", of |-> {}].of = {}
      OBVIOUS
    <3>2. bakeFile'.of \in {Baked!Claims, {}, bakeFile.of}
      BY <1>1, <3>1
    <3>3. bakeFile.of \subseteq BakeServices
      BY <1>3 DEF BakeTypes
    <3> QED
      BY <2>1, <3>2, <3>3
  <2>3. BakeTypes'
    BY <1>1, <1>2, <1>3, <2>2 DEF BakeTypes
  <2>4. DirsSound'
    BY <1>1, <1>2, <1>3 DEF DirsSound
  <2> QED
    BY <2>3, <2>4
<1>5. CASE IsBaked
  <2>1. BakedWhole
    BY <1>5 DEF ImageInv
  <2>2. IsBaked'
    BY <1>1, <1>2, <1>5, <2>1 DEF IsBaked, BakedWhole
  <2>3. bakePc' # "done" /\ bakeFile' # Baked!Absent
        => ~bakeFlags'.dev /\ bakeFile'.of = Baked!Claims'
    <3>1. CASE bakePc = "info"
      BY <1>1, <1>2, <1>3, <3>1 DEF DirsSound
    <3>2. CASE bakePc # "info"
      BY <1>1, <1>2, <2>1, <3>2 DEF BakedWhole
    <3> QED
      BY <3>1, <3>2
  <2>4. BakedWhole'
    BY <1>1, <1>2, <2>1, <2>3 DEF BakedWhole, Baked!Absent, TagOf
  <2> QED
    BY <1>1, <1>3, <1>4, <2>2, <2>4 DEF ImageInv
<1>6. CASE ~IsBaked
  <2>1. bakePc = "cleanup" /\ bakePc' = "failed" /\ NotBaked
    BY <1>1, <1>6 DEF IsBaked, ImageInv
  <2>2. NotBaked' /\ ~IsBaked'
    BY <1>1, <1>2, <2>1 DEF NotBaked, IsBaked, Baked!Absent
  <2> QED
    BY <1>3, <1>4, <2>1, <2>2 DEF ImageInv
<1> QED
  BY <1>5, <1>6

\* Each step of a build keeps what is known of it.
LEMMA ImageNext == ImageInv /\ Baked!Next => ImageInv'
  BY ImageStarts, ImageBase, ImageGenerates, ImageSaves, ImageBakes, ImageEnds DEF Baked!Next

\* What is known of a build is what is claimed of it.
LEMMA ImageReports ==
  ASSUME ImageInv
  PROVE  /\ Baked!TypeOK /\ Baked!ContextsRemoved /\ Baked!BasesDefined
         /\ Baked!EnvNamesBuiltImages /\ Baked!InfoListsBuilt /\ Baked!ShippedWhenAsked
<1>1. CASE bakePc = "start"
  <2>1. Unstarted /\ BakeTypes /\ DirsSound
    BY <1>1 DEF ImageInv
  <2> QED
    BY <1>1, <2>1 DEF Unstarted, BakeTypes, DirsSound, Baked!TypeOK, Baked!ContextsRemoved,
       Baked!BasesDefined, Baked!EnvNamesBuiltImages, Baked!InfoListsBuilt, Baked!ShippedWhenAsked,
       Baked!Absent, bakePc, bakeTodo, bakeDef, bakeDirs, bakeEnv, bakeBuilt, bakeShipped, bakeFile
<1>2. CASE bakePc # "start"
  <2>1. TargetsSound /\ BakeTypes /\ DirsSound
    BY <1>2 DEF ImageInv
  <2>2. /\ bakeShipped \subseteq bakeBuilt /\ bakeBuilt \subseteq DOMAIN bakeDef
        /\ bakeShipped \in {{}, Leaves}
    <3>1. CASE IsBaked
      BY <2>1, <3>1 DEF ImageInv, BakedWhole, TargetsSound, Leaves, Bases
    <3>2. CASE ~IsBaked
      BY <1>2, <2>1, <3>2 DEF ImageInv, NotBaked, TargetsSound, Bases
    <3> QED
      BY <3>1, <3>2
  <2>3. Baked!TypeOK
    <3>1. DOMAIN bakeDef \subseteq BakeServices \cup Bases
      BY <2>1 DEF TargetsSound, Served
    <3> QED
      BY <2>1, <2>2, <3>1 DEF Baked!TypeOK, Baked!Root, Baked!Info, Bases, BakeTypes, DirsSound,
         bakeDef, bakeDirs, bakeBuilt, bakeShipped, bakeFile
  <2>4. Baked!ContextsRemoved
    BY <2>1 DEF Baked!ContextsRemoved, DirsSound, bakePc, bakeFlags, bakeDirs
  <2>5. Baked!BasesDefined
    BY <2>1 DEF Baked!BasesDefined, TargetsSound, bakePc, bakeDef
  <2>6. Baked!EnvNamesBuiltImages
    <3>1. ASSUME bakePc = "done", NEW tag \in bakeEnv
          PROVE  \E t \in bakeBuilt : tag \in bakeDef[t].tags
      <4>1. BakedWhole
        BY <3>1 DEF ImageInv, IsBaked
      <4>2. PICK s \in Served : tag = TagOf(s)
        BY <3>1, <4>1 DEF BakedWhole
      <4>3. s \in bakeBuilt /\ tag \in bakeDef[s].tags
        BY <2>1, <4>1, <4>2 DEF BakedWhole, TargetsSound, Served
      <4> QED
        BY <4>3
    <3> QED
      BY <3>1 DEF Baked!EnvNamesBuiltImages, bakePc, bakeEnv, bakeBuilt, bakeDef
  <2>7. Baked!InfoListsBuilt
    <3>1. ASSUME bakePc = "post", bakeFile # Baked!Absent
          PROVE  bakeFile.of = bakeBuilt \ Bases
      <4>1. BakedWhole
        BY <3>1 DEF ImageInv, IsBaked
      <4>2. ~bakeFlags.dev /\ bakeFile.of = Baked!Claims /\ bakeBuilt = DOMAIN bakeDef
        BY <3>1, <4>1 DEF BakedWhole
      <4>3. These(bakeTodo) = {}
        BY <4>1 DEF BakedWhole, These
      <4>4. Served = Baked!Claims
        BY <2>1, <4>2, <4>3 DEF TargetsSound, ToBake
      <4> QED
        BY <4>2, <4>4 DEF Served
    <3> QED
      BY <3>1 DEF Baked!InfoListsBuilt, Baked!Root, Baked!Info, Bases, bakePc, bakeFile, bakeBuilt
  <2>8. Baked!ShippedWhenAsked
    <3>1. ASSUME bakePc = "done", Baked!Push PROVE Baked!Claims \cup {"root"} \subseteq bakeShipped
      <4>1. BakedWhole
        BY <3>1 DEF ImageInv, IsBaked
      <4>2. ~bakeFlags.dev /\ Baked!Output = "push"
        BY <3>1 DEF Baked!Push, Baked!Output, bakeFlags
      <4>3. bakeShipped = Leaves /\ These(bakeTodo) = {}
        BY <4>1, <4>2 DEF BakedWhole, These
      <4>4. Served = Baked!Claims
        BY <2>1, <4>2, <4>3 DEF TargetsSound, ToBake
      <4>5. \A t \in Served \cup {"root"} : t \in DOMAIN bakeDef /\ t # "root-info"
        BY <2>1 DEF TargetsSound, Served, Bases
      <4> QED
        BY <2>1, <4>2, <4>3, <4>4, <4>5 DEF TargetsSound, Leaves
    <3>2. ASSUME bakeShipped # {} PROVE Baked!Push \/ (bakeFlags.remote /\ ~bakeFlags.ci)
      <4>1. PICK t \in DOMAIN bakeDef : bakeDef[t].output \in {"push", "registry"}
        BY <2>2, <3>2 DEF Leaves
      <4>2. Baked!Output \in {"push", "registry"}
        BY <2>1, <4>1 DEF TargetsSound
      <4> QED
        BY <4>2 DEF Baked!Output, bakeFlags
    <3> QED
      BY <3>1, <3>2 DEF Baked!ShippedWhenAsked, Baked!Root, bakePc, bakeShipped, bakeFlags
  <2> QED
    BY <2>3, <2>4, <2>5, <2>6, <2>7, <2>8
<1> QED
  BY <1>1, <1>2

\* While images are built, what is known of the build holds.
LEMMA ImageAlways == Spec => [](part = "image" => ImageInv)
<1>1. Init => (part = "image" => ImageInv)
  BY ImageStart DEF Init
<1>2. (part = "image" => ImageInv) /\ [Next]_vars => (part = "image" => ImageInv)'
  <2>1. CASE UNCHANGED vars
    <3> SUFFICES ASSUME part = "image", ImageInv PROVE ImageInv'
      BY <2>1 DEF vars
    <3>1. TargetsSound => TargetsSound'
      BY <2>1, TargetsStay DEF vars
    <3> QED
      BY <2>1, <3>1, AskedStays, TargetsStay DEF vars, ImageInv, BakeTypes, DirsSound, Unstarted,
         IsBaked, NotBaked, BakedWhole, TagOf, Baked!Absent, bakePc, bakeTodo, bakeDef, bakeDirs,
         bakeEnv,
         bakeBuilt, bakeShipped, bakeFile, bakeHow
  <2>2. CASE Next
    BY <2>2, ImageNext DEF Next
  <2> QED
    BY <2>1, <2>2
<1> QED
  BY <1>1, <1>2, PTL DEF Spec

\* Of every set of services and flags: an image build that succeeds has built what .env
\* and the build info name, shipped where it was asked to and nowhere else, and leaves
\* no staged context outside dev mode (plugins/docker/src/index.ts, DockerBuilder).
THEOREM ImagesAreAlwaysWhole == Spec => []ImagesAreWhole
<1>1. (part = "image" => ImageInv) => ImagesAreWhole
  BY ImageReports DEF ImagesAreWhole
<1> QED
  BY <1>1, ImageAlways, PTL

-----------------------------------------------------------------------------
(* The `secret' commands. *)

\* The editor and the configuration see the same blocks in a sound document, and
\* the secrets of a block are a map.
LEMMA BlocksAgree ==
  ASSUME NEW doc, Secret!Sound(doc), NEW r
  PROVE  /\ r \in DOMAIN Secret!Parsed(doc) =>
              Secret!Parsed(doc)[r] = Secret!getRuntimeBlock(doc, r)
         /\ r \notin DOMAIN Secret!Parsed(doc) =>
              Secret!getRuntimeBlock(doc, r) = Secret!Empty
         /\ Secret!Block(Secret!getRuntimeBlock(doc, r))
<1>1. CASE Secret!isFlatRuntime(doc)
  <2>1. Secret!Parsed(doc) = [default |-> doc]
    BY <1>1 DEF Secret!Parsed, Secret!isFlatRuntime, Secret!isRuntimeMapShape
  <2>2. Secret!Block(doc)
    BY <1>1 DEF Secret!Sound, Secret!isFlatRuntime, Secret!isRuntimeMapShape, Secret!Empty
  <2>3. Secret!Block(Secret!Empty)
    BY DEF Secret!Block, Secret!IsMap, Secret!Empty
  <2> QED BY <1>1, <2>1, <2>2, <2>3 DEF Secret!getRuntimeBlock
<1>2. CASE doc = Secret!Empty
  BY <1>2 DEF Secret!Parsed, Secret!getRuntimeBlock, Secret!isFlatRuntime, Secret!Block,
     Secret!isRuntimeMapShape, Secret!IsMap, Secret!MapAt, Secret!Empty
<1>3. CASE Secret!isRuntimeMapShape(doc) /\ \A q \in DOMAIN doc : Secret!Block(doc[q])
  <2>1. Secret!Parsed(doc) = doc /\ ~Secret!isFlatRuntime(doc)
    BY <1>3 DEF Secret!Parsed, Secret!isFlatRuntime, Secret!isRuntimeMapShape
  <2>2. Secret!Block(Secret!Empty)
    BY DEF Secret!Block, Secret!IsMap, Secret!Empty
  <2>3. r \in DOMAIN doc => Secret!IsMap(doc[r])
    BY <1>3 DEF Secret!isRuntimeMapShape
  <2> QED BY <1>3, <2>1, <2>2, <2>3 DEF Secret!getRuntimeBlock, Secret!MapAt
<1> QED BY <1>1, <1>2, <1>3 DEF Secret!Sound

\* A secret is stored at a runtime and a key.
Stored(doc, r, k) == Secret!getRuntimeBlock(doc, r).secrets[k]

\* The envelopes of a sound document are those that the editor reaches by name.
LEMMA EnvelopesAreNamed ==
  ASSUME NEW doc, Secret!Sound(doc), NEW x
  PROVE  x \in Secret!Envelopes(doc) <=>
           /\ Secret!IsEnvelope(x)
           /\ \E r : \E k \in Secret!readSecretKeys(doc, r) : x = Stored(doc, r, k)
<1> DEFINE P == Secret!Parsed(doc)
<1>0. ASSUME NEW r
      PROVE  /\ r \in DOMAIN P => P[r] = Secret!getRuntimeBlock(doc, r)
             /\ r \notin DOMAIN P => Secret!getRuntimeBlock(doc, r) = Secret!Empty
             /\ Secret!Block(Secret!getRuntimeBlock(doc, r))
  BY BlocksAgree
<1>1. ASSUME NEW r \in DOMAIN P, NEW k \in DOMAIN Secret!MapAt(P[r], "secrets")
      PROVE  k \in Secret!readSecretKeys(doc, r) /\ P[r].secrets[k] = Stored(doc, r, k)
  BY <1>1, <1>0 DEF Secret!readSecretKeys, Stored
<1>2. ASSUME NEW r, NEW k \in Secret!readSecretKeys(doc, r)
      PROVE  /\ r \in DOMAIN P /\ k \in DOMAIN Secret!MapAt(P[r], "secrets")
             /\ P[r].secrets[k] = Stored(doc, r, k)
  <2>1. r \in DOMAIN P
    BY <1>0, <1>2 DEF Secret!readSecretKeys, Secret!MapAt, Secret!Empty
  <2> QED BY <1>0, <1>2, <2>1 DEF Secret!readSecretKeys, Stored
<1>3. x \in Secret!Envelopes(doc) <=>
        /\ Secret!IsEnvelope(x)
        /\ \E r \in DOMAIN P : \E k \in DOMAIN Secret!MapAt(P[r], "secrets") :
             x = P[r].secrets[k]
  BY DEF Secret!Envelopes
<1> HIDE DEF P
<1> QED BY <1>1, <1>2, <1>3

\* What one field says, and what a block says: field, key and plain value.
FieldSettings(r, f, n) ==
  IF Secret!IsMap(n) THEN {<<r, f, k, Secret!Plain(n[k])>> : k \in DOMAIN n}
  ELSE {<<r, f, "", Secret!Plain(n)>>}
BlockSettings(r, b) == UNION {FieldSettings(r, f, b[f]) : f \in DOMAIN b}

\* A document says what its blocks say.
LEMMA SettingsAreBlocks ==
  ASSUME NEW doc, Secret!Sound(doc), NEW y
  PROVE  y \in Secret!Settings(doc) <=>
           \E r : y \in BlockSettings(r, Secret!getRuntimeBlock(doc, r))
<1> DEFINE P == Secret!Parsed(doc)
<1>1. ASSUME NEW r
      PROVE  /\ r \in DOMAIN P => P[r] = Secret!getRuntimeBlock(doc, r)
             /\ r \notin DOMAIN P => Secret!getRuntimeBlock(doc, r) = Secret!Empty
  BY BlocksAgree
<1>2. Secret!Settings(doc) = UNION {BlockSettings(r, P[r]) : r \in DOMAIN P}
  BY DEF Secret!Settings, BlockSettings, FieldSettings
<1>3. ASSUME NEW r PROVE BlockSettings(r, Secret!Empty) = {}
  BY DEF BlockSettings, Secret!Empty
<1> HIDE DEF P
<1>4. y \in Secret!Settings(doc) <=> \E r \in DOMAIN P : y \in BlockSettings(r, P[r])
  BY <1>2
<1> QED BY <1>1, <1>3, <1>4

\* Putting a block into a sound document leaves every other block as it was.
LEMMA BlocksArePut ==
  ASSUME NEW doc, Secret!Sound(doc), NEW r, NEW b, Secret!Block(b),
         Secret!isFlatRuntime(doc) /\ r = "default" => Secret!isFlatRuntime(b),
         r \notin Secret!FieldNames \/ r \in DOMAIN doc
  PROVE  /\ Secret!Sound(Secret!PutBlock(doc, r, b))
         /\ \A q : Secret!getRuntimeBlock(Secret!PutBlock(doc, r, b), q) =
                     IF q = r THEN b ELSE Secret!getRuntimeBlock(doc, q)
<1>1. CASE Secret!isFlatRuntime(doc) /\ r = "default"
  <2>1. Secret!PutBlock(doc, r, b) = b
    BY <1>1 DEF Secret!PutBlock
  <2> QED BY <1>1, <2>1 DEF Secret!Sound, Secret!getRuntimeBlock
<1>2. CASE Secret!isFlatRuntime(doc) /\ r # "default"
  <2> DEFINE n == Secret!With([default |-> doc], r, b)
  <2>1. Secret!PutBlock(doc, r, b) = n
    BY <1>2 DEF Secret!PutBlock
  <2>2. DOMAIN n = {"default", r} /\ n[r] = b /\ n["default"] = doc
    BY <1>2 DEF Secret!With
  <2>3. Secret!Block(doc)
    BY <1>2 DEF Secret!Sound, Secret!isFlatRuntime, Secret!isRuntimeMapShape, Secret!Empty
  <2> HIDE DEF n
  <2>4. \A k \in DOMAIN n : Secret!Block(n[k]) /\ Secret!IsMap(n[k])
    BY <2>2, <2>3 DEF Secret!Block
  <2>5. ~Secret!isFlatRuntime(n)
    BY <2>4 DEF Secret!isFlatRuntime
  <2>6. "default" \notin Secret!FieldNames
    BY DEF Secret!FieldNames
  <2>7. Secret!isRuntimeMapShape(n)
    BY <2>2, <2>4, <2>6 DEF Secret!isRuntimeMapShape
  <2>8. Secret!Sound(n)
    BY <2>4, <2>7 DEF Secret!Sound
  <2>9. ASSUME NEW q
        PROVE  Secret!getRuntimeBlock(n, q) = IF q = r THEN b ELSE Secret!getRuntimeBlock(doc, q)
    BY <1>2, <2>2, <2>4, <2>5 DEF Secret!getRuntimeBlock, Secret!MapAt
  <2> QED BY <2>1, <2>8, <2>9
<1>3. CASE ~Secret!isFlatRuntime(doc)
  <2> DEFINE n == Secret!With(doc, r, b)
  <2>1. Secret!PutBlock(doc, r, b) = n
    BY <1>3 DEF Secret!PutBlock
  <2>2. DOMAIN n = DOMAIN doc \cup {r} /\ n[r] = b /\ \A x \in DOMAIN doc \ {r} : n[x] = doc[x]
    BY DEF Secret!With
  <2>3. \A q \in DOMAIN doc : Secret!Block(doc[q]) /\ Secret!IsMap(doc[q])
    BY <1>3 DEF Secret!Sound, Secret!Empty, Secret!Block
  <2>4. DOMAIN doc = {} \/ DOMAIN doc \ Secret!FieldNames # {}
    BY <1>3 DEF Secret!Sound, Secret!Empty, Secret!isRuntimeMapShape
  <2> HIDE DEF n
  <2>5. \A k \in DOMAIN n : Secret!Block(n[k]) /\ Secret!IsMap(n[k])
    BY <2>2, <2>3 DEF Secret!Block
  <2>6. ~Secret!isFlatRuntime(n)
    BY <2>5 DEF Secret!isFlatRuntime
  <2>7. DOMAIN n \ Secret!FieldNames # {}
    BY <2>2, <2>4
  <2>8. Secret!Sound(n)
    BY <2>5, <2>7 DEF Secret!Sound, Secret!isRuntimeMapShape
  <2>9. ASSUME NEW q
        PROVE  Secret!getRuntimeBlock(n, q) = IF q = r THEN b ELSE Secret!getRuntimeBlock(doc, q)
    BY <1>3, <2>2, <2>3, <2>5, <2>6 DEF Secret!getRuntimeBlock, Secret!MapAt
  <2> QED BY <2>1, <2>8, <2>9
<1> QED BY <1>1, <1>2, <1>3

\* A change of the secrets of a block keeps it a block with its other fields, and a
\* flat block flat.
LEMMA SecretsOfABlock ==
  ASSUME NEW b, Secret!Block(b), NEW s, Secret!IsMap(s)
  PROVE  LET c == Secret!With(b, "secrets", s)
         IN /\ Secret!Block(c)
            /\ DOMAIN c = DOMAIN b \cup {"secrets"}
            /\ c.secrets = s
            /\ \A f \in DOMAIN b \ {"secrets"} : c[f] = b[f]
            /\ Secret!isFlatRuntime(b) => Secret!isFlatRuntime(c)
<1> DEFINE c == Secret!With(b, "secrets", s)
<1>1. DOMAIN c = DOMAIN b \cup {"secrets"} /\ c["secrets"] = s
      /\ \A x \in DOMAIN b \ {"secrets"} : c[x] = b[x]
  BY DEF Secret!With
<1> HIDE DEF c
<1>2. Secret!Block(c)
  BY <1>1 DEF Secret!Block, Secret!IsMap
<1>3. Secret!isFlatRuntime(b) => Secret!isFlatRuntime(c)
  <2> SUFFICES ASSUME Secret!isFlatRuntime(b) PROVE Secret!isFlatRuntime(c)
    OBVIOUS
  <2>1. PICK f \in DOMAIN b : ~Secret!IsMap(b[f])
    BY DEF Secret!isFlatRuntime
  <2>2. f # "secrets"
    BY <2>1 DEF Secret!Block
  <2> QED BY <1>1, <2>1, <2>2 DEF Secret!isFlatRuntime
<1> QED BY <1>1, <1>2, <1>3 DEF c

\* What the secrets of a document become when those of one block do.
Changed(doc, r, s) ==
  Secret!PutBlock(doc, r, Secret!With(Secret!getRuntimeBlock(doc, r), "secrets", s))

\* What such a change leaves.
LEMMA ChangesOneBlock ==
  ASSUME NEW doc, Secret!Sound(doc), NEW r, NEW s, Secret!IsMap(s),
         r \notin Secret!FieldNames \/ r \in DOMAIN doc
  PROVE  LET b == Secret!getRuntimeBlock(doc, r)
             d == Changed(doc, r, s)
         IN /\ Secret!Sound(d)
            /\ \A q : Secret!getRuntimeBlock(d, q) =
                        IF q = r THEN Secret!With(b, "secrets", s)
                        ELSE Secret!getRuntimeBlock(doc, q)
            /\ \A q : Secret!readSecretKeys(d, q) =
                        IF q = r THEN DOMAIN s ELSE Secret!readSecretKeys(doc, q)
            /\ \A q, k : Stored(d, q, k) = IF q = r THEN s[k] ELSE Stored(doc, q, k)
<1> DEFINE b == Secret!getRuntimeBlock(doc, r)
           c == Secret!With(b, "secrets", s)
           d == Changed(doc, r, s)
<1>1. Secret!Block(b)
  BY BlocksAgree
<1>2. /\ Secret!Block(c) /\ c.secrets = s /\ "secrets" \in DOMAIN c
      /\ Secret!isFlatRuntime(b) => Secret!isFlatRuntime(c)
  <2> HIDE DEF b
  <2>1. /\ Secret!Block(c)
        /\ DOMAIN c = DOMAIN b \cup {"secrets"}
        /\ c.secrets = s
        /\ Secret!isFlatRuntime(b) => Secret!isFlatRuntime(c)
    BY <1>1, SecretsOfABlock
  <2> HIDE DEF c
  <2> QED BY <2>1
<1>3. Secret!isFlatRuntime(doc) /\ r = "default" => Secret!isFlatRuntime(c)
  BY <1>2 DEF Secret!getRuntimeBlock
<1>4. d = Secret!PutBlock(doc, r, c)
  BY DEF Changed
<1> HIDE DEF d, c, b
<1>5. /\ Secret!Sound(d)
      /\ \A q : Secret!getRuntimeBlock(d, q) = IF q = r THEN c ELSE Secret!getRuntimeBlock(doc, q)
  BY <1>2, <1>3, <1>4, BlocksArePut
<1>6. \A q : Secret!readSecretKeys(d, q) =
               IF q = r THEN DOMAIN s ELSE Secret!readSecretKeys(doc, q)
  BY <1>2, <1>5 DEF Secret!readSecretKeys, Secret!MapAt
<1>7. \A q, k : Stored(d, q, k) = IF q = r THEN s[k] ELSE Stored(doc, q, k)
  BY <1>2, <1>5 DEF Stored
<1> QED BY <1>5, <1>6, <1>7 DEF d, c, b

\* What a document says apart from the secrets of r.
Rest(doc, r, y) ==
  \E q : \E f \in DOMAIN Secret!getRuntimeBlock(doc, q) :
    /\ q # r \/ f # "secrets"
    /\ y \in FieldSettings(q, f, Secret!getRuntimeBlock(doc, q)[f])

\* A document says the secrets of r and the rest.
LEMMA SettingsAreSplit ==
  ASSUME NEW doc, Secret!Sound(doc), NEW r, NEW y
  PROVE  y \in Secret!Settings(doc) <=>
           \/ \E l \in Secret!readSecretKeys(doc, r) :
                y = <<r, "secrets", l, Secret!Plain(Stored(doc, r, l))>>
           \/ Rest(doc, r, y)
<1> DEFINE b(q) == Secret!getRuntimeBlock(doc, q)
<1>1. y \in Secret!Settings(doc) <=>
        \E q : \E f \in DOMAIN b(q) : y \in FieldSettings(q, f, b(q)[f])
  BY SettingsAreBlocks DEF BlockSettings
<1>2. Secret!Block(b(r))
  BY BlocksAgree
<1>3. Secret!readSecretKeys(doc, r) = DOMAIN Secret!MapAt(b(r), "secrets")
  BY DEF Secret!readSecretKeys
<1>4. \A l : Stored(doc, r, l) = b(r).secrets[l]
  BY DEF Stored
<1>5. Rest(doc, r, y) <=> \E q : \E f \in DOMAIN b(q) :
        (q # r \/ f # "secrets") /\ y \in FieldSettings(q, f, b(q)[f])
  BY DEF Rest
<1> HIDE DEF b
<1>6. ("secrets" \in DOMAIN b(r) /\ y \in FieldSettings(r, "secrets", b(r).secrets)) <=>
        \E l \in Secret!readSecretKeys(doc, r) :
          y = <<r, "secrets", l, Secret!Plain(Stored(doc, r, l))>>
  BY <1>2, <1>3, <1>4 DEF FieldSettings, Secret!Block, Secret!MapAt, Secret!Empty
<1> QED BY <1>1, <1>5, <1>6

\* A change of the secrets of r leaves the rest.
LEMMA RestStays ==
  ASSUME NEW doc, Secret!Sound(doc), NEW r, NEW s, Secret!IsMap(s),
         r \notin Secret!FieldNames \/ r \in DOMAIN doc, NEW y
  PROVE  Rest(Changed(doc, r, s), r, y) <=> Rest(doc, r, y)
<1> DEFINE b(q) == Secret!getRuntimeBlock(doc, q)
           c(q) == Secret!getRuntimeBlock(Changed(doc, r, s), q)
<1>1. \A q : q # r => c(q) = b(q)
  BY ChangesOneBlock
<1>2. c(r) = Secret!With(b(r), "secrets", s)
  BY ChangesOneBlock
<1>3. Secret!Block(b(r))
  BY BlocksAgree
<1>4. Rest(doc, r, y) <=> \E q : \E f \in DOMAIN b(q) :
        (q # r \/ f # "secrets") /\ y \in FieldSettings(q, f, b(q)[f])
  BY DEF Rest
<1>5. Rest(Changed(doc, r, s), r, y) <=> \E q : \E f \in DOMAIN c(q) :
        (q # r \/ f # "secrets") /\ y \in FieldSettings(q, f, c(q)[f])
  BY DEF Rest
<1> HIDE DEF b, c
<1>6. DOMAIN c(r) = DOMAIN b(r) \cup {"secrets"}
      /\ \A f \in DOMAIN b(r) \ {"secrets"} : c(r)[f] = b(r)[f]
  BY <1>2 DEF Secret!With
<1> QED BY <1>1, <1>4, <1>5, <1>6

\* A value at a runtime and a key, of a document in which there is one.
Kept(doc, d, r, k) ==
  \A q, l : (q # r \/ l # k) =>
    /\ l \in Secret!readSecretKeys(d, q) <=> l \in Secret!readSecretKeys(doc, q)
    /\ l \in Secret!readSecretKeys(doc, q) => Stored(d, q, l) = Stored(doc, q, l)

\* setSecret and unsetSecret are such changes.
LEMMA SetChanges ==
  ASSUME NEW doc, Secret!Sound(doc), NEW r, NEW k, NEW v, k # "leaf",
         r \notin Secret!FieldNames \/ r \in DOMAIN doc
  PROVE  LET d == Secret!setSecret(doc, r, k, v)
         IN /\ Secret!Sound(d) /\ Kept(doc, d, r, k)
            /\ k \in Secret!readSecretKeys(d, r) /\ Stored(d, r, k) = v
            /\ \A y : Rest(d, r, y) <=> Rest(doc, r, y)
<1> DEFINE b == Secret!getRuntimeBlock(doc, r)
           m == Secret!MapAt(b, "secrets")
           s == Secret!With(m, k, v)
           d == Secret!setSecret(doc, r, k, v)
<1>1. d = Changed(doc, r, s)
  BY DEF Secret!setSecret, Changed
<1>2. Secret!IsMap(m)
  BY DEF Secret!MapAt, Secret!IsMap, Secret!Empty
<1>3. DOMAIN m = Secret!readSecretKeys(doc, r)
  BY DEF Secret!readSecretKeys
<1>4. \A l \in DOMAIN m : m[l] = Stored(doc, r, l)
  <2> HIDE DEF b
  <2>1. \A l : Stored(doc, r, l) = b.secrets[l]
    BY DEF Stored, b
  <2> QED BY <2>1 DEF Secret!MapAt, Secret!Empty
<1> HIDE DEF b, m
<1>5. DOMAIN s = DOMAIN m \cup {k} /\ s[k] = v /\ \A l \in DOMAIN m \ {k} : s[l] = m[l]
  BY DEF Secret!With
<1> HIDE DEF s
<1>6. Secret!IsMap(s)
  BY <1>2, <1>5 DEF Secret!IsMap
<1>7. /\ Secret!Sound(d)
      /\ \A q : Secret!readSecretKeys(d, q) =
                  IF q = r THEN DOMAIN s ELSE Secret!readSecretKeys(doc, q)
      /\ \A q, l : Stored(d, q, l) = IF q = r THEN s[l] ELSE Stored(doc, q, l)
  BY <1>1, <1>6, ChangesOneBlock
<1>8. \A y : Rest(d, r, y) <=> Rest(doc, r, y)
  BY <1>1, <1>6, RestStays
<1> HIDE DEF d
<1>9. Kept(doc, d, r, k)
  BY <1>3, <1>4, <1>5, <1>7 DEF Kept
<1>10. k \in Secret!readSecretKeys(d, r) /\ Stored(d, r, k) = v
  BY <1>5, <1>7
<1> QED BY <1>7, <1>8, <1>9, <1>10 DEF d

\* And to take it away is one, too.
LEMMA UnsetChanges ==
  ASSUME NEW doc, Secret!Sound(doc), NEW r, NEW k, Secret!HasSecret(doc, r, k),
         r \notin Secret!FieldNames \/ r \in DOMAIN doc
  PROVE  LET d == Secret!unsetSecret(doc, r, k)
         IN /\ Secret!Sound(d) /\ Kept(doc, d, r, k)
            /\ k \notin Secret!readSecretKeys(d, r)
            /\ \A y : Rest(d, r, y) <=> Rest(doc, r, y)
<1> DEFINE b == Secret!getRuntimeBlock(doc, r)
           s == Secret!Without(b.secrets, k)
           d == Secret!unsetSecret(doc, r, k)
<1>1. d = Changed(doc, r, s)
  BY DEF Secret!unsetSecret, Changed
<1>2. k \in DOMAIN Secret!MapAt(b, "secrets")
  BY DEF Secret!HasSecret, Secret!readSecretKeys
<1>3. DOMAIN Secret!MapAt(b, "secrets") = Secret!readSecretKeys(doc, r)
  BY DEF Secret!readSecretKeys
<1>4. \A l : Stored(doc, r, l) = b.secrets[l]
  BY DEF Stored
<1> HIDE DEF b
<1>5. Secret!IsMap(b.secrets) /\ Secret!MapAt(b, "secrets") = b.secrets
  BY <1>2 DEF Secret!MapAt, Secret!Empty
<1>6. DOMAIN s = DOMAIN b.secrets \ {k} /\ \A l \in DOMAIN s : s[l] = b.secrets[l]
  BY DEF Secret!Without
<1> HIDE DEF s
<1>7. Secret!IsMap(s)
  BY <1>5, <1>6 DEF Secret!IsMap
<1>8. /\ Secret!Sound(d)
      /\ \A q : Secret!readSecretKeys(d, q) =
                  IF q = r THEN DOMAIN s ELSE Secret!readSecretKeys(doc, q)
      /\ \A q, l : Stored(d, q, l) = IF q = r THEN s[l] ELSE Stored(doc, q, l)
  BY <1>1, <1>7, ChangesOneBlock
<1>9. \A y : Rest(d, r, y) <=> Rest(doc, r, y)
  BY <1>1, <1>7, RestStays
<1> HIDE DEF d
<1>10. Kept(doc, d, r, k)
  BY <1>3, <1>4, <1>5, <1>6, <1>8 DEF Kept
<1>11. k \notin Secret!readSecretKeys(d, r)
  BY <1>6, <1>8
<1> QED BY <1>8, <1>9, <1>10, <1>11 DEF d

\* Of all that a document says, such a change touches the one secret.
LEMMA OthersAreKept ==
  ASSUME NEW doc, Secret!Sound(doc), NEW d, Secret!Sound(d), NEW r, NEW k, Kept(doc, d, r, k),
         \A y : Rest(d, r, y) <=> Rest(doc, r, y)
  PROVE  /\ Secret!Others(Secret!Settings(d), r, k) = Secret!Others(Secret!Settings(doc), r, k)
         /\ k \in Secret!readSecretKeys(d, r) =>
              <<r, "secrets", k, Secret!Plain(Stored(d, r, k))>> \in Secret!Settings(d)
         /\ (/\ k \in Secret!readSecretKeys(d, r) /\ k \in Secret!readSecretKeys(doc, r)
             /\ Secret!Plain(Stored(d, r, k)) = Secret!Plain(Stored(doc, r, k)))
            => Secret!Settings(d) = Secret!Settings(doc)
<1> DEFINE Of(e, y) == \E l \in Secret!readSecretKeys(e, r) :
                         y = <<r, "secrets", l, Secret!Plain(Stored(e, r, l))>>
           Target(y) == y[1] = r /\ y[2] = "secrets" /\ y[3] = k
<1>1. \A y : y \in Secret!Settings(d) <=> Of(d, y) \/ Rest(doc, r, y)
  BY SettingsAreSplit
<1>2. \A y : y \in Secret!Settings(doc) <=> Of(doc, y) \/ Rest(doc, r, y)
  BY SettingsAreSplit
<1>3. ASSUME NEW y, ~Target(y) PROVE Of(d, y) <=> Of(doc, y)
  <2>1. \A l : l # k =>
          /\ l \in Secret!readSecretKeys(d, r) <=> l \in Secret!readSecretKeys(doc, r)
          /\ l \in Secret!readSecretKeys(doc, r) => Stored(d, r, l) = Stored(doc, r, l)
    BY DEF Kept
  <2> QED BY <1>3, <2>1
<1>4. k \in Secret!readSecretKeys(d, r) =>
        Of(d, <<r, "secrets", k, Secret!Plain(Stored(d, r, k))>>)
  OBVIOUS
<1>5. ASSUME NEW y, Target(y),
             k \in Secret!readSecretKeys(d, r), k \in Secret!readSecretKeys(doc, r),
             Secret!Plain(Stored(d, r, k)) = Secret!Plain(Stored(doc, r, k))
      PROVE  Of(d, y) <=> Of(doc, y)
  BY <1>5
<1>6. \A S : Secret!Others(S, r, k) = {y \in S : ~Target(y)}
  BY DEF Secret!Others
<1> HIDE DEF Of, Target
<1>7. Secret!Others(Secret!Settings(d), r, k) = Secret!Others(Secret!Settings(doc), r, k)
  BY <1>1, <1>2, <1>3, <1>6
<1>8. (/\ k \in Secret!readSecretKeys(d, r) /\ k \in Secret!readSecretKeys(doc, r)
       /\ Secret!Plain(Stored(d, r, k)) = Secret!Plain(Stored(doc, r, k)))
      => Secret!Settings(d) = Secret!Settings(doc)
  BY <1>1, <1>2, <1>3, <1>5
<1> QED BY <1>1, <1>4, <1>7, <1>8

\* Where a secret is stored, its key and its runtime are names.
LEMMA KeysAreNames ==
  ASSUME NEW doc, Secret!Sound(doc), NEW r, NEW k \in Secret!readSecretKeys(doc, r)
  PROVE  k # "leaf" /\ (r \notin Secret!FieldNames \/ r \in DOMAIN doc)
<1>1. k # "leaf"
  BY DEF Secret!readSecretKeys, Secret!MapAt, Secret!Empty, Secret!IsMap
<1>2. Secret!getRuntimeBlock(doc, r) # Secret!Empty
  BY DEF Secret!readSecretKeys, Secret!MapAt, Secret!Empty
<1>3. r = "default" \/ r \in DOMAIN doc
  BY <1>2 DEF Secret!getRuntimeBlock, Secret!MapAt
<1> QED BY <1>1, <1>3 DEF Secret!FieldNames

(* The invariant, of the files F, the installed identity i, the known ones K,  *)
(* how many were made, what was audited and shown, and the command q.          *)
Rotating == {"collect", "reload", "rewrite", "finish"}
Rewriting == {"reload", "rewrite", "finish"}
Reading == {"load", "save", "decrypt", "audit", "show"}
IsThere(F, f, r, k) ==
  f \in SecretFiles /\ k \in Secret!readSecretKeys(F[f], r) /\ Secret!IsEnvelope(Stored(F[f], r, k))
Names(x, f, r, k) == x.f = f /\ x.r = r /\ x.k = k

\* The documents are sound, and identities are counted.
Counted(F, i, K, m, q) ==
  /\ DOMAIN F = SecretFiles /\ \A f \in SecretFiles : Secret!Sound(F[f])
  /\ m \in Nat /\ m <= MaxIdentity /\ i \in K /\ K \subseteq 1..m
  /\ q.id \in 0..m /\ q.new \in 0..m
\* What a set, unset or get works on.
SecretAnswers(F, K, a, q) ==
  /\ q.pc \in {"idle"} \cup Reading \cup Rotating
  /\ q.pc \in Reading => q.req \in SecretCommands /\ q.req.verb # "rotate-key"
  /\ q.pc \in {"load", "save"} /\ q.req.verb = "set" => q.id \in K
  /\ q.pc = "save" =>
       /\ q.doc = F[q.req.f] /\ q.req.verb \in {"set", "unset"}
       /\ q.req.verb = "unset" => Secret!HasSecret(q.doc, q.req.r, q.req.k)
  /\ q.pc = "show" => q.req \in a
  /\ q.pc = "idle" => q.items = {} /\ q.pending = {}
\* Every envelope can be opened.
Opened(F, K, q) ==
  \A f, r, k : IsThere(F, f, r, k) =>
    \/ Stored(F[f], r, k).leaf.id \in K
    \/ q.pc \in Rewriting /\ Stored(F[f], r, k).leaf.id = q.new
\* What a rotation still has to do.
Rotated(F, K, q) ==
  q.pc \in Rotating =>
    /\ q.id \in K /\ q.new # 0
    /\ q.pc = "collect" =>
         /\ q.todo \subseteq SecretFiles /\ \A x \in q.items : x.f \in SecretFiles
         /\ \A f, r, k : IsThere(F, f, r, k) =>
              f \in q.todo \/ \E x \in q.items \cup q.pending : Names(x, f, r, k)
    /\ \A x \in q.pending :
         IsThere(F, x.f, x.r, x.k) /\ x.plain = Stored(F[x.f], x.r, x.k).leaf.plain
    /\ q.pc \in Rewriting =>
         \A f, r, k : IsThere(F, f, r, k) =>
           Stored(F[f], r, k).leaf.id = q.new \/ \E x \in q.pending : Names(x, f, r, k)
    /\ q.pc = "rewrite" => q.item \in q.pending /\ q.doc = F[q.item.f]
    /\ q.pc = "finish" => q.pending = {}
SecretsHold(F, i, K, m, a, s, q) ==
  /\ Counted(F, i, K, m, q) /\ s \subseteq a
  /\ SecretAnswers(F, K, a, q) /\ Opened(F, K, q) /\ Rotated(F, K, q)
SecretInv ==
  /\ DOMAIN v7 = {p} /\ DOMAIN v7[p] = DOMAIN Secret!Idle
  /\ SecretsHold(v1, v2, v3, v4, v5, v6, v7[p])

\* What is kept of a command.
LEMMA SecretFieldsAre ==
  DOMAIN Secret!Idle = {"pc", "req", "doc", "id", "new", "todo", "items", "pending", "item"}
  BY DEF Secret!Idle

\* A command at rest holds whenever all can be opened.
LEMMA IdleHolds ==
  ASSUME NEW F, NEW i, NEW K, NEW m, NEW a, NEW s,
         DOMAIN F = SecretFiles, \A f \in SecretFiles : Secret!Sound(F[f]),
         m \in Nat, m <= MaxIdentity, i \in K, K \subseteq 1..m, s \subseteq a,
         \A f, r, k : IsThere(F, f, r, k) => Stored(F[f], r, k).leaf.id \in K
  PROVE  SecretsHold(F, i, K, m, a, s, Secret!Idle)
<1> DEFINE q == Secret!Idle
<1>1. q.pc = "idle" /\ q.id = 0 /\ q.new = 0 /\ q.items = {} /\ q.pending = {}
  BY DEF Secret!Idle
<1> HIDE DEF q
<1>2. Counted(F, i, K, m, q)
  BY <1>1 DEF Counted
<1>3. SecretAnswers(F, K, a, q)
  BY <1>1 DEF SecretAnswers, Reading
<1>4. Opened(F, K, q)
  BY <1>1 DEF Opened
<1>5. Rotated(F, K, q)
  BY <1>1 DEF Rotated, Rotating
<1> QED BY <1>2, <1>3, <1>4, <1>5 DEF SecretsHold, q

\* A command that ends and writes nothing, when all can be opened.
LEMMA SecretEnds ==
  ASSUME SecretInv, Secret!Done(p), v7[p].pc \notin Rewriting,
         v1' = v1, v2' = v2, v3' = v3, v4' = v4, v6' \subseteq v5'
  PROVE  SecretInv'
<1>1. v7'[p] = Secret!Idle /\ DOMAIN v7' = {p}
  BY DEF Secret!Done, SecretInv
<1>2. \A f, r, k : IsThere(v1, f, r, k) => Stored(v1[f], r, k).leaf.id \in v3
  BY DEF SecretInv, SecretsHold, Opened
<1>3. /\ DOMAIN v1 = SecretFiles /\ \A f \in SecretFiles : Secret!Sound(v1[f])
      /\ v4 \in Nat /\ v4 <= MaxIdentity /\ v2 \in v3 /\ v3 \subseteq 1..v4
  BY DEF SecretInv, SecretsHold, Counted
<1>4. SecretsHold(v1, v2, v3, v4, v5', v6', Secret!Idle)
  BY <1>2, <1>3, IdleHolds
<1> QED BY <1>1, <1>4 DEF SecretInv

\* A step that only moves the command, and leaves it something to rotate or not.
LEMMA SecretMoves ==
  ASSUME SecretInv, NEW n, n = v7'[p], DOMAIN v7' = {p}, DOMAIN n = DOMAIN v7[p],
         v1' = v1, v2' = v2, v3' = v3, v4' = v4, v6' \subseteq v5',
         n.id \in 0..v4, n.new \in 0..v4, v7[p].pc \notin Rewriting \/ n.pc \in Rewriting,
         n.new = v7[p].new \/ v7[p].pc \notin Rewriting,
         SecretAnswers(v1, v3, v5', n), Rotated(v1, v3, n)
  PROVE  SecretInv'
<1>1. Counted(v1, v2, v3, v4, n)
  BY DEF SecretInv, SecretsHold, Counted
<1>2. Opened(v1, v3, n)
  BY DEF SecretInv, SecretsHold, Opened
<1>3. SecretsHold(v1', v2', v3', v4', v5', v6', v7'[p])
  BY <1>1, <1>2 DEF SecretsHold
<1> QED BY <1>3 DEF SecretInv

\* `set', `unset' and `get' start.
LEMMA SecretStarts ==
  ASSUME SecretInv, NEW req \in SecretCommands, Secret!Start(p, req)
  PROVE  SecretInv'
<1> DEFINE q == v7[p]  n == v7'[p]
<1>1. /\ DOMAIN v7' = {p} /\ DOMAIN n = DOMAIN q /\ n.pc = "load" /\ n.req = req
      /\ n.id = IF req.verb = "set" THEN v2 ELSE 0
      /\ n.new = q.new
  BY SecretFieldsAre DEF SecretInv, Secret!Start, Secret!loadIdentity
<1>2. q.pc = "idle" /\ req.verb # "rotate-key"
  BY DEF Secret!Start, Secret!At
<1>3. v1' = v1 /\ v2' = v2 /\ v3' = v3 /\ v4' = v4 /\ v5' = v5 /\ v6' = v6
  BY DEF Secret!Start
<1>4. SecretsHold(v1, v2, v3, v4, v5, v6, q)
  BY DEF SecretInv
<1> HIDE DEF q, n
<1>5. n.id \in 0..v4 /\ n.new \in 0..v4 /\ v6 \subseteq v5
  BY <1>1, <1>4 DEF SecretsHold, Counted
<1>6. SecretAnswers(v1, v3, v5, n)
  BY <1>1, <1>2, <1>4 DEF SecretsHold, Counted, SecretAnswers, Reading, Rotating
<1>7. Rotated(v1, v3, n)
  BY <1>1 DEF Rotated, Rotating
<1> QED BY <1>1, <1>2, <1>3, <1>5, <1>6, <1>7, SecretMoves DEF q, n, Rewriting

\* A rotation starts with a new identity.
LEMMA RotationStarts ==
  ASSUME Secret!SecretAssumption, SecretInv, NEW req \in SecretCommands,
         Secret!StartRotate(p, req)
  PROVE  SecretInv'
<1> DEFINE q == v7[p]  n == v7'[p]
<1>1. /\ DOMAIN v7' = {p} /\ DOMAIN n = DOMAIN q /\ n.pc = "collect"
      /\ n.id = v2 /\ n.new = v4 + 1 /\ n.todo = SecretFiles
      /\ n.items = q.items /\ n.pending = q.pending
  BY SecretFieldsAre DEF SecretInv, Secret!StartRotate, Secret!loadIdentity
<1>2. q.pc = "idle"
  BY DEF Secret!StartRotate, Secret!At
<1>3. v1' = v1 /\ v2' = v2 /\ v3' = v3 /\ v4' = v4 + 1 /\ v5' = v5 /\ v6' = v6
      /\ v4 < MaxIdentity
  BY DEF Secret!StartRotate
<1>4. SecretsHold(v1, v2, v3, v4, v5, v6, q) /\ DOMAIN q = DOMAIN Secret!Idle
  BY DEF SecretInv
<1> HIDE DEF q, n
<1>5. Counted(v1, v2, v3, v4 + 1, n)
  BY <1>1, <1>3, <1>4 DEF SecretsHold, Counted, Secret!SecretAssumption
<1>6. SecretAnswers(v1, v3, v5, n)
  BY <1>1 DEF SecretAnswers, Reading, Rotating
<1>7. Opened(v1, v3, n)
  BY <1>1, <1>2, <1>4 DEF SecretsHold, Opened, Rewriting
<1>8. q.items = {} /\ q.pending = {}
  BY <1>2, <1>4 DEF SecretsHold, SecretAnswers
<1>9. v2 \in v3 /\ v4 + 1 # 0
  BY <1>4 DEF SecretsHold, Counted
<1>10. Rotated(v1, v3, n)
  BY <1>1, <1>8, <1>9 DEF Rotated, Rewriting, IsThere
<1>11. SecretsHold(v1, v2, v3, v4 + 1, v5, v6, n)
  BY <1>4, <1>5, <1>6, <1>7, <1>10 DEF SecretsHold
<1> QED BY <1>1, <1>3, <1>4, <1>11 DEF SecretInv, q, n

\* They read the file.
LEMMA SecretLoads ==
  ASSUME Secret!SecretAssumption, SecretInv, Secret!Load(p)
  PROVE  SecretInv'
<1> DEFINE q == v7[p]  n == v7'[p]  req == q.req  doc == v1[req.f]
<1>1. v1' = v1 /\ v2' = v2 /\ v3' = v3 /\ v4' = v4 /\ v5' = v5 /\ v6' = v6
  BY DEF Secret!Load
<1>2. q.pc = "load"
  BY DEF Secret!Load, Secret!At
<1>3. SecretsHold(v1, v2, v3, v4, v5, v6, q)
  BY DEF SecretInv
<1>4. q.id \in 0..v4 /\ q.new \in 0..v4 /\ v6 \subseteq v5
  BY <1>3 DEF SecretsHold, Counted
<1>5. CASE Secret!Done(p)
  BY <1>1, <1>2, <1>4, <1>5, SecretEnds DEF Rewriting
<1>6. ASSUME NEW pc \in {"save", "decrypt"}, Secret!Read(p, doc, pc),
             pc = "save" =>
               /\ req.verb \in {"set", "unset"}
               /\ req.verb = "unset" => Secret!HasSecret(doc, req.r, req.k)
      PROVE  SecretInv'
  <2>1. /\ DOMAIN v7' = {p} /\ DOMAIN n = DOMAIN q
        /\ n.pc = pc /\ n.doc = doc /\ n.req = q.req /\ n.id = q.id /\ n.new = q.new
    BY <1>6, SecretFieldsAre DEF SecretInv, Secret!Read
  <2> HIDE DEF q, n, doc
  <2>2. SecretAnswers(v1, v3, v5, n)
    BY <1>2, <1>3, <1>6, <2>1 DEF SecretsHold, SecretAnswers, Reading, Rotating, doc
  <2>3. Rotated(v1, v3, n)
    BY <2>1 DEF Rotated, Rotating
  <2> QED BY <1>1, <1>2, <1>4, <2>1, <2>2, <2>3, SecretMoves DEF q, n, Rewriting
<1>7. \/ req.verb = "set" /\ Secret!Read(p, doc, "save")
      \/ /\ req.verb = "unset" /\ Secret!HasSecret(doc, req.r, req.k)
         /\ Secret!Read(p, doc, "save")
      \/ Secret!Read(p, doc, "decrypt")
      \/ Secret!Done(p)
  BY DEF Secret!Load
<1> QED BY <1>5, <1>6, <1>7

\* `get' decrypts, writes the audit line and shows the value.
LEMMA SecretIsRead ==
  ASSUME SecretInv, Secret!Decrypt(p) \/ Secret!Audit(p) \/ Secret!Show(p)
  PROVE  SecretInv'
<1> DEFINE q == v7[p]  n == v7'[p]
<1>1. v1' = v1 /\ v2' = v2 /\ v3' = v3 /\ v4' = v4
  BY DEF Secret!Decrypt, Secret!Audit, Secret!Show
<1>2. SecretsHold(v1, v2, v3, v4, v5, v6, q)
  BY DEF SecretInv
<1>3. q.id \in 0..v4 /\ q.new \in 0..v4 /\ v6 \subseteq v5
  BY <1>2 DEF SecretsHold, Counted
<1>4. q.pc \in {"decrypt", "audit", "show"}
  BY DEF Secret!Decrypt, Secret!Audit, Secret!Show, Secret!At
<1>5. CASE Secret!Done(p)
  <2>1. q.pc = "show" => q.req \in v5
    BY <1>2 DEF SecretsHold, SecretAnswers
  <2>2. \/ v5' = v5 /\ v6' = v6
        \/ q.pc = "show" /\ v5' = v5 /\ v6' = v6 \cup {q.req}
        \/ v5' = v5 \cup {q.req} /\ v6' = v6
    BY DEF Secret!Decrypt, Secret!Audit, Secret!Show, Secret!At
  <2>3. v6' \subseteq v5'
    BY <1>3, <2>1, <2>2
  <2> QED BY <1>1, <1>4, <1>5, <2>3, SecretEnds DEF Rewriting
<1>6. CASE /\ \/ v7' = [v7 EXCEPT ![p].pc = "audit"] /\ v5' = v5
              \/ v7' = [v7 EXCEPT ![p].pc = "show"] /\ v5' = v5 \cup {q.req}
           /\ v6' = v6
  <2>1. /\ DOMAIN v7' = {p} /\ DOMAIN n = DOMAIN q
        /\ n.req = q.req /\ n.id = q.id /\ n.new = q.new
        /\ n.pc = "audit" \/ (n.pc = "show" /\ q.req \in v5')
        /\ v6' \subseteq v5'
    BY <1>3, <1>6, SecretFieldsAre DEF SecretInv
  <2> HIDE DEF q, n
  <2>2. SecretAnswers(v1, v3, v5', n)
    BY <1>2, <1>4, <2>1 DEF SecretsHold, SecretAnswers, Reading, Rotating
  <2>3. Rotated(v1, v3, n)
    BY <2>1 DEF Rotated, Rotating
  <2> QED BY <1>1, <1>3, <1>4, <2>1, <2>2, <2>3, SecretMoves DEF q, n, Rewriting
<1> QED BY <1>5, <1>6 DEF Secret!Decrypt, Secret!Audit, Secret!Show

\* A file whose document changed at one place.
FileKept(F, G, g, r0, k0) ==
  \A f, r, k : ~(f = g /\ r = r0 /\ k = k0) =>
    /\ IsThere(G, f, r, k) <=> IsThere(F, f, r, k)
    /\ IsThere(F, f, r, k) => Stored(G[f], r, k) = Stored(F[f], r, k)

\* Every other value is where it was, in all files.
LEMMA FilesAreKept ==
  ASSUME NEW F, DOMAIN F = SecretFiles, NEW g \in SecretFiles, NEW d, NEW r0, NEW k0,
         Kept(F[g], d, r0, k0), NEW G, DOMAIN G = SecretFiles, G[g] = d,
         \A f \in SecretFiles \ {g} : G[f] = F[f]
  PROVE  FileKept(F, G, g, r0, k0)
<1>1. ASSUME NEW f, NEW r, NEW k, ~(f = g /\ r = r0 /\ k = k0)
      PROVE  /\ IsThere(G, f, r, k) <=> IsThere(F, f, r, k)
             /\ IsThere(F, f, r, k) => Stored(G[f], r, k) = Stored(F[f], r, k)
  <2>1. CASE f = g
    <3>1. G[f] = d /\ (r # r0 \/ k # k0)
      BY <1>1, <2>1
    <3>2. /\ k \in Secret!readSecretKeys(d, r) <=> k \in Secret!readSecretKeys(F[f], r)
          /\ k \in Secret!readSecretKeys(F[f], r) => Stored(d, r, k) = Stored(F[f], r, k)
      BY <2>1, <3>1 DEF Kept
    <3> QED BY <2>1, <3>1, <3>2 DEF IsThere
  <2>2. CASE f \in SecretFiles \ {g}
    BY <2>2 DEF IsThere
  <2>3. CASE f \notin SecretFiles
    BY <2>3 DEF IsThere
  <2> QED BY <2>1, <2>2, <2>3
<1> QED BY <1>1 DEF FileKept

\* They write it.
LEMMA SecretSaves ==
  ASSUME Secret!SecretAssumption, SecretInv, Secret!Save(p)
  PROVE  SecretInv'
<1> DEFINE q == v7[p]  req == q.req  doc == v1[req.f]  d == Secret!Saved(p)
<1>1. v2' = v2 /\ v3' = v3 /\ v4' = v4 /\ v5' = v5 /\ v6' = v6
  BY DEF Secret!Save
<1>2. q.pc = "save" /\ v1' = [v1 EXCEPT ![req.f] = d]
  BY DEF Secret!Save, Secret!At
<1>3. SecretsHold(v1, v2, v3, v4, v5, v6, q)
  BY DEF SecretInv
<1>4. v7'[p] = Secret!Idle /\ DOMAIN v7' = {p}
  BY DEF Secret!Save, Secret!Done, SecretInv
<1>5. /\ DOMAIN v1 = SecretFiles /\ \A f \in SecretFiles : Secret!Sound(v1[f])
      /\ v4 \in Nat /\ v4 <= MaxIdentity /\ v2 \in v3 /\ v3 \subseteq 1..v4
      /\ v6 \subseteq v5
  BY <1>3 DEF SecretsHold, Counted
<1>6. \A f, r, k : IsThere(v1, f, r, k) => Stored(v1[f], r, k).leaf.id \in v3
  BY <1>2, <1>3 DEF SecretsHold, Opened, Rewriting
<1>7. /\ req \in SecretCommands /\ req.verb \in {"set", "unset"} /\ q.doc = doc
      /\ req.verb = "set" => q.id \in v3
      /\ req.verb = "unset" => Secret!HasSecret(doc, req.r, req.k)
  BY <1>2, <1>3 DEF SecretsHold, SecretAnswers, Reading
<1>8. req.f \in SecretFiles /\ req.r \notin Secret!FieldNames /\ req.k # "leaf"
  BY <1>7 DEF Secret!SecretAssumption
<1>9. d = IF req.verb = "set"
          THEN Secret!setSecret(doc, req.r, req.k, Secret!Sealed(req.v, q.id))
          ELSE Secret!unsetSecret(doc, req.r, req.k)
  BY <1>7 DEF Secret!Saved
<1> HIDE DEF q, req, d
<1>10. /\ Secret!Sound(d) /\ Kept(doc, d, req.r, req.k)
       /\ req.k \in Secret!readSecretKeys(d, req.r) => Stored(d, req.r, req.k).leaf.id \in v3
  <2>1. Secret!Sound(doc)
    BY <1>5, <1>8
  <2> HIDE DEF doc
  <2>2. CASE req.verb = "set"
    <3>1. d = Secret!setSecret(doc, req.r, req.k, Secret!Sealed(req.v, q.id))
      BY <1>9, <2>2
    <3>2. /\ Secret!Sound(d) /\ Kept(doc, d, req.r, req.k)
          /\ Stored(d, req.r, req.k) = Secret!Sealed(req.v, q.id)
      BY <1>8, <2>1, <3>1, SetChanges
    <3> QED BY <1>7, <2>2, <3>2 DEF Secret!Sealed
  <2>3. CASE req.verb = "unset"
    <3>1. d = Secret!unsetSecret(doc, req.r, req.k)
      BY <1>9, <2>3
    <3>2. /\ Secret!Sound(d) /\ Kept(doc, d, req.r, req.k)
          /\ req.k \notin Secret!readSecretKeys(d, req.r)
      BY <1>7, <1>8, <2>1, <2>3, <3>1, UnsetChanges
    <3> QED BY <3>2
  <2> QED BY <1>7, <2>2, <2>3
<1>11a. /\ DOMAIN v1' = SecretFiles /\ v1'[req.f] = d
        /\ \A f \in SecretFiles \ {req.f} : v1'[f] = v1[f]
  BY <1>2, <1>5, <1>8
<1>11. /\ DOMAIN v1' = SecretFiles /\ v1'[req.f] = d
       /\ \A f, r, k : ~(f = req.f /\ r = req.r /\ k = req.k) =>
            /\ IsThere(v1', f, r, k) <=> IsThere(v1, f, r, k)
            /\ IsThere(v1, f, r, k) => Stored(v1'[f], r, k) = Stored(v1[f], r, k)
  <2>1. DOMAIN v1 = SecretFiles /\ req.f \in SecretFiles
    BY <1>5, <1>8
  <2>2. Kept(v1[req.f], d, req.r, req.k)
    BY <1>10
  <2>3. FileKept(v1, v1', req.f, req.r, req.k)
    BY <1>11a, <2>1, <2>2, FilesAreKept
  <2> QED BY <1>11a, <2>3 DEF FileKept
<1>12. \A f \in SecretFiles : Secret!Sound(v1'[f])
  BY <1>5, <1>10, <1>11a
<1>13. \A f, r, k : IsThere(v1', f, r, k) => Stored(v1'[f], r, k).leaf.id \in v3
  <2> SUFFICES ASSUME NEW f, NEW r, NEW k, IsThere(v1', f, r, k)
               PROVE  Stored(v1'[f], r, k).leaf.id \in v3
    OBVIOUS
  <2>1. CASE f = req.f /\ r = req.r /\ k = req.k
    <3>1. req.k \in Secret!readSecretKeys(d, req.r)
      BY <1>11, <2>1 DEF IsThere
    <3> QED BY <1>10, <1>11, <2>1, <3>1
  <2> QED BY <1>6, <1>11, <2>1
<1>14. SecretsHold(v1', v2, v3, v4, v5, v6, Secret!Idle)
  BY <1>5, <1>11, <1>12, <1>13, IdleHolds
<1> QED BY <1>1, <1>4, <1>14 DEF SecretInv

\* A rotation lists the values of a file,
LEMMA AllAreListed ==
  ASSUME NEW doc, NEW r, NEW k \in Secret!readSecretKeys(doc, r)
  PROVE  [r |-> r, k |-> k] \in Secret!listSecrets(doc)
<1> DEFINE rs == IF Secret!isFlatRuntime(doc) THEN {"default"} ELSE DOMAIN doc
           L(s) == {[r |-> s, k |-> l] : l \in Secret!readSecretKeys(doc, s)}
<1>1. Secret!getRuntimeBlock(doc, r) # Secret!Empty
  BY DEF Secret!readSecretKeys, Secret!MapAt, Secret!Empty
<1>2. r \in rs
  BY <1>1 DEF Secret!getRuntimeBlock, Secret!MapAt
<1>3. [r |-> r, k |-> k] \in L(r)
  OBVIOUS
<1>4. Secret!listSecrets(doc) = UNION {L(s) : s \in rs}
  BY DEF Secret!listSecrets
<1> HIDE DEF rs, L
<1> QED BY <1>2, <1>3, <1>4

\* one after the other,
LEMMA RotationLists ==
  ASSUME SecretInv, Secret!ListFile(p)
  PROVE  SecretInv'
<1> DEFINE q == v7[p]  n == v7'[p]
<1>1. v1' = v1 /\ v2' = v2 /\ v3' = v3 /\ v4' = v4 /\ v5' = v5 /\ v6' = v6
  BY DEF Secret!ListFile
<1>2. q.pc = "collect" /\ q.items = {}
  BY DEF Secret!ListFile, Secret!At
<1>3. SecretsHold(v1, v2, v3, v4, v5, v6, q)
  BY DEF SecretInv
<1>4. q.id \in 0..v4 /\ q.new \in 0..v4 /\ v6 \subseteq v5
  BY <1>3 DEF SecretsHold, Counted
<1>5. PICK g \in q.todo :
        v7' = [v7 EXCEPT ![p].todo = @ \ {g},
                         ![p].items = {[f |-> g, r |-> x.r, k |-> x.k] :
                                         x \in Secret!listSecrets(v1[g])}]
  BY DEF Secret!ListFile
<1>6. /\ DOMAIN v7' = {p} /\ DOMAIN n = DOMAIN q
      /\ n.pc = q.pc /\ n.id = q.id /\ n.new = q.new /\ n.pending = q.pending
      /\ n.todo = q.todo \ {g}
      /\ n.items = {[f |-> g, r |-> x.r, k |-> x.k] : x \in Secret!listSecrets(v1[g])}
  BY <1>5, SecretFieldsAre DEF SecretInv
<1> HIDE DEF q, n
<1>7. SecretAnswers(v1, v3, v5, n)
  BY <1>2, <1>6 DEF SecretAnswers, Reading, Rotating
<1>8. /\ q.id \in v3 /\ q.new # 0 /\ q.todo \subseteq SecretFiles
      /\ \A f, r, k : IsThere(v1, f, r, k) =>
           f \in q.todo \/ \E x \in q.pending : Names(x, f, r, k)
      /\ \A x \in q.pending :
           IsThere(v1, x.f, x.r, x.k) /\ x.plain = Stored(v1[x.f], x.r, x.k).leaf.plain
  BY <1>2, <1>3 DEF SecretsHold, Rotated, Rotating
<1>9. \A x \in n.items : x.f \in SecretFiles
  BY <1>6, <1>8
<1>10. ASSUME NEW r, NEW k, IsThere(v1, g, r, k)
       PROVE  \E x \in n.items : Names(x, g, r, k)
  <2>1. [r |-> r, k |-> k] \in Secret!listSecrets(v1[g])
    BY <1>10, AllAreListed DEF IsThere
  <2>2. [f |-> g, r |-> r, k |-> k] \in n.items
    BY <1>6, <2>1
  <2>3. Names([f |-> g, r |-> r, k |-> k], g, r, k)
    BY DEF Names
  <2> QED BY <2>2, <2>3
<1>11. ASSUME NEW f, NEW r, NEW k, IsThere(v1, f, r, k)
       PROVE  f \in n.todo \/ \E x \in n.items \cup n.pending : Names(x, f, r, k)
  BY <1>6, <1>8, <1>10, <1>11
<1>12. Rotated(v1, v3, n)
  BY <1>2, <1>6, <1>8, <1>9, <1>11 DEF Rotated, Rotating, Rewriting
<1> QED BY <1>1, <1>2, <1>4, <1>6, <1>7, <1>12, SecretMoves DEF q, n, Rewriting

\* decrypts them,
LEMMA RotationCollects ==
  ASSUME SecretInv, Secret!Collect(p)
  PROVE  SecretInv'
<1> DEFINE q == v7[p]  n == v7'[p]
<1>1. v1' = v1 /\ v2' = v2 /\ v3' = v3 /\ v4' = v4 /\ v5' = v5 /\ v6' = v6
  BY DEF Secret!Collect
<1>2. q.pc = "collect"
  BY DEF Secret!Collect, Secret!At
<1>3. SecretsHold(v1, v2, v3, v4, v5, v6, q)
  BY DEF SecretInv
<1>4. q.id \in 0..v4 /\ q.new \in 0..v4 /\ v6 \subseteq v5
  BY <1>3 DEF SecretsHold, Counted
<1>5. CASE Secret!Done(p)
  BY <1>1, <1>2, <1>4, <1>5, SecretEnds DEF Rewriting
<1>6. CASE \E x \in q.items :
             /\ Secret!Opens(p, x)
             /\ v7' = [v7 EXCEPT ![p].items = @ \ {x},
                                 ![p].pending = @ \cup {Secret!Decrypted(x)}]
  <2>1. PICK x \in q.items :
          /\ Secret!Opens(p, x)
          /\ v7' = [v7 EXCEPT ![p].items = @ \ {x},
                              ![p].pending = @ \cup {Secret!Decrypted(x)}]
    BY <1>6
  <2> DEFINE y == Secret!Decrypted(x)
  <2>2. /\ DOMAIN v7' = {p} /\ DOMAIN n = DOMAIN q
        /\ n.pc = q.pc /\ n.id = q.id /\ n.new = q.new /\ n.todo = q.todo
        /\ n.items = q.items \ {x} /\ n.pending = q.pending \cup {y}
    BY <2>1, SecretFieldsAre DEF SecretInv
  <2>3. /\ y.f = x.f /\ y.r = x.r /\ y.k = x.k
        /\ y.plain = Stored(v1[x.f], x.r, x.k).leaf.plain
    BY DEF Secret!Decrypted, Secret!Value, Stored
  <2>4. x.k \in Secret!readSecretKeys(v1[x.f], x.r)
        /\ Secret!IsEnvelope(Stored(v1[x.f], x.r, x.k))
    BY <2>1 DEF Secret!Opens, Secret!HasSecret, Secret!Value, Stored
  <2> HIDE DEF q, n, y
  <2>5. SecretAnswers(v1, v3, v5, n)
    BY <1>2, <2>2 DEF SecretAnswers, Reading, Rotating
  <2>6. /\ q.id \in v3 /\ q.new # 0 /\ q.todo \subseteq SecretFiles
        /\ \A z \in q.items : z.f \in SecretFiles
        /\ \A f, r, k : IsThere(v1, f, r, k) =>
             f \in q.todo \/ \E z \in q.items \cup q.pending : Names(z, f, r, k)
        /\ \A z \in q.pending :
             IsThere(v1, z.f, z.r, z.k) /\ z.plain = Stored(v1[z.f], z.r, z.k).leaf.plain
    BY <1>2, <1>3 DEF SecretsHold, Rotated, Rotating
  <2>7. IsThere(v1, y.f, y.r, y.k) /\ y.plain = Stored(v1[y.f], y.r, y.k).leaf.plain
    BY <2>1, <2>3, <2>4, <2>6 DEF IsThere
  <2>8. ASSUME NEW f, NEW r, NEW k, IsThere(v1, f, r, k)
        PROVE  f \in n.todo \/ \E z \in n.items \cup n.pending : Names(z, f, r, k)
    <3>1. CASE Names(x, f, r, k)
      BY <2>2, <2>3, <3>1 DEF Names
    <3> QED BY <2>2, <2>6, <2>8, <3>1
  <2>9. Rotated(v1, v3, n)
    BY <1>2, <2>2, <2>6, <2>7, <2>8 DEF Rotated, Rotating, Rewriting
  <2> QED BY <1>1, <1>2, <1>4, <2>2, <2>5, <2>9, SecretMoves DEF q, n, Rewriting
<1> QED BY <1>5, <1>6 DEF Secret!Collect

\* and when all are decrypted, starts to write.
LEMMA RotationTurns ==
  ASSUME SecretInv, Secret!Collected(p)
  PROVE  SecretInv'
<1> DEFINE q == v7[p]  n == v7'[p]
<1>1. v1' = v1 /\ v2' = v2 /\ v3' = v3 /\ v4' = v4 /\ v5' = v5 /\ v6' = v6
  BY DEF Secret!Collected
<1>2. q.pc = "collect" /\ q.items = {} /\ q.todo = {}
  BY DEF Secret!Collected, Secret!At
<1>3. SecretsHold(v1, v2, v3, v4, v5, v6, q)
  BY DEF SecretInv
<1>4. q.id \in 0..v4 /\ q.new \in 0..v4 /\ v6 \subseteq v5
  BY <1>3 DEF SecretsHold, Counted
<1>5. /\ DOMAIN v7' = {p} /\ DOMAIN n = DOMAIN q
      /\ n.pc = (IF q.pending = {} THEN "finish" ELSE "reload")
      /\ n.id = q.id /\ n.new = q.new /\ n.pending = q.pending
  BY SecretFieldsAre DEF SecretInv, Secret!Collected
<1> HIDE DEF q, n
<1>6. SecretAnswers(v1, v3, v5, n)
  BY <1>5 DEF SecretAnswers, Reading, Rotating
<1>7. /\ q.id \in v3 /\ q.new # 0
      /\ \A f, r, k : IsThere(v1, f, r, k) => \E z \in q.pending : Names(z, f, r, k)
      /\ \A z \in q.pending :
           IsThere(v1, z.f, z.r, z.k) /\ z.plain = Stored(v1[z.f], z.r, z.k).leaf.plain
  BY <1>2, <1>3 DEF SecretsHold, Rotated, Rotating
<1>8. Rotated(v1, v3, n)
  BY <1>5, <1>7 DEF Rotated
<1> QED BY <1>1, <1>2, <1>4, <1>5, <1>6, <1>8, SecretMoves DEF q, n, Rewriting

\* It reads a file again for every value,
LEMMA RotationReloads ==
  ASSUME SecretInv, Secret!Reload(p)
  PROVE  SecretInv'
<1> DEFINE q == v7[p]  n == v7'[p]
<1>1. v1' = v1 /\ v2' = v2 /\ v3' = v3 /\ v4' = v4 /\ v5' = v5 /\ v6' = v6
  BY DEF Secret!Reload
<1>2. q.pc = "reload"
  BY DEF Secret!Reload, Secret!At
<1>3. SecretsHold(v1, v2, v3, v4, v5, v6, q)
  BY DEF SecretInv
<1>4. q.id \in 0..v4 /\ q.new \in 0..v4 /\ v6 \subseteq v5
  BY <1>3 DEF SecretsHold, Counted
<1>5. PICK x \in q.pending :
        v7' = [v7 EXCEPT ![p].pc = "rewrite", ![p].item = x, ![p].doc = v1[x.f]]
  BY DEF Secret!Reload
<1>6. /\ DOMAIN v7' = {p} /\ DOMAIN n = DOMAIN q
      /\ n.pc = "rewrite" /\ n.item = x /\ n.doc = v1[x.f]
      /\ n.id = q.id /\ n.new = q.new /\ n.pending = q.pending
  BY <1>5, SecretFieldsAre DEF SecretInv
<1> HIDE DEF q, n
<1>7. SecretAnswers(v1, v3, v5, n)
  BY <1>6 DEF SecretAnswers, Reading, Rotating
<1>8. Rotated(v1, v3, n)
  BY <1>2, <1>3, <1>6 DEF SecretsHold, Rotated, Rotating, Rewriting
<1> QED BY <1>1, <1>2, <1>4, <1>6, <1>7, <1>8, SecretMoves DEF q, n, Rewriting

\* and writes it with the value sealed to the new identity.
LEMMA RotationRewrites ==
  ASSUME SecretInv, Secret!Rewrite(p)
  PROVE  SecretInv'
<1> DEFINE q == v7[p]  n == v7'[p]  x == q.item  doc == v1[x.f]  d == Secret!Rewritten(p)
<1>1. v2' = v2 /\ v3' = v3 /\ v4' = v4 /\ v5' = v5 /\ v6' = v6
  BY DEF Secret!Rewrite
<1>2. q.pc = "rewrite" /\ v1' = [v1 EXCEPT ![x.f] = d]
  BY DEF Secret!Rewrite, Secret!At
<1>3. SecretsHold(v1, v2, v3, v4, v5, v6, q)
  BY DEF SecretInv
<1>4. /\ DOMAIN v7' = {p} /\ DOMAIN n = DOMAIN q
      /\ n.pc = (IF q.pending \ {x} = {} THEN "finish" ELSE "reload")
      /\ n.id = q.id /\ n.new = q.new /\ n.pending = q.pending \ {x}
  BY SecretFieldsAre DEF SecretInv, Secret!Rewrite
<1>5. /\ x \in q.pending /\ q.doc = doc /\ q.id \in v3 /\ q.new # 0
      /\ \A z \in q.pending :
           IsThere(v1, z.f, z.r, z.k) /\ z.plain = Stored(v1[z.f], z.r, z.k).leaf.plain
      /\ \A f, r, k : IsThere(v1, f, r, k) =>
           Stored(v1[f], r, k).leaf.id = q.new \/ \E z \in q.pending : Names(z, f, r, k)
  BY <1>2, <1>3 DEF SecretsHold, Rotated, Rotating, Rewriting
<1>6. d = Secret!setSecret(doc, x.r, x.k, Secret!Sealed(x.plain, q.new))
  BY <1>5 DEF Secret!Rewritten
<1>7. /\ DOMAIN v1 = SecretFiles /\ \A f \in SecretFiles : Secret!Sound(v1[f])
      /\ v4 \in Nat /\ q.new \in 0..v4 /\ q.id \in 0..v4
  BY <1>3 DEF SecretsHold, Counted
<1>8. \A f, r, k : IsThere(v1, f, r, k) =>
        Stored(v1[f], r, k).leaf.id \in v3 \/ Stored(v1[f], r, k).leaf.id = q.new
  BY <1>3 DEF SecretsHold, Opened
<1> HIDE DEF q, n, x, d
<1>9. x.f \in SecretFiles /\ x.k \in Secret!readSecretKeys(doc, x.r)
  BY <1>5 DEF IsThere
<1>10. Secret!Sound(doc)
  BY <1>7, <1>9
<1>11. x.k # "leaf" /\ (x.r \notin Secret!FieldNames \/ x.r \in DOMAIN doc)
  BY <1>9, <1>10, KeysAreNames
<1>12. /\ Secret!Sound(d) /\ Kept(doc, d, x.r, x.k)
       /\ x.k \in Secret!readSecretKeys(d, x.r)
       /\ Stored(d, x.r, x.k) = Secret!Sealed(x.plain, q.new)
  BY <1>6, <1>10, <1>11, SetChanges
<1>13a. /\ DOMAIN v1' = SecretFiles /\ v1'[x.f] = d
        /\ \A f \in SecretFiles \ {x.f} : v1'[f] = v1[f]
  BY <1>2, <1>7, <1>9
<1>13. /\ DOMAIN v1' = SecretFiles /\ v1'[x.f] = d
       /\ \A f, r, k : ~(f = x.f /\ r = x.r /\ k = x.k) =>
            /\ IsThere(v1', f, r, k) <=> IsThere(v1, f, r, k)
            /\ IsThere(v1, f, r, k) => Stored(v1'[f], r, k) = Stored(v1[f], r, k)
  <2>1. DOMAIN v1 = SecretFiles /\ x.f \in SecretFiles
    BY <1>7, <1>9
  <2>2. Kept(v1[x.f], d, x.r, x.k)
    BY <1>12
  <2>3. FileKept(v1, v1', x.f, x.r, x.k)
    BY <1>13a, <2>1, <2>2, FilesAreKept
  <2> QED BY <1>13a, <2>3 DEF FileKept
<1>14. LET y == Secret!Sealed(x.plain, q.new)
       IN y.leaf.id = q.new /\ y.leaf.plain = x.plain /\ Secret!IsEnvelope(y)
  BY <1>5, <1>7 DEF Secret!Sealed, Secret!IsEnvelope, Secret!IsMap
<1>15. /\ IsThere(v1', x.f, x.r, x.k) /\ Stored(v1'[x.f], x.r, x.k).leaf.id = q.new
       /\ Stored(v1'[x.f], x.r, x.k).leaf.plain = x.plain
  BY <1>9, <1>12, <1>13, <1>14 DEF IsThere
<1>16. \A f \in SecretFiles : Secret!Sound(v1'[f])
  BY <1>7, <1>12, <1>13a
<1>17. Counted(v1', v2, v3, v4, n)
  BY <1>3, <1>4, <1>13, <1>16 DEF SecretsHold, Counted
<1>18. SecretAnswers(v1', v3, v5, n)
  BY <1>4 DEF SecretAnswers, Reading, Rotating
<1>19. Opened(v1', v3, n)
  <2> SUFFICES ASSUME NEW f, NEW r, NEW k, IsThere(v1', f, r, k)
               PROVE  \/ Stored(v1'[f], r, k).leaf.id \in v3
                      \/ Stored(v1'[f], r, k).leaf.id = q.new
    BY <1>4 DEF Opened, Rewriting
  <2> QED BY <1>8, <1>13, <1>15
<1>20. ASSUME NEW z \in n.pending
       PROVE  IsThere(v1', z.f, z.r, z.k) /\ z.plain = Stored(v1'[z.f], z.r, z.k).leaf.plain
  <2>1. IsThere(v1, z.f, z.r, z.k) /\ z.plain = Stored(v1[z.f], z.r, z.k).leaf.plain
    BY <1>4, <1>5
  <2>2. x.plain = Stored(v1[x.f], x.r, x.k).leaf.plain
    BY <1>5
  <2> QED BY <1>13, <1>15, <2>1, <2>2
<1>21. ASSUME NEW f, NEW r, NEW k, IsThere(v1', f, r, k)
       PROVE  Stored(v1'[f], r, k).leaf.id = q.new \/ \E z \in n.pending : Names(z, f, r, k)
  <2>1. CASE f = x.f /\ r = x.r /\ k = x.k
    BY <1>15, <2>1
  <2>2. CASE ~(f = x.f /\ r = x.r /\ k = x.k)
    <3>1. IsThere(v1, f, r, k) /\ Stored(v1'[f], r, k) = Stored(v1[f], r, k)
      BY <1>13, <1>21, <2>2
    <3>2. \A z : Names(z, f, r, k) => z # x
      BY <2>2 DEF Names
    <3> QED BY <1>4, <1>5, <3>1, <3>2
  <2> QED BY <2>1, <2>2
<1>22. Rotated(v1', v3, n)
  BY <1>4, <1>5, <1>20, <1>21 DEF Rotated
<1>23. SecretsHold(v1', v2, v3, v4, v5, v6, n)
  BY <1>3, <1>17, <1>18, <1>19, <1>22 DEF SecretsHold
<1>24. DOMAIN v7' = {p} /\ DOMAIN n = DOMAIN Secret!Idle
  BY <1>4 DEF SecretInv, q
<1> QED BY <1>1, <1>23, <1>24 DEF SecretInv, n

\* It prints the new identity.
LEMMA RotationFinishes ==
  ASSUME SecretInv, Secret!Finish(p)
  PROVE  SecretInv'
<1> DEFINE q == v7[p]
<1>1. v1' = v1 /\ v2' = v2 /\ v4' = v4 /\ v5' = v5 /\ v6' = v6 /\ v3' = v3 \cup {q.new}
  BY DEF Secret!Finish
<1>2. q.pc = "finish"
  BY DEF Secret!Finish, Secret!At
<1>3. SecretsHold(v1, v2, v3, v4, v5, v6, q)
  BY DEF SecretInv
<1>4. v7'[p] = Secret!Idle /\ DOMAIN v7' = {p}
  BY DEF Secret!Finish, Secret!Done, SecretInv
<1>5. /\ DOMAIN v1 = SecretFiles /\ \A f \in SecretFiles : Secret!Sound(v1[f])
      /\ v4 \in Nat /\ v4 <= MaxIdentity /\ v2 \in v3 /\ v3 \subseteq 1..v4
      /\ q.new \in 0..v4 /\ v6 \subseteq v5
  BY <1>3 DEF SecretsHold, Counted
<1>6. q.new # 0
  BY <1>2, <1>3 DEF SecretsHold, Rotated, Rotating
<1>7. \A f, r, k : IsThere(v1, f, r, k) => Stored(v1[f], r, k).leaf.id \in v3'
  BY <1>1, <1>3 DEF SecretsHold, Opened
<1>8. v2 \in v3' /\ v3' \subseteq 1..v4
  <2>1. q.new \in 1..v4
    BY <1>5, <1>6
  <2> HIDE DEF q
  <2> QED BY <1>1, <1>5, <2>1
<1>9. SecretsHold(v1, v2, v3', v4, v5, v6, Secret!Idle)
  BY <1>5, <1>7, <1>8, IdleHolds
<1> QED BY <1>1, <1>4, <1>9 DEF SecretInv

\* The operator installs it.
LEMMA IdentityIsInstalled ==
  ASSUME SecretInv, Secret!Install
  PROVE  SecretInv'
<1>1. v1' = v1 /\ v2' \in v3 /\ v3' = v3 /\ v4' = v4 /\ v5' = v5 /\ v6' = v6 /\ v7' = v7
  BY DEF Secret!Install
<1>2. Counted(v1, v2', v3, v4, v7[p])
  BY <1>1 DEF SecretInv, SecretsHold, Counted
<1>3. SecretsHold(v1, v2', v3, v4, v5, v6, v7[p])
  BY <1>2 DEF SecretInv, SecretsHold
<1> QED BY <1>1, <1>3 DEF SecretInv

\* Every step of the commands.
LEMMA SecretSteps ==
  ASSUME Secret!SecretAssumption, SecretInv, [Secret!Next]_(Secret!vars)
  PROVE  SecretInv'
<1>1. ASSUME Secret!vars' = Secret!vars PROVE SecretInv'
  BY <1>1 DEF Secret!vars, SecretInv
<1>2. ASSUME NEW req \in SecretCommands, Secret!Start(p, req) PROVE SecretInv'
  BY <1>2, SecretStarts
<1>3. ASSUME NEW req \in SecretCommands, Secret!StartRotate(p, req) PROVE SecretInv'
  BY <1>3, RotationStarts
<1>4. CASE Secret!Load(p)
  BY <1>4, SecretLoads
<1>5. CASE Secret!Save(p)
  BY <1>5, SecretSaves
<1>6. CASE Secret!Decrypt(p) \/ Secret!Audit(p) \/ Secret!Show(p)
  BY <1>6, SecretIsRead
<1>7. CASE Secret!ListFile(p)
  BY <1>7, RotationLists
<1>8. CASE Secret!Collect(p)
  BY <1>8, RotationCollects
<1>9. CASE Secret!Collected(p)
  BY <1>9, RotationTurns
<1>10. CASE Secret!Reload(p)
  BY <1>10, RotationReloads
<1>11. CASE Secret!Rewrite(p)
  BY <1>11, RotationRewrites
<1>12. CASE Secret!Finish(p)
  BY <1>12, RotationFinishes
<1>13. CASE Secret!Kill(p)
  <2>1. Secret!Done(p) /\ v7[p].pc \notin Rewriting
    BY <1>13 DEF Secret!Kill, Secret!Phase, Rewriting
  <2>2. v1' = v1 /\ v2' = v2 /\ v3' = v3 /\ v4' = v4 /\ v5' = v5 /\ v6' = v6
    BY <1>13 DEF Secret!Kill
  <2>3. v6 \subseteq v5
    BY DEF SecretInv, SecretsHold
  <2> QED BY <2>1, <2>2, <2>3, SecretEnds
<1>14. CASE Secret!Install
  BY <1>14, IdentityIsInstalled
<1> QED BY <1>1, <1>2, <1>3, <1>4, <1>5, <1>6, <1>7, <1>8, <1>9, <1>10, <1>11, <1>12, <1>13,
           <1>14 DEF Secret!Next

\* It starts so.
LEMMA SecretStart ==
  ASSUME Secret!SecretAssumption, Secret!Init
  PROVE  SecretInv
<1>1. v7 = [c \in {p} |-> Secret!Idle] /\ v2 = 1 /\ v3 = {1} /\ v4 = 1 /\ v5 = {} /\ v6 = {}
      /\ v1 \in [SecretFiles -> Documents]
  BY DEF Secret!Init
<1>2. /\ DOMAIN v1 = SecretFiles
      /\ \A f \in SecretFiles : Secret!Sound(v1[f])
      /\ \A f \in SecretFiles : \A x \in Secret!Envelopes(v1[f]) : x.leaf.id = 1
  BY <1>1 DEF Secret!SecretAssumption
<1>3. \A f, r, k : IsThere(v1, f, r, k) => Stored(v1[f], r, k).leaf.id = 1
  BY <1>2, EnvelopesAreNamed DEF IsThere
<1>4. 1 \in Nat /\ 1 <= MaxIdentity /\ 1 \in {1} /\ {1} \subseteq 1..1
  BY DEF Secret!SecretAssumption
<1>5. SecretsHold(v1, 1, {1}, 1, {}, {}, Secret!Idle)
  BY <1>2, <1>3, <1>4, IdleHolds
<1> QED BY <1>1, <1>5 DEF SecretInv

\* What it means: every envelope is one of those.
LEMMA EnvelopesAreThere ==
  ASSUME NEW F, NEW f \in SecretFiles, Secret!Sound(F[f]), NEW x \in Secret!Envelopes(F[f])
  PROVE  \E r, k : IsThere(F, f, r, k) /\ x = Stored(F[f], r, k)
  BY EnvelopesAreNamed DEF IsThere

\* With it the commands keep what they promise.
LEMMA SecretReports ==
  ASSUME Secret!SecretAssumption, SecretInv
  PROVE  /\ Secret!TypeOK /\ Secret!NoValueIsLost /\ Secret!RotationIsComplete
         /\ Secret!OnlyTargetChanges /\ Secret!NoUnauditedRead
<1> DEFINE q == v7[p]
<1>1. SecretsHold(v1, v2, v3, v4, v5, v6, q)
  BY DEF SecretInv
<1>2. /\ DOMAIN v1 = SecretFiles /\ \A f \in SecretFiles : Secret!Sound(v1[f])
      /\ v4 \in Nat /\ v4 <= MaxIdentity /\ v2 \in v3 /\ v3 \subseteq 1..v4
      /\ q.new \in 0..v4 /\ q.id \in 0..v4 /\ v6 \subseteq v5
  BY <1>1 DEF SecretsHold, Counted
<1>3. ASSUME NEW f \in SecretFiles, NEW x \in Secret!Envelopes(v1[f])
      PROVE  /\ x.leaf.id \in v3 \/ (q.pc \in Rewriting /\ x.leaf.id = q.new)
             /\ q.pc = "finish" => x.leaf.id = q.new
             /\ q.pc \in Rewriting => q.new # 0
  <2>1. PICK r, k : IsThere(v1, f, r, k) /\ x = Stored(v1[f], r, k)
    BY <1>2, <1>3, EnvelopesAreThere
  <2>2. x.leaf.id \in v3 \/ (q.pc \in Rewriting /\ x.leaf.id = q.new)
    BY <1>1, <2>1 DEF SecretsHold, Opened
  <2>3. q.pc = "finish" => x.leaf.id = q.new
    BY <1>1, <2>1 DEF SecretsHold, Rotated, Rotating, Rewriting
  <2>4. q.pc \in Rewriting => q.new # 0
    BY <1>1 DEF SecretsHold, Rotated, Rotating, Rewriting
  <2> QED BY <2>2, <2>3, <2>4
<1>4. Secret!Held = {q.id, q.new}
  BY DEF Secret!Held
<1>5. Secret!TypeOK
  <2>1. q.new # 0 => q.new \in 1..v4
    BY <1>2
  <2>2. \A f \in SecretFiles : \A x \in Secret!Envelopes(v1[f]) : x.leaf.id \in 1..v4
    <3> HIDE DEF q
    <3> QED BY <1>2, <1>3, <2>1
  <2> QED BY <1>2, <2>2 DEF Secret!TypeOK
<1>6. Secret!NoValueIsLost
  BY <1>3, <1>4 DEF Secret!NoValueIsLost
<1>7. Secret!RotationIsComplete
  BY <1>3 DEF Secret!RotationIsComplete, Secret!At
<1>8. Secret!NoUnauditedRead
  BY <1>2 DEF Secret!NoUnauditedRead
<1>9. ASSUME q.pc = "save"
      PROVE  LET req == q.req  d == Secret!Saved(p)
             IN /\ Secret!Others(Secret!Settings(d), req.r, req.k) =
                     Secret!Others(Secret!Settings(v1[req.f]), req.r, req.k)
                /\ req.verb = "set" =>
                     <<req.r, "secrets", req.k, req.v>> \in Secret!Settings(d)
  <2> DEFINE req == q.req  doc == v1[req.f]  d == Secret!Saved(p)
  <2>1. /\ req \in SecretCommands /\ req.verb \in {"set", "unset"} /\ q.doc = doc
        /\ req.verb = "unset" => Secret!HasSecret(doc, req.r, req.k)
    BY <1>1, <1>9 DEF SecretsHold, SecretAnswers, Reading
  <2>2. req.f \in SecretFiles /\ req.r \notin Secret!FieldNames /\ req.k # "leaf"
    BY <2>1 DEF Secret!SecretAssumption
  <2>3. d = IF req.verb = "set"
            THEN Secret!setSecret(doc, req.r, req.k, Secret!Sealed(req.v, q.id))
            ELSE Secret!unsetSecret(doc, req.r, req.k)
    BY <2>1 DEF Secret!Saved
  <2>4. Secret!Sound(doc)
    BY <1>2, <2>2
  <2> HIDE DEF q, req, doc, d
  <2>5. CASE req.verb = "set"
    <3>1. d = Secret!setSecret(doc, req.r, req.k, Secret!Sealed(req.v, q.id))
      BY <2>3, <2>5
    <3>2. /\ Secret!Sound(d) /\ Kept(doc, d, req.r, req.k)
          /\ req.k \in Secret!readSecretKeys(d, req.r)
          /\ Stored(d, req.r, req.k) = Secret!Sealed(req.v, q.id)
          /\ \A y : Rest(d, req.r, y) <=> Rest(doc, req.r, y)
      BY <2>2, <2>4, <3>1, SetChanges
    <3>3. Secret!Plain(Stored(d, req.r, req.k)) = req.v
      BY <3>2 DEF Secret!Plain, Secret!Sealed
    <3>4. /\ Secret!Others(Secret!Settings(d), req.r, req.k) =
               Secret!Others(Secret!Settings(doc), req.r, req.k)
          /\ <<req.r, "secrets", req.k, Secret!Plain(Stored(d, req.r, req.k))>>
               \in Secret!Settings(d)
      BY <2>4, <3>2, OthersAreKept
    <3> QED BY <3>3, <3>4 DEF req, doc, d
  <2>6. CASE req.verb = "unset"
    <3>1. d = Secret!unsetSecret(doc, req.r, req.k)
      BY <2>3, <2>6
    <3>2. /\ Secret!Sound(d) /\ Kept(doc, d, req.r, req.k)
          /\ \A y : Rest(d, req.r, y) <=> Rest(doc, req.r, y)
      BY <2>1, <2>2, <2>4, <2>6, <3>1, UnsetChanges
    <3>3. /\ Secret!Others(Secret!Settings(d), req.r, req.k) =
               Secret!Others(Secret!Settings(doc), req.r, req.k)
          /\ req.k \in Secret!readSecretKeys(d, req.r) =>
               <<req.r, "secrets", req.k, Secret!Plain(Stored(d, req.r, req.k))>>
                 \in Secret!Settings(d)
      BY <2>4, <3>2, OthersAreKept
    <3> QED BY <2>6, <3>3 DEF req, doc, d
  <2> QED BY <2>1, <2>5, <2>6
<1>10. ASSUME q.pc = "rewrite"
       PROVE  Secret!Settings(Secret!Rewritten(p)) = Secret!Settings(v1[q.item.f])
  <2> DEFINE x == q.item  doc == v1[x.f]  d == Secret!Rewritten(p)
  <2>1. /\ q.doc = doc /\ IsThere(v1, x.f, x.r, x.k)
        /\ x.plain = Stored(doc, x.r, x.k).leaf.plain
    BY <1>1, <1>10 DEF SecretsHold, Rotated, Rotating
  <2>2. d = Secret!setSecret(doc, x.r, x.k, Secret!Sealed(x.plain, q.new))
    BY <2>1 DEF Secret!Rewritten
  <2>3. x.f \in SecretFiles /\ x.k \in Secret!readSecretKeys(doc, x.r)
    BY <2>1 DEF IsThere
  <2>4. Secret!Sound(doc)
    BY <1>2, <2>3
  <2> HIDE DEF q, x, doc, d
  <2>5. x.k # "leaf" /\ (x.r \notin Secret!FieldNames \/ x.r \in DOMAIN doc)
    BY <2>3, <2>4, KeysAreNames
  <2>6. /\ Secret!Sound(d) /\ Kept(doc, d, x.r, x.k)
        /\ x.k \in Secret!readSecretKeys(d, x.r)
        /\ Stored(d, x.r, x.k) = Secret!Sealed(x.plain, q.new)
        /\ \A y : Rest(d, x.r, y) <=> Rest(doc, x.r, y)
    BY <2>2, <2>4, <2>5, SetChanges
  <2>7. Secret!Plain(Stored(d, x.r, x.k)) = Secret!Plain(Stored(doc, x.r, x.k))
    BY <2>1, <2>6 DEF Secret!Plain, Secret!Sealed
  <2>8. Secret!Settings(d) = Secret!Settings(doc)
    BY <2>3, <2>4, <2>6, <2>7, OthersAreKept
  <2> QED BY <2>8 DEF x, doc, d
<1>11. Secret!OnlyTargetChanges
  BY <1>9, <1>10 DEF Secret!OnlyTargetChanges, Secret!At
<1> QED BY <1>5, <1>6, <1>7, <1>8, <1>11

\* The commands are one part of the suite.
LEMMA SecretAlways ==
  Spec => [](part = "secrets" => SecretInv)
<1> USE ReleaseAssumptions
<1>1. Init => (part = "secrets" => SecretInv)
  BY SecretStart DEF Init
<1>2. (part = "secrets" => SecretInv) /\ [Next]_vars => (part = "secrets" => SecretInv)'
  <2> SUFFICES ASSUME part = "secrets" => SecretInv, [Next]_vars, part' = "secrets"
               PROVE  SecretInv'
    OBVIOUS
  <2>1. CASE Next
    <3>1. part = "secrets" /\ Secret!Next
      BY <2>1 DEF Next
    <3> QED BY <3>1, SecretSteps
  <2>2. CASE UNCHANGED vars
    BY <2>2, SecretSteps DEF vars, Secret!vars
  <2> QED BY <2>1, <2>2
<1> QED BY <1>1, <1>2, PTL DEF Spec

\* However `secret' commands follow one another, and wherever a command is killed
\* before a rotation writes, they change what they name and nothing else, every
\* value can be opened by an identity that is known or held, a rotation that ends
\* left none sealed to an old one, and no value is shown before its audit line.
THEOREM SecretsStayKept == Spec => []SecretsAreKept
<1>1. (part = "secrets" => SecretInv) => SecretsAreKept
  BY ReleaseAssumptions, SecretReports DEF SecretsAreKept
<1> QED BY <1>1, SecretAlways, PTL

-----------------------------------------------------------------------------
(* The script of a host build, and the builds. *)

\* Every nonempty set of naturals has a least element.
LEMMA LeastElement ==
  ASSUME NEW T, T \subseteq Nat, T # {}
  PROVE  \E x \in T : \A y \in T : x <= y
<1>1. IsWellFoundedOn(OpToRel(<, Nat), Nat)
  BY NatLessThanWellFounded
<1>2. PICK x \in T : \A y \in T : <<y, x>> \notin OpToRel(<, Nat)
  BY <1>1, WFMin
<1>3. \A y \in T : ~(y < x)
  BY <1>2 DEF OpToRel
<1> QED
  BY <1>3

\* A set that holds 0 and is closed under successor holds every natural.
LEMMA SetInduction ==
  ASSUME NEW S, 0 \in S, \A n \in Nat : n \in S => n + 1 \in S
  PROVE  Nat \subseteq S
<1> DEFINE T == Nat \ S
<1> SUFFICES ASSUME T # {} PROVE FALSE
  OBVIOUS
<1>1. PICK x \in T : \A y \in T : x <= y
  BY LeastElement
<1>2. x # 0 /\ x - 1 \in Nat /\ x - 1 \notin T
  BY <1>1
<1> QED
  BY <1>1, <1>2

\* Induction up to a bound: the form the loop lemmas use.
LEMMA BoundedInduction ==
  ASSUME NEW n \in Nat, NEW S, 0 \in S,
         \A k \in 0 .. (n - 1) : k \in S => k + 1 \in S
  PROVE  0 .. n \subseteq S
<1> DEFINE T == {k \in Nat : k <= n => k \in S}
<1>1. 0 \in T
  OBVIOUS
<1>2. \A k \in Nat : k \in T => k + 1 \in T
  OBVIOUS
<1>3. Nat \subseteq T
  BY <1>1, <1>2, SetInduction
<1> QED
  BY <1>3

\* What the projects are known to be.
LEMMA ProjectIsSound ==
  ASSUME Hosted!HostAssumption, v1 \in HostProjects
  PROVE  /\ Hosted!Steps \subseteq HostNames /\ IsFiniteSet(Hosted!Steps)
         /\ Hosted!Depth = Cardinality(Hosted!Steps) + 1 /\ Cardinality(Hosted!Steps) \in Nat
         /\ \A n \in Hosted!Steps : Hosted!Deps(n) \in Seq(HostNames)
         /\ \A s \in v1.targets : Hosted!HasDag(s) => v1.command[s] \in Seq(HostNames)
<1>1. /\ Hosted!Steps \subseteq HostNames /\ IsFiniteSet(Hosted!Steps)
      /\ \A n \in Hosted!Steps : Hosted!Deps(n) \in Seq(HostNames)
  BY DEF Hosted!HostAssumption, Hosted!Steps, Hosted!Deps, Hosted!IsFiniteSet, IsFiniteSet
<1>2. Hosted!Depth = Cardinality(Hosted!Steps) + 1
  BY DEF Hosted!Depth, Hosted!Cardinality, Cardinality, Hosted!IsFiniteSet, IsFiniteSet
<1>3. \A s \in v1.targets : Hosted!HasDag(s) => v1.command[s] \in Seq(HostNames)
  BY DEF Hosted!HostAssumption, Hosted!HasDag
<1> QED
  BY <1>1, <1>2, <1>3, FS_CardinalityType

\* The elements of a sequence, and of one that is longer by one.
LEMMA ElementsAre ==
  ASSUME NEW S, NEW q \in Seq(S)
  PROVE  /\ Hosted!ToSet(q) = {q[i] : i \in 1 .. Len(q)} /\ Hosted!ToSet(q) \subseteq S
         /\ \A x \in S : /\ Append(q, x) \in Seq(S) /\ Len(Append(q, x)) = Len(q) + 1
                         /\ Append(q, x)[Len(q) + 1] = x
                         /\ \A i \in 1 .. Len(q) : Append(q, x)[i] = q[i]
                         /\ Hosted!ToSet(Append(q, x)) = Hosted!ToSet(q) \cup {x}
<1>1. Hosted!ToSet(q) = {q[i] : i \in 1 .. Len(q)} /\ Hosted!ToSet(q) \subseteq S
  BY DEF Hosted!ToSet
<1>2. ASSUME NEW x \in S
      PROVE  /\ Append(q, x) \in Seq(S) /\ Len(Append(q, x)) = Len(q) + 1
             /\ Append(q, x)[Len(q) + 1] = x
             /\ \A i \in 1 .. Len(q) : Append(q, x)[i] = q[i]
  OBVIOUS
<1>3. ASSUME NEW x \in S
      PROVE  Hosted!ToSet(Append(q, x)) = Hosted!ToSet(q) \cup {x}
  <2>1. /\ Append(q, x) \in Seq(S) /\ Len(Append(q, x)) = Len(q) + 1 /\ Len(q) \in Nat
        /\ Append(q, x)[Len(q) + 1] = x
        /\ \A i \in 1 .. Len(q) : Append(q, x)[i] = q[i]
    BY <1>2
  <2>2. DOMAIN Append(q, x) = 1 .. Len(q) + 1
    BY <2>1
  <2>3. Hosted!ToSet(Append(q, x)) = {Append(q, x)[i] : i \in 1 .. Len(q) + 1}
    BY <2>2 DEF Hosted!ToSet
  <2>4. \A i \in 1 .. Len(q) + 1 : i \in 1 .. Len(q) \/ i = Len(q) + 1
    BY <2>1
  <2>5. (Len(q) + 1) \in 1 .. Len(q) + 1 /\ 1 .. Len(q) \subseteq 1 .. Len(q) + 1
    BY <2>1
  <2> QED
    BY <1>1, <2>1, <2>3, <2>4, <2>5
<1> QED
  BY <1>1, <1>2, <1>3

\* The commands a set of roots reaches are the least closed set with the roots.
LEMMA ReachedIsLeast ==
  ASSUME Hosted!HostAssumption, v1 \in HostProjects, NEW R, R \subseteq HostNames
  PROVE  /\ R \subseteq Hosted!Reached(R) /\ Hosted!Reached(R) \subseteq HostNames
         /\ Hosted!Closed(Hosted!Reached(R))
         /\ \A C : C \subseteq HostNames /\ Hosted!Closed(C) /\ R \subseteq C =>
              Hosted!Reached(R) \subseteq C
<1>1. R \subseteq Hosted!Reached(R) /\ Hosted!Reached(R) \subseteq HostNames
  BY DEF Hosted!Reached
<1>2. ASSUME NEW C, C \subseteq HostNames, Hosted!Closed(C), R \subseteq C
      PROVE  Hosted!Reached(R) \subseteq C
  BY <1>2 DEF Hosted!Reached
<1>3. ASSUME NEW n \in Hosted!Reached(R) \cap Hosted!Steps, NEW m \in Hosted!ToSet(Hosted!Deps(n))
      PROVE  m \in Hosted!Reached(R)
  <2>1. m \in HostNames
    BY ProjectIsSound, ElementsAre
  <2>2. ASSUME NEW C \in SUBSET HostNames, R \subseteq C, Hosted!Closed(C)
        PROVE  m \in C
    <3>1. n \in C
      BY <1>2, <2>2
    <3> QED
      BY <2>2, <3>1 DEF Hosted!Closed
  <2> QED
    BY <2>1, <2>2 DEF Hosted!Reached
<1>4. Hosted!Closed(Hosted!Reached(R))
  BY <1>3 DEF Hosted!Closed
<1> QED
  BY <1>1, <1>2, <1>4

\* The commands that were visited, each after what it depends on.
DepsFirst(o) ==
  /\ o \in Seq(HostNames)
  /\ \A i, j \in 1 .. Len(o) : o[i] = o[j] => i = j
  /\ \A i \in 1 .. Len(o) : o[i] \in Hosted!Steps /\ ~Hosted!Rejected(o[i])
  /\ \A i \in 1 .. Len(o) : \A m \in Hosted!ToSet(Hosted!Deps(o[i])) :
       \E j \in 1 .. i - 1 : o[j] = m

\* A visit of the names N, while the chain is being visited, makes r of d.
Explored(N, chain, d, r) ==
  /\ r \in Hosted!Dag
  /\ r.ok =>
       /\ d.ok /\ DepsFirst(r.ordered)
       /\ Hosted!ToSet(d.ordered) \subseteq Hosted!ToSet(r.ordered)
       /\ N \subseteq Hosted!ToSet(r.ordered)
       /\ Hosted!ToSet(r.ordered) \cap chain \subseteq Hosted!ToSet(d.ordered)
       /\ \A C \in SUBSET HostNames :
            Hosted!Closed(C) /\ N \subseteq C =>
              Hosted!ToSet(r.ordered) \subseteq Hosted!ToSet(d.ordered) \cup C
\* There is nothing for it to stumble over.
NoCause(N, chain) ==
  \A n \in N :
    /\ \A m \in Hosted!Reached({n}) :
         ~Hosted!Rejected(m) /\ m \notin Hosted!Reached(Hosted!ToSet(Hosted!Deps(m)))
    /\ \A a \in chain : n \in Hosted!Reached(Hosted!ToSet(Hosted!Deps(a)))
Deeper(chain, k) == Cardinality(Hosted!Steps \ chain) < k
SoundDag(d) == d \in Hosted!Dag /\ (d.ok => DepsFirst(d.ordered))
\* Such are the visits with a depth of k to go.
Visits(visit, k) ==
  \A call \in Hosted!Call :
    SoundDag(call.dag) =>
      /\ Explored({call.name}, call.chain, call.dag, visit[call])
      /\ (call.dag.ok /\ NoCause({call.name}, call.chain) /\ Deeper(call.chain, k)
          => visit[call].ok)

\* Names are visited one after the other.
LEMMA EachUnfolds ==
  ASSUME NEW visit, NEW d, NEW names, NEW chain, Len(names) \in Nat
  PROVE  \E e : /\ e[0] = d /\ Hosted!Each(visit, d, names, chain) = e[Len(names)]
                /\ \A k \in 0 .. Len(names) - 1 :
                     e[k + 1] = visit[[dag |-> e[k], name |-> names[k + 1], chain |-> chain]]
<1> DEFINE N == Len(names)
           Step(x, k) == visit[[dag |-> x, name |-> names[k], chain |-> chain]]
           Body(g, n) == [k \in 0 .. n |-> IF k = 0 THEN d ELSE Step(g[k - 1], k)]
           E == {n \in Nat : \E g : g = Body(g, n)}
           R == CHOOSE g : g = Body(g, N)
<1>1. Hosted!Each(visit, d, names, chain) = R[N]
  BY DEF Hosted!Each
<1> HIDE DEF Step
<1>2. R = Body(R, N)
  <2>1. 0 \in E
    <3>1. Body([k \in 0 .. 0 |-> d], 0) = [k \in 0 .. 0 |-> d]
      OBVIOUS
    <3> QED
      BY <3>1
  <2>2. ASSUME NEW n \in Nat, n \in E
        PROVE  n + 1 \in E
    <3>1. PICK g : g = Body(g, n)
      BY <2>2
    <3> DEFINE h == [k \in 0 .. n + 1 |-> IF k <= n THEN g[k] ELSE Step(g[n], n + 1)]
    <3>2. h = Body(h, n + 1)
      BY <3>1
    <3> HIDE DEF h, Body
    <3>3. \E f : f = Body(f, n + 1)
      BY <3>2
    <3> QED
      BY <3>3
  <2>3. N \in E
    BY <2>1, <2>2, SetInduction
  <2> QED
    BY <2>3
<1> HIDE DEF R, N
<1>3. N \in Nat
  BY DEF N
<1>4. R[0] = d
  BY <1>2, <1>3
<1>5. ASSUME NEW k \in 0 .. N - 1
      PROVE  R[k + 1] = Step(R[k], k + 1)
  <2>1. k + 1 \in 0 .. N /\ k + 1 # 0 /\ (k + 1) - 1 = k
    BY <1>3
  <2> QED
    BY <1>2, <2>1
<1> QED
  BY <1>1, <1>4, <1>5 DEF Step, N

\* A call of a visit is a call of one of the names it goes through.
LEMMA CallsAre ==
  ASSUME NEW d \in Hosted!Dag, NEW n \in HostNames, NEW chain \in SUBSET Hosted!Steps
  PROVE  [dag |-> d, name |-> n, chain |-> chain] \in Hosted!Call
BY DEF Hosted!Call

\* What can be reached of some roots can be reached of more.
LEMMA ReachedGrows ==
  ASSUME Hosted!HostAssumption, v1 \in HostProjects, NEW R, NEW Q, Q \subseteq HostNames,
         R \subseteq Q
  PROVE  Hosted!Reached(R) \subseteq Hosted!Reached(Q)
<1>1. Q \subseteq Hosted!Reached(Q) /\ Hosted!Reached(Q) \subseteq HostNames
      /\ Hosted!Closed(Hosted!Reached(Q))
  BY ReachedIsLeast
<1> QED
  BY <1>1, ReachedIsLeast

\* Visits, one after the other, are a visit of all their names.
LEMMA EachVisits ==
  ASSUME Hosted!HostAssumption, v1 \in HostProjects,
         NEW visit, NEW k, Visits(visit, k),
         NEW d, SoundDag(d), NEW names \in Seq(HostNames), NEW chain \in SUBSET Hosted!Steps
  PROVE  LET r == Hosted!Each(visit, d, names, chain)
             N == Hosted!ToSet(names)
         IN  /\ Explored(N, chain, d, r)
             /\ d.ok /\ NoCause(N, chain) /\ Deeper(chain, k) => r.ok
<1> DEFINE r == Hosted!Each(visit, d, names, chain)
           Prefixed(i) == {names[j] : j \in 1 .. i}
           Fine(i) == d.ok /\ NoCause(Prefixed(i), chain) /\ Deeper(chain, k)
<1>0. Len(names) \in Nat /\ \A i \in 1 .. Len(names) : names[i] \in HostNames
  OBVIOUS
<1>1. PICK e : /\ e[0] = d /\ r = e[Len(names)]
               /\ \A i \in 0 .. Len(names) - 1 :
                    e[i + 1] = visit[[dag |-> e[i], name |-> names[i + 1], chain |-> chain]]
  <2>1. Len(names) \in Nat
    BY <1>0
  <2> QED
    BY ONLY <2>1, EachUnfolds
<1> HIDE DEF r
<1> DEFINE S == {i \in 0 .. Len(names) :
                   Explored(Prefixed(i), chain, d, e[i]) /\ (Fine(i) => e[i].ok)}
<1>2. 0 \in S
  <2>1. Prefixed(0) = {}
    OBVIOUS
  <2>2. Explored({}, chain, d, d)
    BY DEF Explored, SoundDag
  <2>3. 0 \in 0 .. Len(names)
    BY <1>0
  <2>4. e[0] = d
    BY <1>1
  <2>5. Explored(Prefixed(0), chain, d, e[0])
    BY ONLY <2>1, <2>2, <2>4
  <2>6. Fine(0) => e[0].ok
    BY ONLY <2>4
  <2> HIDE DEF Prefixed, Fine
  <2> QED
    BY ONLY <2>3, <2>5, <2>6
<1>3. ASSUME NEW i \in 0 .. Len(names) - 1, i \in S
      PROVE  i + 1 \in S
  <2> DEFINE n == names[i + 1]  c == [dag |-> e[i], name |-> n, chain |-> chain]
             a == e[i]  b == e[i + 1]
  <2>1. n \in HostNames /\ b = visit[c] /\ i + 1 \in 0 .. Len(names)
    BY <1>0, <1>1
  <2>2. Explored(Prefixed(i), chain, d, a) /\ (Fine(i) => a.ok) /\ a \in Hosted!Dag
    BY <1>3 DEF Explored
  <2>3. Prefixed(i + 1) = Prefixed(i) \cup {n}
    <3>1. \A j \in 1 .. i + 1 : j \in 1 .. i \/ j = i + 1
      BY <1>3
    <3>2. 1 .. i \subseteq 1 .. i + 1 /\ i + 1 \in 1 .. i + 1
      BY <1>3
    <3> QED
      BY <3>1, <3>2
  <2>4. SoundDag(a)
    BY <2>2 DEF SoundDag, Explored
  <2>5. c \in Hosted!Call /\ c.dag = a /\ c.name = n /\ c.chain = chain
    BY <2>1, <2>2, CallsAre
  <2>6. /\ Explored({n}, chain, a, b)
        /\ a.ok /\ NoCause({n}, chain) /\ Deeper(chain, k) => b.ok
    <3> HIDE DEF c, a, b, n
    <3> QED BY <2>1, <2>4, <2>5 DEF Visits
  <2> HIDE DEF c, a, b, n, Prefixed
  <2>7. Explored(Prefixed(i + 1), chain, d, b)
    BY <2>2, <2>3, <2>6 DEF Explored
  <2>8. Fine(i + 1) => b.ok
    BY <2>2, <2>3, <2>6 DEF NoCause
  <2> QED
    BY <2>1, <2>7, <2>8 DEF b
<1> HIDE DEF S
<1>4. Len(names) \in S
  BY <1>0, <1>2, <1>3, BoundedInduction
<1>5. Prefixed(Len(names)) = Hosted!ToSet(names)
  BY ElementsAre
<1> QED
  BY <1>1, <1>4, <1>5 DEF S, r

\* A command that is visited comes after all that it depends on.
LEMMA DepsComeFirst ==
  ASSUME NEW o, DepsFirst(o), NEW n \in HostNames, n \in Hosted!Steps, ~Hosted!Rejected(n),
         n \notin Hosted!ToSet(o), Hosted!ToSet(Hosted!Deps(n)) \subseteq Hosted!ToSet(o)
  PROVE  DepsFirst(Append(o, n))
<1> DEFINE q == Append(o, n)
<1>1. o \in Seq(HostNames) /\ Len(o) \in Nat
  BY DEF DepsFirst
<1>2. /\ q \in Seq(HostNames) /\ Len(q) = Len(o) + 1 /\ q[Len(o) + 1] = n
      /\ \A i \in 1 .. Len(o) : q[i] = o[i]
      /\ Hosted!ToSet(o) = {o[i] : i \in 1 .. Len(o)}
  BY <1>1, ElementsAre
<1> HIDE DEF q
<1>3. \A i \in 1 .. Len(q) : i \in 1 .. Len(o) \/ i = Len(o) + 1
  BY <1>1, <1>2
<1>4. ASSUME NEW i \in 1 .. Len(q), NEW j \in 1 .. Len(q), q[i] = q[j]
      PROVE  i = j
  BY <1>2, <1>3, <1>4 DEF DepsFirst
<1>5. \A i \in 1 .. Len(q) : q[i] \in Hosted!Steps /\ ~Hosted!Rejected(q[i])
  BY <1>2, <1>3 DEF DepsFirst
<1>6. ASSUME NEW i \in 1 .. Len(q), NEW m \in Hosted!ToSet(Hosted!Deps(q[i]))
      PROVE  \E j \in 1 .. i - 1 : q[j] = m
  <2>1. CASE i \in 1 .. Len(o)
    <3>1. PICK j \in 1 .. i - 1 : o[j] = m
      BY <1>2, <1>6, <2>1 DEF DepsFirst
    <3>2. j \in 1 .. Len(o)
      BY <1>1, <2>1
    <3> QED BY <1>2, <3>1, <3>2
  <2>2. CASE i = Len(o) + 1
    <3>1. PICK j \in 1 .. Len(o) : o[j] = m
      BY <1>2, <1>6, <2>2
    <3>2. j \in 1 .. i - 1
      BY <1>1, <2>2
    <3> QED BY <1>2, <3>1, <3>2
  <2> QED BY <1>3, <2>1, <2>2
<1> QED
  BY <1>2, <1>4, <1>5, <1>6 DEF DepsFirst, q

\* A cause for a dependency would be one for the command.
LEMMA NoCauseBelow ==
  ASSUME Hosted!HostAssumption, v1 \in HostProjects,
         NEW n \in Hosted!Steps, NEW chain \in SUBSET Hosted!Steps, NoCause({n}, chain)
  PROVE  NoCause(Hosted!ToSet(Hosted!Deps(n)), chain \cup {n})
<1> DEFINE D == Hosted!ToSet(Hosted!Deps(n))
<1>1. n \in HostNames /\ D \subseteq HostNames
  BY ProjectIsSound, ElementsAre
<1>2. SUFFICES ASSUME NEW m \in D
               PROVE  /\ Hosted!Reached({m}) \subseteq Hosted!Reached({n})
                      /\ \A a \in chain \cup {n} :
                           m \in Hosted!Reached(Hosted!ToSet(Hosted!Deps(a)))
  BY DEF NoCause
<1>3. m \in Hosted!Reached({n})
  BY <1>1, ReachedIsLeast DEF Hosted!Closed
<1>4. Hosted!Reached({m}) \subseteq Hosted!Reached({n})
  <2>1. /\ Hosted!Reached({n}) \subseteq HostNames /\ Hosted!Closed(Hosted!Reached({n}))
        /\ {m} \subseteq HostNames /\ {m} \subseteq Hosted!Reached({n})
    BY <1>1, <1>3, ReachedIsLeast
  <2> QED BY <2>1, ReachedIsLeast
<1>5. ASSUME NEW a \in chain \cup {n}
      PROVE  m \in Hosted!Reached(Hosted!ToSet(Hosted!Deps(a)))
  <2> DEFINE A == Hosted!ToSet(Hosted!Deps(a))
  <2>1. A \subseteq HostNames
    BY ProjectIsSound, ElementsAre
  <2>2. A \subseteq Hosted!Reached(A) /\ Hosted!Closed(Hosted!Reached(A))
    BY <2>1, ReachedIsLeast
  <2>3. CASE a = n
    BY <2>2, <2>3
  <2>4. CASE a \in chain
    <3>1. n \in Hosted!Reached(A)
      BY <2>4 DEF NoCause
    <3> QED BY <2>2, <3>1 DEF Hosted!Closed
  <2> QED BY <2>3, <2>4
<1> QED BY <1>4, <1>5

\* Every call of a chain without repetition has fewer to go.
LEMMA DeeperBelow ==
  ASSUME Hosted!HostAssumption, v1 \in HostProjects, NEW k \in Nat,
         NEW chain \in SUBSET Hosted!Steps, NEW n \in Hosted!Steps \ chain, Deeper(chain, k + 1)
  PROVE  Deeper(chain \cup {n}, k)
<1> DEFINE T == Hosted!Steps \ chain
<1>1. IsFiniteSet(T)
  BY ProjectIsSound, FS_Subset
<1>2. T \ {n} = Hosted!Steps \ (chain \cup {n}) /\ Cardinality(T) < k + 1 /\ n \in T
  BY DEF Deeper
<1>3. Cardinality(T \ {n}) = Cardinality(T) - 1 /\ Cardinality(T) \in Nat
  BY <1>1, <1>2, FS_RemoveElement, FS_CardinalityType
<1> HIDE DEF T
<1>4. Cardinality(T \ {n}) < k
  BY <1>2, <1>3
<1> QED BY <1>2, <1>4 DEF Deeper

\* A visit with k calls to go is made of visits with k - 1.
LEMMA EnterVisits ==
  ASSUME Hosted!HostAssumption, v1 \in HostProjects, NEW k \in Nat,
         NEW visit, Visits(visit, k), NEW call \in Hosted!Call, SoundDag(call.dag)
  PROVE  LET r == Hosted!Enter(visit, call)
         IN  /\ Explored({call.name}, call.chain, call.dag, r)
             /\ (call.dag.ok /\ NoCause({call.name}, call.chain) /\ Deeper(call.chain, k + 1)
                 => r.ok)
<1> DEFINE d == call.dag  n == call.name  chain == call.chain  r == Hosted!Enter(visit, call)
<1>1. d \in Hosted!Dag /\ n \in HostNames /\ chain \in SUBSET Hosted!Steps
  BY DEF Hosted!Call
<1>2. d.ok \in BOOLEAN /\ d.ordered \in Seq(HostNames) /\ [d EXCEPT !.ok = FALSE] \in Hosted!Dag
  BY <1>1 DEF Hosted!Dag
<1>3. CASE ~d.ok \/ n \in Hosted!ToSet(d.ordered)
  <2>1. r = d
    BY <1>3 DEF Hosted!Enter
  <2>2. Explored({n}, chain, d, d)
    BY <1>1, <1>3 DEF Explored, SoundDag
  <2> QED BY <2>1, <2>2
<1>4. CASE d.ok /\ n \notin Hosted!ToSet(d.ordered) /\ (n \in chain \/ Hosted!Rejected(n))
  <2>1. r = [d EXCEPT !.ok = FALSE]
    BY <1>4 DEF Hosted!Enter
  <2>2. Explored({n}, chain, d, r)
    BY <1>2, <2>1 DEF Explored
  <2>3. ~NoCause({n}, chain)
    <3>1. n \in Hosted!Reached({n})
      BY <1>1, ReachedIsLeast
    <3> QED BY <1>4, <3>1 DEF NoCause
  <2> QED BY <2>2, <2>3
<1>5. CASE d.ok /\ n \notin Hosted!ToSet(d.ordered) /\ n \notin chain /\ ~Hosted!Rejected(n)
  <2> DEFINE D == Hosted!ToSet(Hosted!Deps(n))
             each == Hosted!Each(visit, d, Hosted!Deps(n), chain \cup {n})
  <2>1. r = [each EXCEPT !.ordered = Append(@, n)]
    BY <1>5 DEF Hosted!Enter
  <2>2. n \in Hosted!Steps
    BY <1>5 DEF Hosted!Rejected
  <2>3. Hosted!Deps(n) \in Seq(HostNames) /\ D \subseteq HostNames
    BY <2>2, ProjectIsSound, ElementsAre
  <2>4. /\ Explored(D, chain \cup {n}, d, each)
        /\ d.ok /\ NoCause(D, chain \cup {n}) /\ Deeper(chain \cup {n}, k) => each.ok
    BY <1>1, <2>2, <2>3, EachVisits
  <2> HIDE DEF r, each
  <2>5. /\ each \in Hosted!Dag /\ each.ok \in BOOLEAN /\ each.ordered \in Seq(HostNames)
        /\ r.ordered = Append(each.ordered, n) /\ r.ok = each.ok
    BY <2>1, <2>4 DEF Explored, Hosted!Dag
  <2>6. /\ r.ordered \in Seq(HostNames)
        /\ Hosted!ToSet(r.ordered) = Hosted!ToSet(each.ordered) \cup {n}
    BY <1>1, <2>5, ElementsAre
  <2>7. r \in Hosted!Dag
    BY <2>1, <2>5, <2>6 DEF Hosted!Dag
  <2>8. ASSUME r.ok
        PROVE  /\ DepsFirst(r.ordered)
               /\ Hosted!ToSet(d.ordered) \subseteq Hosted!ToSet(r.ordered)
               /\ n \in Hosted!ToSet(r.ordered)
               /\ Hosted!ToSet(r.ordered) \cap chain \subseteq Hosted!ToSet(d.ordered)
    <3>1. /\ DepsFirst(each.ordered) /\ D \subseteq Hosted!ToSet(each.ordered)
          /\ Hosted!ToSet(d.ordered) \subseteq Hosted!ToSet(each.ordered)
          /\ Hosted!ToSet(each.ordered) \cap (chain \cup {n}) \subseteq Hosted!ToSet(d.ordered)
      BY <2>4, <2>5, <2>8 DEF Explored
    <3>2. n \notin Hosted!ToSet(each.ordered)
      BY <1>5, <3>1
    <3>3. DepsFirst(r.ordered)
      BY <1>1, <1>5, <2>2, <2>5, <3>1, <3>2, DepsComeFirst
    <3> QED BY <1>5, <2>6, <3>1, <3>3
  <2>9. ASSUME r.ok, NEW C \in SUBSET HostNames, Hosted!Closed(C), n \in C
        PROVE  Hosted!ToSet(r.ordered) \subseteq Hosted!ToSet(d.ordered) \cup C
    <3>1. D \subseteq C
      BY <2>2, <2>9 DEF Hosted!Closed
    <3>2. Hosted!ToSet(each.ordered) \subseteq Hosted!ToSet(d.ordered) \cup C
      BY <2>4, <2>5, <2>9, <3>1 DEF Explored
    <3> QED BY <2>6, <2>9, <3>2
  <2>10. Explored({n}, chain, d, r)
    BY <1>5, <2>7, <2>8, <2>9 DEF Explored
  <2>11. NoCause({n}, chain) /\ Deeper(chain, k + 1) => r.ok
    BY <1>1, <1>5, <2>2, <2>4, <2>5, NoCauseBelow, DeeperBelow
  <2> QED BY <2>10, <2>11 DEF r
<1> QED BY <1>2, <1>3, <1>4, <1>5

\* The visits that `visit' is made of: one that gives up, and one deeper than a visit.
Shallow == [call \in Hosted!Call |-> [call.dag EXCEPT !.ok = FALSE]]
Deepened(visit) == [call \in Hosted!Call |-> Hosted!Enter(visit, call)]

\* They are nested as deep as a chain can be.
LEMMA VisitUnfolds ==
  ASSUME Hosted!Depth \in Nat
  PROVE  \E v : /\ Hosted!Visit = v[Hosted!Depth]
                /\ v[0] = Shallow
                /\ \A k \in 0 .. Hosted!Depth - 1 : v[k + 1] = Deepened(v[k])
<1> DEFINE N == Hosted!Depth
           Body(g, n) == [k \in 0 .. n |->
                            [call \in Hosted!Call |-> IF k = 0 THEN [call.dag EXCEPT !.ok = FALSE]
                                                      ELSE Hosted!Enter(g[k - 1], call)]]
           Short(g, n) == [k \in 0 .. n |-> IF k = 0 THEN Shallow ELSE Deepened(g[k - 1])]
           E == {n \in Nat : \E g : g = Short(g, n)}
           R == CHOOSE g : g = Body(g, N)
<1>1. Hosted!Visit = R[N]
  BY DEF Hosted!Visit
<1>2. ASSUME NEW g, NEW n
      PROVE  Body(g, n) = Short(g, n)
  <2>1. \A k \in 0 .. n :
          [call \in Hosted!Call |-> IF k = 0 THEN [call.dag EXCEPT !.ok = FALSE]
                                    ELSE Hosted!Enter(g[k - 1], call)]
            = IF k = 0 THEN Shallow ELSE Deepened(g[k - 1])
    BY DEF Shallow, Deepened
  <2> QED BY <2>1
<1> HIDE DEF Body
<1>3. R = Body(R, N)
  <2>1. 0 \in E
    <3>1. Short([k \in 0 .. 0 |-> Shallow], 0) = [k \in 0 .. 0 |-> Shallow]
      OBVIOUS
    <3> QED
      BY <3>1
  <2>2. ASSUME NEW n \in Nat, n \in E
        PROVE  n + 1 \in E
    <3>1. PICK g : g = Short(g, n)
      BY <2>2
    <3> DEFINE h == [k \in 0 .. n + 1 |-> IF k <= n THEN g[k] ELSE Deepened(g[n])]
    <3>2. h = Short(h, n + 1)
      BY <3>1
    <3> HIDE DEF h, Short
    <3>3. \E f : f = Short(f, n + 1)
      BY <3>2
    <3> QED
      BY <3>3
  <2>3. N \in E
    BY <2>1, <2>2, SetInduction
  <2>4. \E g : g = Body(g, N)
    <3>1. PICK g : g = Short(g, N)
      BY <2>3
    <3> HIDE DEF Short, N
    <3> QED BY <1>2, <3>1
  <2> QED
    BY <2>4
<1>4. R = Short(R, N)
  BY <1>2, <1>3
<1> HIDE DEF R, N
<1>5. N \in Nat
  BY DEF N
<1>6. R[0] = Shallow
  BY <1>4, <1>5
<1>7. ASSUME NEW k \in 0 .. N - 1
      PROVE  R[k + 1] = Deepened(R[k])
  <2>1. k + 1 \in 0 .. N /\ k + 1 # 0 /\ (k + 1) - 1 = k
    BY <1>5
  <2> QED
    BY <1>4, <2>1
<1> QED
  BY <1>1, <1>6, <1>7 DEF N

\* So `visit' visits every name, whatever its chain.
LEMMA VisitVisits ==
  ASSUME Hosted!HostAssumption, v1 \in HostProjects
  PROVE  Visits(Hosted!Visit, Hosted!Depth)
<1> DEFINE N == Hosted!Depth
<1>1. N \in Nat
  BY ProjectIsSound
<1>2. PICK v : /\ Hosted!Visit = v[N]
               /\ v[0] = Shallow /\ \A k \in 0 .. N - 1 : v[k + 1] = Deepened(v[k])
  BY <1>1, VisitUnfolds
<1> HIDE DEF N
<1> DEFINE S == {k \in 0 .. N : Visits(v[k], k)}
<1>3. 0 \in S
  <2>1. ASSUME NEW call \in Hosted!Call
        PROVE  v[0][call].ok = FALSE /\ v[0][call] \in Hosted!Dag
    BY <1>2 DEF Shallow, Hosted!Call, Hosted!Dag
  <2>2. ASSUME NEW chain
        PROVE  ~Deeper(chain, 0)
    <3>1. IsFiniteSet(Hosted!Steps \ chain)
      BY ProjectIsSound, FS_Subset
    <3>2. Cardinality(Hosted!Steps \ chain) \in Nat
      BY <3>1, FS_CardinalityType
    <3> QED BY <3>2 DEF Deeper
  <2>3. Visits(v[0], 0)
    BY <2>1, <2>2 DEF Visits, Explored
  <2> QED BY <1>1, <2>3
<1>4. ASSUME NEW k \in 0 .. N - 1, k \in S
      PROVE  k + 1 \in S
  <2>1. k \in Nat /\ Visits(v[k], k) /\ k + 1 \in 0 .. N
    BY <1>1, <1>4
  <2>2. \A call \in Hosted!Call : v[k + 1][call] = Hosted!Enter(v[k], call)
    BY <1>2, <1>4 DEF Deepened
  <2>3. Visits(v[k + 1], k + 1)
    BY <2>1, <2>2, EnterVisits DEF Visits
  <2> QED BY <2>1, <2>3
<1> HIDE DEF S
<1>5. N \in S
  BY <1>1, <1>3, <1>4, BoundedInduction
<1> QED
  BY <1>2, <1>5 DEF S, N

\* What a visited command reaches was visited before it.
LEMMA ReachedBefore ==
  ASSUME Hosted!HostAssumption, v1 \in HostProjects, NEW o, DepsFirst(o), NEW i \in 1 .. Len(o)
  PROVE  /\ Hosted!Reached(Hosted!ToSet(Hosted!Deps(o[i]))) \subseteq {o[j] : j \in 1 .. i - 1}
         /\ o[i] \notin Hosted!Reached(Hosted!ToSet(Hosted!Deps(o[i])))
<1> DEFINE C == {o[j] : j \in 1 .. i - 1}
<1>1. Len(o) \in Nat /\ \A j \in 1 .. Len(o) : o[j] \in HostNames
  BY DEF DepsFirst
<1>2. 1 .. i - 1 \subseteq 1 .. Len(o) /\ i \notin 1 .. i - 1
  BY <1>1
<1>3. C \subseteq HostNames /\ o[i] \notin C
  BY <1>1, <1>2 DEF DepsFirst
<1>4. Hosted!ToSet(Hosted!Deps(o[i])) \subseteq C
  BY DEF DepsFirst
<1>5. ASSUME NEW n \in C \cap Hosted!Steps, NEW m \in Hosted!ToSet(Hosted!Deps(n))
      PROVE  m \in C
  <2>1. PICK j \in 1 .. i - 1 : n = o[j]
    OBVIOUS
  <2>2. PICK h \in 1 .. j - 1 : o[h] = m
    BY <1>2, <1>5, <2>1 DEF DepsFirst
  <2>3. h \in 1 .. i - 1
    BY <1>1, <2>1
  <2> QED BY <2>2, <2>3
<1>6. Hosted!Closed(C)
  BY <1>5 DEF Hosted!Closed
<1> HIDE DEF C
<1>7. Hosted!Reached(Hosted!ToSet(Hosted!Deps(o[i]))) \subseteq C
  <2>1. Hosted!ToSet(Hosted!Deps(o[i])) \subseteq HostNames
    BY <1>3, <1>4
  <2> QED BY <1>3, <1>4, <1>6, <2>1, ReachedIsLeast
<1> QED BY <1>3, <1>7 DEF C

\* A DAG resolves if everything that it reaches can run, to that.
LEMMA DagResolves ==
  ASSUME Hosted!HostAssumption, v1 \in HostProjects, NEW roots \in Seq(HostNames)
  PROVE  LET R == Hosted!Reached(Hosted!ToSet(roots))
             dag == Hosted!Each(Hosted!Visit, [ok |-> TRUE, ordered |-> <<>>], roots, {})
             ok == dag.ok /\ \A n \in Hosted!ToSet(dag.ordered) : Hosted!Kind(n) # "plugin"
         IN  /\ ok <=> \A n \in R : ~Hosted!Unrunnable(n)
             /\ ok => DepsFirst(dag.ordered) /\ Hosted!ToSet(dag.ordered) = R
<1> DEFINE R == Hosted!Reached(Hosted!ToSet(roots))
           none == [ok |-> TRUE, ordered |-> <<>>]
           dag == Hosted!Each(Hosted!Visit, none, roots, {})
           o == dag.ordered
           ok == dag.ok /\ \A n \in Hosted!ToSet(o) : Hosted!Kind(n) # "plugin"
<1>1. Hosted!ToSet(roots) \subseteq HostNames /\ Hosted!ToSet(<<>>) = {}
  BY ElementsAre DEF Hosted!ToSet
<1>2. /\ Hosted!ToSet(roots) \subseteq R /\ R \subseteq HostNames /\ Hosted!Closed(R)
      /\ \A C : C \subseteq HostNames /\ Hosted!Closed(C) /\ Hosted!ToSet(roots) \subseteq C =>
           R \subseteq C
  BY <1>1, ReachedIsLeast
<1>3. SoundDag(none) /\ none.ok /\ none.ordered = <<>>
  <2>1. DepsFirst(<<>>)
    BY DEF DepsFirst
  <2> QED BY <2>1 DEF SoundDag, Hosted!Dag
<1>4. Deeper({}, Hosted!Depth)
  <2>1. Hosted!Steps \ {} = Hosted!Steps
    OBVIOUS
  <2> QED BY <2>1, ProjectIsSound DEF Deeper
<1>5. /\ Explored(Hosted!ToSet(roots), {}, none, dag)
      /\ NoCause(Hosted!ToSet(roots), {}) => dag.ok
  <2>1. {} \in SUBSET Hosted!Steps
    OBVIOUS
  <2>2. Visits(Hosted!Visit, Hosted!Depth)
    BY VisitVisits
  <2> HIDE DEF none
  <2> QED BY <1>3, <1>4, <2>1, <2>2, EachVisits
<1> HIDE DEF R, none, dag
<1>6. ASSUME dag.ok
      PROVE  DepsFirst(o) /\ Hosted!ToSet(o) = R
  <2>1. /\ DepsFirst(o) /\ Hosted!ToSet(roots) \subseteq Hosted!ToSet(o)
        /\ Hosted!ToSet(o) \subseteq R
    BY <1>1, <1>2, <1>3, <1>5, <1>6 DEF Explored
  <2>2. o \in Seq(HostNames) /\ Hosted!ToSet(o) = {o[i] : i \in 1 .. Len(o)} /\ Len(o) \in Nat
        /\ Hosted!ToSet(o) \subseteq HostNames
    BY <2>1, ElementsAre DEF DepsFirst
  <2>3. ASSUME NEW n \in Hosted!ToSet(o) \cap Hosted!Steps, NEW m \in Hosted!ToSet(Hosted!Deps(n))
        PROVE  m \in Hosted!ToSet(o)
    <3>1. PICK i \in 1 .. Len(o) : n = o[i]
      BY <2>2
    <3>2. PICK j \in 1 .. i - 1 : o[j] = m
      BY <2>1, <2>3, <3>1 DEF DepsFirst
    <3>3. j \in 1 .. Len(o)
      BY <2>2
    <3> QED BY <2>2, <3>2, <3>3
  <2>4. Hosted!Closed(Hosted!ToSet(o))
    BY <2>3 DEF Hosted!Closed
  <2> QED BY <1>2, <2>1, <2>2, <2>4
<1>7. ASSUME ok, NEW n \in R
      PROVE  ~Hosted!Unrunnable(n)
  <2>1. DepsFirst(o) /\ n \in Hosted!ToSet(o) /\ Hosted!Kind(n) # "plugin"
    BY <1>6, <1>7
  <2>2. PICK i \in 1 .. Len(o) : n = o[i]
    BY <2>1, ElementsAre DEF DepsFirst
  <2> HIDE DEF o
  <2>3. ~Hosted!Rejected(n) /\ n \notin Hosted!Reached(Hosted!ToSet(Hosted!Deps(n)))
    BY <2>1, <2>2, ReachedBefore DEF DepsFirst
  <2> QED BY <2>1, <2>3 DEF Hosted!Unrunnable
<1>8. ASSUME \A n \in R : ~Hosted!Unrunnable(n)
      PROVE  ok
  <2>1. ASSUME NEW n \in Hosted!ToSet(roots)
        PROVE  Hosted!Reached({n}) \subseteq R
    <3>1. {n} \subseteq HostNames /\ {n} \subseteq R
      BY <1>1, <1>2
    <3> QED BY <1>2, <3>1, ReachedIsLeast
  <2>2. NoCause(Hosted!ToSet(roots), {})
    BY <1>8, <2>1 DEF NoCause, Hosted!Unrunnable
  <2> QED BY <1>5, <1>6, <1>8, <2>2 DEF Hosted!Unrunnable
<1> QED
  BY <1>6, <1>7, <1>8 DEF R, dag, none

\* The leaves so far, and one command more.
WithLeaf(leaves, n) == IF Hosted!Kind(n) = "leaf" THEN Append(leaves, n) ELSE leaves

\* The commands are looked at one after the other.
LEMMA LeafStepsUnfold ==
  ASSUME NEW names, Len(names) \in Nat
  PROVE  \E e : /\ e[0] = <<>> /\ Hosted!LeafSteps(names) = e[Len(names)]
                /\ \A k \in 0 .. Len(names) - 1 : e[k + 1] = WithLeaf(e[k], names[k + 1])
<1> DEFINE N == Len(names)
           Short(g, n) == [k \in 0 .. n |-> IF k = 0 THEN <<>> ELSE WithLeaf(g[k - 1], names[k])]
           E == {n \in Nat : \E g : g = Short(g, n)}
           R == CHOOSE g : g = Short(g, N)
<1>1. Hosted!LeafSteps(names) = R[N]
  BY DEF Hosted!LeafSteps, WithLeaf
<1>2. R = Short(R, N)
  <2>1. 0 \in E
    <3>1. Short([k \in 0 .. 0 |-> <<>>], 0) = [k \in 0 .. 0 |-> <<>>]
      OBVIOUS
    <3> QED
      BY <3>1
  <2>2. ASSUME NEW n \in Nat, n \in E
        PROVE  n + 1 \in E
    <3>1. PICK g : g = Short(g, n)
      BY <2>2
    <3> DEFINE h == [k \in 0 .. n + 1 |-> IF k <= n THEN g[k]
                                          ELSE WithLeaf(g[n], names[n + 1])]
    <3>2. h = Short(h, n + 1)
      BY <3>1
    <3> HIDE DEF h, Short
    <3>3. \E f : f = Short(f, n + 1)
      BY <3>2
    <3> QED
      BY <3>3
  <2>3. N \in E
    BY <2>1, <2>2, SetInduction
  <2> QED
    BY <2>3
<1> HIDE DEF R, N
<1>3. N \in Nat
  BY DEF N
<1>4. R[0] = <<>>
  BY <1>2, <1>3
<1>5. ASSUME NEW k \in 0 .. N - 1
      PROVE  R[k + 1] = WithLeaf(R[k], names[k + 1])
  <2>1. k + 1 \in 0 .. N /\ k + 1 # 0 /\ (k + 1) - 1 = k
    BY <1>3
  <2> QED
    BY <1>2, <2>1
<1> QED
  BY <1>1, <1>4, <1>5 DEF N

\* The leaves of the first i commands, in their order.
LeavesOf(l, o, i) ==
  /\ l \in Seq(HostNames)
  /\ Hosted!ToSet(l) = {n \in {o[j] : j \in 1 .. i} : Hosted!Kind(n) = "leaf"}
  /\ \A y \in 1 .. Len(l) : \E b \in 1 .. i :
       l[y] = o[b] /\ \A x \in 1 .. y - 1 : \E a \in 1 .. b - 1 : l[x] = o[a]

\* The steps of a script are the leaves of what was visited, in that order.
LEMMA LeavesAre ==
  ASSUME NEW o \in Seq(HostNames)
  PROVE  LeavesOf(Hosted!LeafSteps(o), o, Len(o))
<1>0. Len(o) \in Nat /\ \A i \in 1 .. Len(o) : o[i] \in HostNames
  OBVIOUS
<1>1. PICK e : /\ e[0] = <<>> /\ Hosted!LeafSteps(o) = e[Len(o)]
               /\ \A k \in 0 .. Len(o) - 1 : e[k + 1] = WithLeaf(e[k], o[k + 1])
  BY ONLY <1>0, LeafStepsUnfold
<1> DEFINE S == {i \in 0 .. Len(o) : LeavesOf(e[i], o, i)}
<1>2. 0 \in S
  <2>1. Hosted!ToSet(<<>>) = {} /\ <<>> \in Seq(HostNames) /\ Len(<<>>) = 0
    BY DEF Hosted!ToSet
  <2>2. {o[j] : j \in 1 .. 0} = {}
    OBVIOUS
  <2>3. LeavesOf(<<>>, o, 0)
    BY <2>1, <2>2 DEF LeavesOf
  <2> QED BY <1>0, <1>1, <2>3
<1>3. ASSUME NEW i \in 0 .. Len(o) - 1, i \in S
      PROVE  i + 1 \in S
  <2> DEFINE l == e[i]  n == o[i + 1]  H(k) == {o[j] : j \in 1 .. k}
  <2>1. /\ i \in Nat /\ i + 1 \in 0 .. Len(o) /\ i + 1 \in 1 .. Len(o) /\ n \in HostNames
        /\ e[i + 1] = WithLeaf(l, n) /\ LeavesOf(l, o, i)
        /\ l \in Seq(HostNames) /\ Len(l) \in Nat
    BY <1>0, <1>1, <1>3 DEF LeavesOf
  <2>2. H(i + 1) = H(i) \cup {n} /\ 1 .. i \subseteq 1 .. i + 1 /\ i + 1 \in 1 .. i + 1
    <3>1. \A j \in 1 .. i + 1 : j \in 1 .. i \/ j = i + 1
      BY <2>1
    <3>2. 1 .. i \subseteq 1 .. i + 1 /\ i + 1 \in 1 .. i + 1
      BY <2>1
    <3> QED BY <3>1, <3>2
  <2>3. CASE Hosted!Kind(n) # "leaf"
    <3>1. e[i + 1] = l
      BY <2>1, <2>3 DEF WithLeaf
    <3> HIDE DEF l, n
    <3>2. Hosted!ToSet(l) = {m \in H(i + 1) : Hosted!Kind(m) = "leaf"}
      BY <2>1, <2>2, <2>3 DEF LeavesOf
    <3>3. LeavesOf(l, o, i + 1)
      BY <2>1, <2>2, <3>2 DEF LeavesOf
    <3> QED BY <2>1, <3>1, <3>3
  <2>4. CASE Hosted!Kind(n) = "leaf"
    <3> DEFINE q == Append(l, n)
    <3>1. e[i + 1] = q
      BY <2>1, <2>4 DEF WithLeaf
    <3>2. /\ q \in Seq(HostNames) /\ Len(q) = Len(l) + 1 /\ q[Len(l) + 1] = n
          /\ \A x \in 1 .. Len(l) : q[x] = l[x]
          /\ Hosted!ToSet(q) = Hosted!ToSet(l) \cup {n}
          /\ Hosted!ToSet(l) = {l[x] : x \in 1 .. Len(l)}
      BY <2>1, ElementsAre
    <3> HIDE DEF q, l
    <3>3. Hosted!ToSet(q) = {m \in H(i + 1) : Hosted!Kind(m) = "leaf"}
      <4> HIDE DEF n
      <4> QED BY <2>1, <2>2, <2>4, <3>2 DEF LeavesOf
    <3>4. ASSUME NEW y \in 1 .. Len(q)
          PROVE  \E b \in 1 .. i + 1 :
                   q[y] = o[b] /\ \A x \in 1 .. y - 1 : \E a \in 1 .. b - 1 : q[x] = o[a]
      <4>1. CASE y \in 1 .. Len(l)
        <5>1. PICK b \in 1 .. i :
                l[y] = o[b] /\ \A x \in 1 .. y - 1 : \E a \in 1 .. b - 1 : l[x] = o[a]
          BY <2>1, <4>1 DEF LeavesOf
        <5>2. \A x \in 1 .. y - 1 : x \in 1 .. Len(l)
          BY <2>1, <4>1
        <5>3. q[y] = l[y] /\ \A x \in 1 .. y - 1 : q[x] = l[x]
          BY <3>2, <4>1, <5>2
        <5>4. \A x \in 1 .. y - 1 : \E a \in 1 .. b - 1 : q[x] = o[a]
          BY <5>1, <5>3
        <5>5. b \in 1 .. i + 1 /\ q[y] = o[b]
          BY <2>2, <5>1, <5>3
        <5> QED BY <5>4, <5>5
      <4>2. CASE y = Len(l) + 1
        <5>1. \A x \in 1 .. Len(l) : \E a \in 1 .. i : l[x] = o[a]
          BY <2>1 DEF LeavesOf
        <5>2. y - 1 = Len(l) /\ (i + 1) - 1 = i
          BY <2>1, <4>2
        <5> QED BY <2>2, <3>2, <4>2, <5>1, <5>2
      <4> QED BY <2>1, <3>2, <4>1, <4>2
    <3>5. LeavesOf(q, o, i + 1)
      BY <3>2, <3>3, <3>4 DEF LeavesOf
    <3> QED BY <2>1, <3>1, <3>5
  <2> QED BY <2>3, <2>4
<1> HIDE DEF S
<1>4. Len(o) \in S
  <2>1. \A k \in 0 .. Len(o) - 1 : k \in S => k + 1 \in S
    BY <1>3
  <2>2. 0 .. Len(o) \subseteq S
    BY <1>0, <1>2, <2>1, BoundedInduction
  <2> QED BY <1>0, <2>2
<1> QED
  BY <1>1, <1>4 DEF S

\* The script of a DAG is there if it can run, and ordered if it is.
LEMMA ScriptIsOrdered ==
  ASSUME Hosted!HostAssumption, v1 \in HostProjects, NEW roots \in Seq(HostNames)
  PROVE  LET R == Hosted!Reached(Hosted!ToSet(roots))
             script == Hosted!resolveCommandDag(roots)
             t == script.steps
         IN  /\ script.ok = (\A n \in R : ~Hosted!Unrunnable(n)) /\ t \in Seq(HostNames)
             /\ script.ok =>
                  /\ Hosted!ToSet(t) = {n \in R : Hosted!Kind(n) = "leaf"}
                  /\ \A i, j \in 1 .. Len(t) : t[i] = t[j] => i = j
                  /\ \A i, j \in 1 .. Len(t) :
                       t[j] \in Hosted!Reached(Hosted!ToSet(Hosted!Deps(t[i]))) => j < i
<1> DEFINE R == Hosted!Reached(Hosted!ToSet(roots))
           dag == Hosted!Each(Hosted!Visit, [ok |-> TRUE, ordered |-> <<>>], roots, {})
           o == dag.ordered
           ok == dag.ok /\ \A n \in Hosted!ToSet(o) : Hosted!Kind(n) # "plugin"
           t == Hosted!LeafSteps(o)
<1>1. Hosted!resolveCommandDag(roots) = [ok |-> ok, steps |-> t]
  BY DEF Hosted!resolveCommandDag
<1>2. /\ ok <=> \A n \in R : ~Hosted!Unrunnable(n)
      /\ ok => DepsFirst(o) /\ Hosted!ToSet(o) = R
  BY DagResolves
<1>3. o \in Seq(HostNames)
  <2>1. /\ Visits(Hosted!Visit, Hosted!Depth) /\ {} \in SUBSET Hosted!Steps
        /\ SoundDag([ok |-> TRUE, ordered |-> <<>>])
    <3>1. DepsFirst(<<>>)
      BY DEF DepsFirst
    <3> QED BY <3>1, VisitVisits DEF SoundDag, Hosted!Dag
  <2>2. dag \in Hosted!Dag
    BY <2>1, EachVisits DEF Explored
  <2> QED BY <2>2 DEF Hosted!Dag
<1>4. LeavesOf(t, o, Len(o))
  BY <1>3, LeavesAre
<1>5. t \in Seq(HostNames) /\ Len(t) \in Nat /\ Len(o) \in Nat
      /\ Hosted!ToSet(o) = {o[i] : i \in 1 .. Len(o)}
  <2>1. t \in Seq(HostNames)
    BY <1>4 DEF LeavesOf
  <2> HIDE DEF t, dag
  <2> QED BY <1>3, <2>1, ElementsAre
<1> HIDE DEF R, dag, t
<1>6. ASSUME ok
      PROVE  Hosted!ToSet(t) = {n \in R : Hosted!Kind(n) = "leaf"}
  BY <1>2, <1>4, <1>5, <1>6 DEF LeavesOf
<1>7. ASSUME NEW i \in 1 .. Len(t), NEW j \in 1 .. Len(t), i < j
      PROVE  \E b \in 1 .. Len(o), a \in 1 .. Len(o) : a < b /\ t[i] = o[a] /\ t[j] = o[b]
  <2>1. PICK b \in 1 .. Len(o) :
          t[j] = o[b] /\ \A x \in 1 .. j - 1 : \E a \in 1 .. b - 1 : t[x] = o[a]
    BY <1>4 DEF LeavesOf
  <2>2. i \in 1 .. j - 1
    BY <1>5, <1>7
  <2>3. PICK a \in 1 .. b - 1 : t[i] = o[a]
    BY <2>1, <2>2
  <2>4. a \in 1 .. Len(o) /\ a < b
    BY <1>5
  <2> QED BY <2>1, <2>3, <2>4
<1>8. ASSUME ok, NEW i \in 1 .. Len(t), NEW j \in 1 .. Len(t), i < j
      PROVE  /\ t[i] # t[j]
             /\ t[j] \notin Hosted!Reached(Hosted!ToSet(Hosted!Deps(t[i])))
  <2>1. PICK b \in 1 .. Len(o), a \in 1 .. Len(o) : a < b /\ t[i] = o[a] /\ t[j] = o[b]
    BY <1>7, <1>8
  <2>2. DepsFirst(o)
    BY <1>2, <1>8
  <2> HIDE DEF o
  <2>3. Hosted!Reached(Hosted!ToSet(Hosted!Deps(o[a]))) \subseteq {o[c] : c \in 1 .. a - 1}
    BY <2>2, ReachedBefore
  <2>4. ASSUME NEW c \in 1 .. a - 1
        PROVE  c \in 1 .. Len(o) /\ c # b
    <3>1. a < b /\ Len(o) \in Nat
      BY <1>5, <2>1
    <3> QED BY <3>1
  <2> QED BY <2>1, <2>2, <2>3, <2>4 DEF DepsFirst
<1>9. ASSUME ok, NEW i \in 1 .. Len(t)
      PROVE  t[i] \notin Hosted!Reached(Hosted!ToSet(Hosted!Deps(t[i])))
  <2>1. PICK b \in 1 .. Len(o) : t[i] = o[b]
    BY <1>4 DEF LeavesOf
  <2>2. DepsFirst(o)
    BY <1>2, <1>9
  <2> QED BY <2>1, <2>2, ReachedBefore
<1>10. ASSUME ok
       PROVE  /\ \A i, j \in 1 .. Len(t) : t[i] = t[j] => i = j
              /\ \A i, j \in 1 .. Len(t) :
                   t[j] \in Hosted!Reached(Hosted!ToSet(Hosted!Deps(t[i]))) => j < i
  <2>1. \A i, j \in 1 .. Len(t) : i < j \/ j < i \/ i = j
    BY <1>5
  <2> HIDE DEF o, ok
  <2> QED BY <1>8, <1>9, <1>10, <2>1
<1>11. ok = (\A n \in R : ~Hosted!Unrunnable(n))
  BY <1>2
<1> HIDE DEF ok
<1>12. Hosted!resolveCommandDag(roots).ok = ok /\ Hosted!resolveCommandDag(roots).steps = t
  BY <1>1
<1> QED
  BY <1>5, <1>6, <1>10, <1>11, <1>12 DEF R

\* So it is with the script of every service that has a DAG.
LEMMA ScriptsOrdered ==
  ASSUME Hosted!HostAssumption, v1 \in HostProjects
  PROVE  /\ Hosted!ScriptsAreOrdered
         /\ \A s \in Hosted!Dags :
              /\ Hosted!resolveBuildCommandScript(s).ok = Hosted!CanRun(s)
              /\ Hosted!resolveBuildCommandScript(s).steps \in Seq(HostNames)
<1> SUFFICES ASSUME NEW s \in Hosted!Dags
             PROVE  LET script == Hosted!resolveBuildCommandScript(s)  t == script.steps
                        R == Hosted!Reached(Hosted!ToSet(v1.command[s]))
                    IN  /\ script.ok = Hosted!CanRun(s) /\ t \in Seq(HostNames)
                        /\ script.ok =>
                             /\ Hosted!ToSet(t) = {n \in R : Hosted!Kind(n) = "leaf"}
                             /\ Hosted!IsInjective(t)
                             /\ \A i, j \in DOMAIN t :
                                  t[j] \in Hosted!Reached(Hosted!ToSet(Hosted!Deps(t[i]))) => j < i
  BY DEF Hosted!ScriptsAreOrdered
<1> DEFINE script == Hosted!resolveBuildCommandScript(s)
           t == script.steps
           R == Hosted!Reached(Hosted!ToSet(v1.command[s]))
<1>1. s \in v1.targets /\ Hosted!HasDag(s)
  BY DEF Hosted!Dags, Hosted!buildableTargets
<1>2. v1.command[s] \in Seq(HostNames)
  BY <1>1, ProjectIsSound
<1>3. script = Hosted!resolveCommandDag(v1.command[s])
  BY <1>1 DEF Hosted!resolveBuildCommandScript
<1> HIDE DEF script
<1>4. /\ script.ok = (\A n \in R : ~Hosted!Unrunnable(n)) /\ t \in Seq(HostNames)
      /\ script.ok =>
           /\ Hosted!ToSet(t) = {n \in R : Hosted!Kind(n) = "leaf"}
           /\ \A i, j \in 1 .. Len(t) : t[i] = t[j] => i = j
           /\ \A i, j \in 1 .. Len(t) :
                t[j] \in Hosted!Reached(Hosted!ToSet(Hosted!Deps(t[i]))) => j < i
  BY <1>2, <1>3, ScriptIsOrdered
<1>5. Hosted!CanRun(s) = (\A n \in R : ~Hosted!Unrunnable(n))
  BY DEF Hosted!CanRun
<1> HIDE DEF R, t
<1>6. DOMAIN t = 1 .. Len(t)
  BY <1>4
<1>7. script.ok => Hosted!IsInjective(t)
  BY <1>4, <1>6 DEF Hosted!IsInjective
<1> QED
  BY <1>4, <1>5, <1>6, <1>7 DEF R, t, script

\* An image build stops at the first step that fails.
LEMMA ImagesStop ==
  ASSUME Hosted!HostAssumption, v1 \in HostProjects
  PROVE  Hosted!ImageBuildsStop
<1> SUFFICES ASSUME NEW s \in Hosted!Dags, NEW b,
                    b = Hosted!Docker(Hosted!resolveBuildCommandScript(s).steps),
                    Hosted!ToSet(b.ran) \cap v2 # {}
             PROVE  ~b.ok /\ Hosted!Last(b.ran) \in v2
  BY DEF Hosted!ImageBuildsStop
<1> DEFINE t == Hosted!resolveBuildCommandScript(s).steps
           I == {i \in 1 .. Len(t) : t[i] \in v2}
           f == Hosted!FirstFailure(t)
<1>1. t \in Seq(HostNames) /\ Len(t) \in Nat
  BY ScriptsOrdered
<1>2. b = [ran |-> IF f = 0 THEN t ELSE SubSeq(t, 1, f), ok |-> f = 0]
  BY DEF Hosted!Docker
<1>3. f = IF I # {} THEN Hosted!Min(I) ELSE 0
  BY DEF Hosted!FirstFailure, Hosted!SelectInSeq
<1> HIDE DEF t, f
<1>4. CASE I = {}
  <2>1. b.ran = t
    BY <1>2, <1>3, <1>4
  <2>2. Hosted!ToSet(t) = {t[i] : i \in 1 .. Len(t)}
    BY <1>1, ElementsAre
  <2> QED BY <1>4, <2>1, <2>2
<1>5. CASE I # {}
  <2>1. \E x \in I : \A y \in I : x <= y
    <3>1. I \subseteq Nat
      BY <1>1
    <3> HIDE DEF I
    <3> QED BY <1>5, <3>1, LeastElement
  <2>2. f \in I
    BY <1>3, <1>5, <2>1 DEF Hosted!Min
  <2>3. f \in Nat /\ f >= 1 /\ f <= Len(t) /\ t[f] \in v2
    BY <1>1, <2>2
  <2>4. b.ran = SubSeq(t, 1, f) /\ ~b.ok
    <3>1. b.ran = (IF f = 0 THEN t ELSE SubSeq(t, 1, f)) /\ b.ok = (f = 0)
      BY <1>2
    <3>2. f # 0
      BY <2>3
    <3>3. b.ran = SubSeq(t, 1, f)
      BY <3>1, <3>2
    <3>4. b.ok = FALSE
      BY <3>1, <3>2, Zenon
    <3> QED BY <3>3, <3>4
  <2>5. Len(b.ran) = f /\ b.ran[f] = t[f]
    BY <1>1, <2>3, <2>4
  <2> QED BY <2>3, <2>4, <2>5 DEF Hosted!Last
<1> QED BY <1>4, <1>5

\* What says of the project only is what it was.
LEMMA ProjectStays ==
  ASSUME v1' = v1
  PROVE  /\ Hosted!Nodes' = Hosted!Nodes /\ Hosted!Dags' = Hosted!Dags
         /\ \A n : /\ Hosted!AllNeeds(n)' = Hosted!AllNeeds(n)
                   /\ Hosted!CanRun(n)' = Hosted!CanRun(n)
<1>1. /\ Hosted!buildableTargets' = Hosted!buildableTargets
      /\ Hosted!packageBuilds' = Hosted!packageBuilds
  BY DEF Hosted!buildableTargets, Hosted!packageBuilds, Hosted!Package
<1>2. Hosted!Nodes' = Hosted!Nodes
  BY <1>1 DEF Hosted!Nodes
<1>3. Hosted!Dags' = Hosted!Dags
  BY <1>1 DEF Hosted!Dags, Hosted!HasDag
<1>4. ASSUME NEW n
      PROVE  Hosted!AllNeeds(n)' = Hosted!AllNeeds(n)
  BY <1>1 DEF Hosted!AllNeeds, Hosted!Needs, Hosted!Package
<1>5. ASSUME NEW n
      PROVE  Hosted!CanRun(n)' = Hosted!CanRun(n)
  BY DEF Hosted!CanRun, Hosted!Unrunnable, Hosted!Rejected, Hosted!Kind, Hosted!Steps,
         Hosted!Reached, Hosted!Closed, Hosted!Deps, Hosted!ToSet
<1> QED BY <1>2, <1>3, <1>4, <1>5

\* What a build on the host keeps: the log is what the state says, and whatever is
\* in the log comes after all that it needs.
HostInv ==
  /\ v1 \in HostProjects
  /\ DOMAIN v3 = Hosted!Nodes
  /\ \A n \in Hosted!Nodes : v3[n] \in {"pending", "done", "failed", "rejected"}
  /\ v4 \in Seq([node : Hosted!Nodes, ok : BOOLEAN])
  /\ \A i \in 1 .. Len(v4) : v3[v4[i].node] = IF v4[i].ok THEN "done" ELSE "failed"
  /\ \A n \in Hosted!Nodes : v3[n] = "done" =>
       \E i \in 1 .. Len(v4) : v4[i] = [node |-> n, ok |-> TRUE]
  /\ \A i, j \in 1 .. Len(v4) : i # j => v4[i].node # v4[j].node
  /\ \A i \in 1 .. Len(v4) : \A m \in Hosted!AllNeeds(v4[i].node) :
       \E j \in 1 .. i - 1 : v4[j] = [node |-> m, ok |-> TRUE]
  /\ \A s \in Hosted!Dags : v3[s] = "done" => Hosted!CanRun(s)

\* It holds of a build that starts.
LEMMA HostStart == Hosted!HostAssumption /\ Hosted!Init => HostInv
<1> SUFFICES ASSUME Hosted!HostAssumption, Hosted!Init PROVE HostInv
  OBVIOUS
<1>1. /\ v1 \in HostProjects /\ v4 = <<>>
      /\ v3 = [n \in Hosted!Nodes |-> IF Hosted!Acyclic THEN "pending" ELSE "rejected"]
  BY DEF Hosted!Init
<1>2. \A n \in Hosted!Nodes : v3[n] \in {"pending", "rejected"}
  BY <1>1
<1>3. \A s \in Hosted!Dags : s \in Hosted!Nodes
  BY DEF Hosted!Dags, Hosted!Nodes
<1>4. v4 \in Seq([node : Hosted!Nodes, ok : BOOLEAN]) /\ Len(v4) = 0
  BY <1>1
<1> QED
  BY <1>1, <1>2, <1>3, <1>4 DEF HostInv

\* A node ends when all that it needs is done, and as its build does.
LEMMA HostFinishes ==
  ASSUME Hosted!HostAssumption, HostInv, v1' = v1, NEW n \in Hosted!Nodes, NEW ok \in BOOLEAN,
         Hosted!Ready(n), Hosted!Finish(n, ok), n \in Hosted!Dags /\ ok => Hosted!CanRun(n)
  PROVE  HostInv'
<1> DEFINE X == [node : Hosted!Nodes, ok : BOOLEAN]  e == [node |-> n, ok |-> ok]
<1>1. /\ Hosted!Nodes' = Hosted!Nodes /\ Hosted!Dags' = Hosted!Dags
      /\ \A m : /\ Hosted!AllNeeds(m)' = Hosted!AllNeeds(m)
                /\ Hosted!CanRun(m)' = Hosted!CanRun(m)
  BY ProjectStays
<1>2. /\ v3' = [m \in Hosted!Nodes |-> IF m = n THEN IF ok THEN "done" ELSE "failed" ELSE v3[m]]
      /\ v4' = Append(v4, e)
  BY DEF Hosted!Finish
<1>3. v4 \in Seq(X) /\ Len(v4) \in Nat /\ e \in X
  BY DEF HostInv
<1>4. /\ v4' \in Seq(X) /\ Len(v4') = Len(v4) + 1 /\ v4'[Len(v4) + 1] = e
      /\ \A i \in 1 .. Len(v4) : v4'[i] = v4[i] /\ v4[i].node \in Hosted!Nodes
  <2>1. \A x \in X : x.node \in Hosted!Nodes
    OBVIOUS
  <2> HIDE DEF X, e
  <2>2. \A i \in 1 .. Len(v4) : v4[i] \in X
    BY <1>3
  <2> QED BY <1>2, <1>3, <2>1, <2>2, ElementsAre
<1>5. \A i \in 1 .. Len(v4') : i \in 1 .. Len(v4) \/ i = Len(v4) + 1
  BY <1>3, <1>4
<1>6. \A i \in 1 .. Len(v4) : v4[i].node # n
  BY <1>3 DEF HostInv, Hosted!Ready
<1> HIDE DEF e, X
<1>7. DOMAIN v3' = Hosted!Nodes
      /\ \A m \in Hosted!Nodes : v3'[m] \in {"pending", "done", "failed", "rejected"}
  BY <1>2 DEF HostInv
<1>8. \A i \in 1 .. Len(v4') : v3'[v4'[i].node] = IF v4'[i].ok THEN "done" ELSE "failed"
  <2>1. \A i \in 1 .. Len(v4) : v3'[v4[i].node] = IF v4[i].ok THEN "done" ELSE "failed"
    BY <1>2, <1>4, <1>6 DEF HostInv
  <2>2. v3'[e.node] = IF e.ok THEN "done" ELSE "failed"
    BY <1>2 DEF e
  <2> QED BY <1>4, <1>5, <2>1, <2>2
<1>9. ASSUME NEW m \in Hosted!Nodes, v3'[m] = "done"
      PROVE  \E i \in 1 .. Len(v4') : v4'[i] = [node |-> m, ok |-> TRUE]
  <2>1. CASE m = n
    <3>1. e = [node |-> m, ok |-> TRUE]
      BY <1>2, <1>9, <2>1 DEF e
    <3>2. Len(v4) + 1 \in 1 .. Len(v4')
      BY <1>3, <1>4
    <3> QED BY <1>4, <3>1, <3>2
  <2>2. CASE m # n
    <3>1. v3[m] = "done"
      BY <1>2, <1>9, <2>2
    <3>2. PICK i \in 1 .. Len(v4) : v4[i] = [node |-> m, ok |-> TRUE]
      BY <3>1 DEF HostInv
    <3>3. i \in 1 .. Len(v4')
      BY <1>3, <1>4
    <3> QED BY <1>4, <3>2, <3>3
  <2> QED BY <2>1, <2>2
<1>10. ASSUME NEW i \in 1 .. Len(v4'), NEW j \in 1 .. Len(v4'), i # j
       PROVE  v4'[i].node # v4'[j].node
  <2>1. e.node = n
    BY DEF e
  <2> QED BY <1>4, <1>5, <1>6, <1>10, <2>1 DEF HostInv
<1>11. ASSUME NEW i \in 1 .. Len(v4'), NEW m \in Hosted!AllNeeds(v4'[i].node)
       PROVE  \E j \in 1 .. i - 1 : v4'[j] = [node |-> m, ok |-> TRUE]
  <2>1. CASE i \in 1 .. Len(v4)
    <3>1. PICK j \in 1 .. i - 1 : v4[j] = [node |-> m, ok |-> TRUE]
      BY <1>4, <1>11, <2>1 DEF HostInv
    <3>2. j \in 1 .. Len(v4)
      BY <1>3, <2>1
    <3> QED BY <1>4, <3>1, <3>2
  <2>2. CASE i = Len(v4) + 1
    <3>1. m \in Hosted!AllNeeds(n)
      BY <1>4, <1>11, <2>2 DEF e
    <3>2. v3[m] = "done"
      BY <3>1 DEF Hosted!Ready
    <3>3. m \in Hosted!Nodes
      BY <3>1 DEF Hosted!AllNeeds, Hosted!Needs, Hosted!Nodes, Hosted!packageBuilds
    <3>4. PICK j \in 1 .. Len(v4) : v4[j] = [node |-> m, ok |-> TRUE]
      BY <3>2, <3>3 DEF HostInv
    <3>5. j \in 1 .. i - 1
      BY <1>3, <2>2
    <3> QED BY <1>4, <3>4, <3>5
  <2> QED BY <1>5, <2>1, <2>2
<1>12. ASSUME NEW s \in Hosted!Dags, v3'[s] = "done"
       PROVE  Hosted!CanRun(s)
  <2>1. s \in Hosted!Nodes
    BY DEF Hosted!Dags, Hosted!Nodes
  <2>2. s = n => ok
    BY <1>2, <1>12
  <2> QED BY <1>2, <1>12, <2>1, <2>2 DEF HostInv
<1>13. v1' \in HostProjects
  BY DEF HostInv
<1> QED
  BY <1>1, <1>4, <1>7, <1>8, <1>9, <1>10, <1>11, <1>12, <1>13 DEF HostInv, X

\* Every step of a build is a node that ends.
LEMMA HostNext ==
  ASSUME Hosted!HostAssumption, HostInv, Hosted!Next
  PROVE  HostInv'
<1>1. Hosted!Pre \in Hosted!Nodes /\ Hosted!Post \in Hosted!Nodes
  BY DEF Hosted!Nodes
<1>2. ASSUME NEW n \in {Hosted!Pre, Hosted!Post}, Hosted!Hooks(n)
      PROVE  HostInv'
  <2>1. v1' = v1 /\ Hosted!Ready(n) /\ Hosted!Finish(n, TRUE) /\ n \in Hosted!Nodes
    BY <1>1, <1>2 DEF Hosted!Hooks
  <2>2. n \notin Hosted!Dags
    BY DEF HostInv, Hosted!HostAssumption, Hosted!Dags, Hosted!buildableTargets
  <2> QED BY <2>1, <2>2, HostFinishes
<1>3. ASSUME NEW s \in Hosted!buildableTargets, Hosted!Build(s)
      PROVE  HostInv'
  <2> DEFINE script == Hosted!resolveBuildCommandScript(s)
  <2>1. v1' = v1 /\ Hosted!Ready(s) /\ s \in Hosted!Nodes
    BY <1>3 DEF Hosted!Build, Hosted!Nodes
  <2>2. s \in Hosted!Dags => v1.command[s] # <<"none">> /\ script.ok = Hosted!CanRun(s)
    BY ScriptsOrdered DEF HostInv, Hosted!Dags, Hosted!HasDag
  <2>3. CASE v1.command[s] = <<"none">>
    <3>1. Hosted!Finish(s, TRUE) /\ s \notin Hosted!Dags
      BY <1>3, <2>2, <2>3 DEF Hosted!Build
    <3> QED BY <2>1, <3>1, HostFinishes
  <2>4. CASE v1.command[s] # <<"none">> /\ ~script.ok
    <3>1. Hosted!Finish(s, FALSE)
      BY <1>3, <2>4 DEF Hosted!Build
    <3> QED BY <2>1, <3>1, HostFinishes
  <2>5. CASE v1.command[s] # <<"none">> /\ script.ok
    <3> DEFINE ok == Hosted!Host(script.steps).ok
    <3>1. Hosted!Finish(s, ok)
      BY <1>3, <2>5 DEF Hosted!Build
    <3>2. ok \in BOOLEAN
      BY DEF Hosted!Host
    <3> QED BY <2>1, <2>2, <2>5, <3>1, <3>2, HostFinishes
  <2> QED BY <2>3, <2>4, <2>5
<1> QED
  BY <1>2, <1>3 DEF Hosted!Next

\* It gives what is said of builds.
LEMMA HostReports ==
  ASSUME Hosted!HostAssumption, HostInv
  PROVE  Hosted!TypeOK /\ Hosted!BuiltInOrder /\ Hosted!PostMeansBuilt
         /\ Hosted!NothingUnrunnableIsBuilt
<1>1. /\ Len(v4) \in Nat /\ DOMAIN v4 = 1 .. Len(v4)
      /\ \A i \in 1 .. Len(v4) : v4[i].node \in Hosted!Nodes
  <2> DEFINE X == [node : Hosted!Nodes, ok : BOOLEAN]
  <2>1. v4 \in Seq(X)
    BY DEF HostInv
  <2>2. \A x \in X : x.node \in Hosted!Nodes
    OBVIOUS
  <2> HIDE DEF X
  <2> QED BY <2>1, <2>2
<1>2. \A s \in Hosted!buildableTargets : s \notin {Hosted!Pre, Hosted!Post}
  BY DEF HostInv, Hosted!HostAssumption, Hosted!buildableTargets
<1>3. \A n : n \notin {Hosted!Pre, Hosted!Post} => Hosted!AllNeeds(n) = Hosted!Needs(n)
  BY DEF Hosted!AllNeeds
<1>4. Hosted!TypeOK
  BY <1>1 DEF HostInv, Hosted!TypeOK
<1>5. ASSUME NEW i \in 1 .. Len(v4), NEW m \in Hosted!AllNeeds(v4[i].node)
      PROVE  \E j \in 1 .. i - 1 : j \in 1 .. Len(v4) /\ v4[j] = [node |-> m, ok |-> TRUE]
  <2>1. PICK j \in 1 .. i - 1 : v4[j] = [node |-> m, ok |-> TRUE]
    BY <1>5 DEF HostInv
  <2>2. j \in 1 .. Len(v4)
    BY <1>1
  <2> QED BY <2>1, <2>2
<1>6. ASSUME NEW i \in DOMAIN v4, v4[i].node \notin {Hosted!Pre, Hosted!Post}
      PROVE  LET n == v4[i].node
             IN  /\ ~Hosted!Package(n) => \A q \in Hosted!packageBuilds : Hosted!Built(i, q)
                 /\ \A d \in v1.buildDeps[n] \cap Hosted!buildableTargets :
                      /\ Hosted!Built(i, d)
                      /\ \A e \in v1.buildDeps[d] \cap Hosted!buildableTargets :
                           Hosted!Built(i, e)
  <2> DEFINE n == v4[i].node
  <2>1. /\ i \in 1 .. Len(v4) /\ i \in Nat
        /\ \A m \in Hosted!Needs(n) :
             \E j \in 1 .. i - 1 : j \in 1 .. Len(v4) /\ v4[j] = [node |-> m, ok |-> TRUE]
    BY <1>1, <1>3, <1>5, <1>6
  <2>2. \A m \in Hosted!Needs(n) : Hosted!Built(i, m)
    BY <2>1 DEF Hosted!Built
  <2>3. ASSUME ~Hosted!Package(n), NEW q \in Hosted!packageBuilds
        PROVE  Hosted!Built(i, q)
    BY <2>2, <2>3 DEF Hosted!Needs
  <2>4. ASSUME NEW d \in v1.buildDeps[n] \cap Hosted!buildableTargets
        PROVE  /\ Hosted!Built(i, d)
               /\ \A e \in v1.buildDeps[d] \cap Hosted!buildableTargets : Hosted!Built(i, e)
    <3>1. d \in Hosted!Needs(n)
      BY DEF Hosted!Needs
    <3>2. PICK j \in 1 .. i - 1 : j \in 1 .. Len(v4) /\ v4[j] = [node |-> d, ok |-> TRUE]
      BY <2>1, <3>1
    <3>3. ASSUME NEW e \in v1.buildDeps[d] \cap Hosted!buildableTargets
          PROVE  Hosted!Built(i, e)
      <4>1. e \in Hosted!AllNeeds(d)
        BY <1>2, <1>3 DEF Hosted!Needs
      <4>2. v4[j].node = d
        BY <3>2
      <4>3. PICK h \in 1 .. j - 1 : v4[h] = [node |-> e, ok |-> TRUE]
        BY <1>5, <3>2, <4>1, <4>2
      <4>4. h \in 1 .. i - 1
        BY <2>1
      <4> QED BY <4>3, <4>4 DEF Hosted!Built
    <3> QED BY <2>2, <3>1, <3>3
  <2> QED BY <2>3, <2>4
<1>7. Hosted!BuiltInOrder
  BY <1>6 DEF Hosted!BuiltInOrder
<1>8. ASSUME v3[Hosted!Post] = "done"
      PROVE  \A n \in Hosted!Nodes : v3[n] = "done"
  <2>1. Hosted!Post \in Hosted!Nodes /\ Hosted!Post # Hosted!Pre
    BY DEF Hosted!Nodes, Hosted!Post, Hosted!Pre
  <2>2. PICK i \in 1 .. Len(v4) : v4[i] = [node |-> Hosted!Post, ok |-> TRUE]
    BY <1>8, <2>1 DEF HostInv
  <2>3. ASSUME NEW j \in 1 .. Len(v4), NEW m \in Hosted!AllNeeds(v4[j].node)
        PROVE  v3[m] = "done" /\ \E h \in 1 .. Len(v4) : v4[h].node = m
    <3>1. PICK h \in 1 .. Len(v4) : v4[h] = [node |-> m, ok |-> TRUE]
      BY <1>5, <2>3
    <3>2. v4[h].node = m /\ v4[h].ok = TRUE
      BY <3>1
    <3> QED BY <3>2 DEF HostInv
  <2>4. \A m \in Hosted!AllNeeds(Hosted!Post) :
          v3[m] = "done" /\ \E h \in 1 .. Len(v4) : v4[h].node = m
    <3>1. v4[i].node = Hosted!Post
      BY <2>2
    <3> QED BY <2>3, <3>1
  <2>5. Hosted!AllNeeds(Hosted!Post) =
          IF Hosted!buildableTargets = {} THEN {Hosted!Pre} ELSE Hosted!buildableTargets
    BY <2>1 DEF Hosted!AllNeeds
  <2>6. v3[Hosted!Pre] = "done"
    <3>1. CASE Hosted!buildableTargets = {}
      BY <2>4, <2>5, <3>1
    <3>2. CASE Hosted!buildableTargets # {}
      <4>1. PICK s \in Hosted!buildableTargets : TRUE
        BY <3>2
      <4>2. PICK h \in 1 .. Len(v4) : v4[h].node = s
        BY <2>4, <2>5, <3>2, <4>1
      <4>3. Hosted!Pre \in Hosted!AllNeeds(v4[h].node)
        BY <1>2, <1>3, <4>1, <4>2 DEF Hosted!Needs
      <4> QED BY <2>3, <4>3
    <3> QED BY <3>1, <3>2
  <2> QED BY <1>8, <2>4, <2>5, <2>6 DEF Hosted!Nodes
<1>9. Hosted!NothingUnrunnableIsBuilt
  BY DEF HostInv, Hosted!NothingUnrunnableIsBuilt
<1> QED BY <1>4, <1>7, <1>8, <1>9 DEF Hosted!PostMeansBuilt

\* The builds are one part of the suite.
LEMMA HostAlways == Spec => [](part = "host" => HostInv)
<1>0. Hosted!HostAssumption
  BY ReleaseAssumptions
<1>1. Init => (part = "host" => HostInv)
  BY <1>0, HostStart DEF Init
<1>2. (part = "host" => HostInv) /\ [Next]_vars => (part = "host" => HostInv)'
  <2> SUFFICES ASSUME part = "host" => HostInv, [Next]_vars, part' = "host"
               PROVE  HostInv'
    OBVIOUS
  <2>1. CASE Next
    <3>1. part = "host" /\ Hosted!Next
      BY <2>1 DEF Next
    <3> QED BY <1>0, <3>1, HostNext
  <2>2. CASE UNCHANGED vars
    <3>1. part = "host" /\ v1' = v1 /\ v3' = v3 /\ v4' = v4
      BY <2>2 DEF vars
    <3> QED BY <3>1, ProjectStays DEF HostInv
  <2> QED BY <2>1, <2>2
<1> QED BY <1>1, <1>2, PTL DEF Spec

\* Of every project, whatever its commands are and wherever steps fail: what is
\* built comes after the packages and services that it needs; a DAG has a script
\* if all that it reaches can run, with every leaf once and after the ones that it
\* depends on, and is not built otherwise; and an image build stops where one fails.
THEOREM BuildsStayOrdered == Spec => []BuildsAreOrdered
<1>0. Hosted!HostAssumption
  BY ReleaseAssumptions
<1>1. HostInv => Hosted!ScriptsAreOrdered /\ Hosted!ImageBuildsStop
  BY <1>0, ScriptsOrdered, ImagesStop DEF HostInv
<1>2. (part = "host" => HostInv) => BuildsAreOrdered
  BY <1>0, <1>1, HostReports DEF BuildsAreOrdered
<1> QED BY <1>2, HostAlways, PTL
=============================================================================
