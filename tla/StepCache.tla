----------------------------- MODULE StepCache ------------------------------
(***************************************************************************)
(* The step cache (packages/nopo/src/cache/index.ts with cache-key.ts and  *)
(* store.ts): nopo processes, each in its own checkout, look a step up     *)
(* before running it and record it afterwards in one shared result store.  *)
(* Files change under them while they do.  A process here takes one step   *)
(* (plan node or batch slice) at a time; CachedPlan has the whole plan.    *)
(*                                                                         *)
(* A file is a model value with a version at HEAD and one in the working   *)
(* tree; a directory is the set of files under it, so equal restrictions   *)
(* of HEAD stand for equal git tree hashes and a key is the record that    *)
(* computeStepKey() hashes (SHA-256 taken as injective).                   *)
(***************************************************************************)
EXTENDS Integers, FiniteSets

CONSTANTS
  Files,          \* every file a step can read
  Ignored,        \* the gitignored ones: not in HEAD, not in git status
  Targets,        \* project.services.entries
  Root,           \* target -> the files under its directory
  Deps,           \* target -> buildDeps, runtimeDeps and systemDeps
  Workspace,      \* target -> files of the packages package.json links in
  RootFiles,      \* root configs and lockfiles
  DeclaredInputs, \* target -> files matched by cache.inputs globs
  Procs,
  Steps,          \* the plan nodes a process may be asked to run
  Settings,       \* proc -> its cache configuration, see SettingsAssumption
  Broken,         \* <<file, version>> pairs with which a step fails
  MaxVersion,     \* bound: versions of a file
  MaxEdits,       \* bound: edits in all checkouts
  MaxRuns,        \* bound: steps a process takes
  MaxTime,        \* bound: ticks of the clock
  EditIgnored,    \* others may rewrite gitignored inputs during a run
  CommitDuringRun \* others may commit or discard changes during a run

ProjectAssumption ==
  /\ Ignored \subseteq Files
  /\ Root \in [Targets -> SUBSET (Files \ Ignored)]
  /\ Workspace \in [Targets -> SUBSET (Files \ Ignored)]
  /\ Deps \in [Targets -> SUBSET Targets]
  /\ RootFiles \subseteq Files \ Ignored
  /\ DeclaredInputs \in [Targets -> SUBSET Files]
  /\ IsFiniteSet(Targets) /\ MaxVersion \in Nat

SettingsAssumption ==
  Settings \in [Procs ->
    [write : BOOLEAN, ttl : Nat, sampling : {"never", "some", "always"},
     private : {"none", "unusable", "good"}, public : BOOLEAN]]

-----------------------------------------------------------------------------
(* Plan nodes as the cache sees them: kind is the handler ("exec" for      *)
(* builtin:command:exec, "builtin" for any other, "hook"), claimed is      *)
(* payload.targets ({} when absent), own is node.target ({} or a           *)
(* singleton), optIn the targets with a cache: declaration, writes whether *)
(* the executable or the arguments carry a write-mode flag.                *)

NodeTargets(n) == IF n.claimed # {} THEN n.claimed ELSE n.own

\* A hook is cacheable if its plugin lists it and every target opted in.
HookCacheable(n) ==
  /\ n.declared
  /\ NodeTargets(n) # {}
  /\ NodeTargets(n) \subseteq n.optIn

IsHandlerCacheable(n) ==
  /\ ~n.container
  /\ ~n.writes
  /\ \/ n.kind = "exec" /\ n.own \subseteq n.optIn
     \/ n.kind = "hook" /\ HookCacheable(n)

\* Per-target slices of a batch, {} when the node is keyed as a whole.
SplitBatch(n) ==
  IF n.kind = "hook" /\ n.declared /\ n.perTarget
  THEN {[n EXCEPT !.claimed = {t}, !.own = {}, !.optIn = @ \cap {t}] : t \in n.claimed}
  ELSE {}

-----------------------------------------------------------------------------
(* What the key covers. *)

\* Targets reached from T, itself included: collectTreeHashes()'s recursion
\* with its visited set, one round of dependencies at a time.
ReachedIn(T) ==
  LET reach[k \in 0 .. Cardinality(Targets)] ==
        IF k = 0 THEN T ELSE reach[k-1] \cup UNION {Deps[t] : t \in reach[k-1]}
  IN  reach
Reached(T) == ReachedIn(T)[Cardinality(Targets)]

TreeFiles(T) == UNION {Root[t] \cup Workspace[t] : t \in Reached(T)}

InputFiles(T) == UNION {DeclaredInputs[t] : t \in T}

Restricted(f, S) == [x \in S |-> f[x]]

NoKey == [step |-> "none"]

\* Broken: only the target's own directory, not its dependencies'.
StepKeyOfOwn(n, head, work) ==
  LET T == NodeTargets(n) IN
  IF ~IsHandlerCacheable(n) \/ T = {} THEN NoKey
  ELSE [step   |-> n.step,
        trees  |-> Restricted(head, UNION {Root[t] \cup Workspace[t] : t \in T}),
        root   |-> Restricted(work, RootFiles),
        inputs |-> Restricted(work, InputFiles(T))]
\* Trees come from HEAD; root files and declared inputs are hashed from disk.
StepKeyOf(n, head, work) ==
  LET T == NodeTargets(n) IN
  IF ~IsHandlerCacheable(n) \/ T = {} THEN NoKey
  ELSE [step   |-> n.step,
        trees  |-> Restricted(head, TreeFiles(T)),
        root   |-> Restricted(work, RootFiles),
        inputs |-> Restricted(work, InputFiles(T))]

\* What a key says about the content of the files the step depends on.
KeyContent(k) ==
  [f \in DOMAIN k.trees \cup DOMAIN k.root \cup DOMAIN k.inputs |->
     IF f \in DOMAIN k.inputs THEN k.inputs[f]
     ELSE IF f \in DOMAIN k.root THEN k.root[f] ELSE k.trees[f]]

\* A key is of a step that was keyed from these files.
KeyOf(k, n) ==
  /\ IsHandlerCacheable(n) /\ NodeTargets(n) # {} /\ k.step = n.step
  /\ DOMAIN k.trees = TreeFiles(NodeTargets(n))
  /\ DOMAIN k.inputs = InputFiles(NodeTargets(n))

-----------------------------------------------------------------------------
(* What must be clean: collectPathsForDirtyCheck() and git status. *)

CheckedFiles(n) == TreeFiles(n.own \cup n.claimed) \cup RootFiles

DirtyFiles(head, work) == {f \in Files \ Ignored : head[f] # work[f]}

Eligible(n, head, work) == CheckedFiles(n) \cap DirtyFiles(head, work) = {}

\* What a project has to declare for its cache to be sound: a step reads only
\* files that its key covers; steps of one name whose keys cover the same files
\* read the same ones; and an input that git tracks is among the files that must
\* be clean.
StepsAssumption ==
  /\ \A n \in Steps : n.own \cup n.claimed \subseteq Targets
  /\ \A n \in Steps : IsHandlerCacheable(n) =>
       /\ n.reads \subseteq TreeFiles(NodeTargets(n)) \cup RootFiles \cup InputFiles(NodeTargets(n))
       /\ InputFiles(NodeTargets(n)) \subseteq Ignored \cup CheckedFiles(n)
  /\ \A m, n \in Steps :
       /\ IsHandlerCacheable(m) /\ IsHandlerCacheable(n) /\ m.step = n.step
       /\ TreeFiles(NodeTargets(m)) = TreeFiles(NodeTargets(n))
       /\ InputFiles(NodeTargets(m)) = InputFiles(NodeTargets(n))
       => m.reads = n.reads

-----------------------------------------------------------------------------
VARIABLES
  head, work,     \* proc -> file -> version, at HEAD and in the working tree
  edits,          \* edits made so far, in all checkouts
  store,          \* the entries in the result store, at most one per key
  clock,
  run             \* proc -> the step it is taking
vars == <<head, work, edits, store, clock, run>>

NoEntry == [key |-> NoKey]
Find(k) == IF \E e \in store : e.key = k
           THEN CHOOSE e \in store : e.key = k ELSE NoEntry

\* A step fails on certain versions of the files it reads (node.reads).
Passes(content) == \A f \in DOMAIN content : <<f, content[f]>> \notin Broken

Idle(taken) == [phase |-> "idle", taken |-> taken]

Init ==
  /\ head = [p \in Procs |-> [f \in Files |-> 0]]
  /\ work = head
  /\ edits = 0
  /\ store = {}
  /\ clock = 0
  /\ run = [p \in Procs |-> Idle(0)]

-----------------------------------------------------------------------------
(* StepCache.lookup(): key, eligibility, store, validation, sampling. *)

\* computeStepKey(): hashes HEAD, the root files and the declared inputs.
ComputeKey(p, n) ==
  /\ run[p].phase = "idle" /\ run[p].taken < MaxRuns
  /\ run' = [run EXCEPT ![p] =
       [phase |-> "keyed", taken |-> @.taken + 1, node |-> n,
        key |-> StepKeyOf(n, head[p], work[p])]]
  /\ UNCHANGED <<head, work, edits, store, clock>>

\* isExpired() in the store: by the expiry its writer gave the entry.
StoreGet(k) ==
  LET e == Find(k) IN IF e # NoEntry /\ e.expires < clock THEN NoEntry ELSE e

ValidateEntry(p, e) ==
  /\ e # NoEntry
  /\ e.createdAt + Settings[p].ttl >= clock
  /\ Settings[p].public => e.signed

Sampled(p) == CASE Settings[p].sampling = "never"  -> {FALSE}
                [] Settings[p].sampling = "always" -> {TRUE}
                [] OTHER                           -> BOOLEAN

Found(p, how) == run' = [run EXCEPT ![p] =
  [phase |-> how, taken |-> @.taken, node |-> @.node, key |-> @.key, entry |-> StoreGet(@.key)]]

Lookup(p) ==
  LET r == run[p]
      e == StoreGet(r.key)
  IN
  /\ r.phase = "keyed"
  /\ IF r.key = NoKey \/ ~Eligible(r.node, head[p], work[p])
     THEN Found(p, "bypassed") /\ UNCHANGED store
     ELSE /\ store' = IF e = NoEntry THEN {x \in store : x.key # r.key} ELSE store
          /\ IF ValidateEntry(p, e)
             THEN \E sampled \in Sampled(p) :
                    Found(p, IF sampled THEN "verifying" ELSE "hit")
             ELSE Found(p, "missed")
  /\ UNCHANGED <<head, work, edits, clock>>

-----------------------------------------------------------------------------
(* The step runs: it reads its files at one time and ends at a later one.  *)

Start(p) ==
  LET r == run[p] IN
  /\ r.phase \in {"bypassed", "verifying", "missed"}
  /\ run' = [run EXCEPT ![p] =
       [phase |-> "running", taken |-> r.taken, node |-> r.node, key |-> r.key,
        was |-> r.phase, entry |-> r.entry, read |-> Restricted(work[p], r.node.reads)]]
  /\ UNCHANGED <<head, work, edits, store, clock>>

\* createCacheEntry(): {} when a required signature cannot be made.
CreateCacheEntry(p, key) ==
  LET c == Settings[p] IN
  IF c.public /\ c.private # "good" THEN {}
  ELSE {[key |-> key, createdAt |-> clock, expires |-> clock + c.ttl,
         signed |-> c.private = "good", by |-> <<p, run[p].taken>>]}

\* record(): re-checks the working tree, then puts or deletes.
\* Broken: trusts the eligibility that lookup() found.
RecordUnchecked(p, passed) ==
  LET r == run[p] IN
  IF r.was = "bypassed" \/ ~Settings[p].write THEN {}
  ELSE IF passed THEN {[op |-> "put", entry |-> e] : e \in CreateCacheEntry(p, r.key)}
  ELSE {[op |-> "delete"]}
Record(p, passed) ==
  LET r == run[p] IN
  IF r.was = "bypassed" \/ ~Settings[p].write \/ ~Eligible(r.node, head[p], work[p])
  THEN {}
  ELSE IF passed THEN {[op |-> "put", entry |-> e] : e \in CreateCacheEntry(p, r.key)}
  ELSE {[op |-> "delete"]}

Invalidate(p, passed) ==
  IF run[p].was = "verifying" /\ ~passed /\ Settings[p].write
  THEN {[op |-> "invalidate"]} ELSE {}

\* A step fails on its input, or for a reason of its own.  The writes start
\* in the event handler and land later.
Finish(p, passed) ==
  LET r == run[p] IN
  /\ r.phase = "running"
  /\ passed => Passes(r.read)
  /\ run' = [run EXCEPT ![p] =
       [phase |-> "writing", taken |-> r.taken, node |-> r.node, key |-> r.key,
        was |-> r.was, entry |-> r.entry, passed |-> passed,
        pending |-> Invalidate(p, passed) \cup Record(p, passed)]]
  /\ UNCHANGED <<head, work, edits, store, clock>>

Land(p) ==
  /\ run[p].phase = "writing"
  /\ \E w \in run[p].pending :
       /\ store' = {e \in store : e.key # run[p].key}
                     \cup IF w.op = "put" THEN {w.entry} ELSE {}
       /\ run' = [run EXCEPT ![p].pending = @ \ {w}]
  /\ UNCHANGED <<head, work, edits, clock>>

\* executePlanWithCache() returns: the writes have settled.
Return(p) ==
  /\ \/ run[p].phase = "hit"
     \/ run[p].phase = "writing" /\ run[p].pending = {}
  /\ run' = [run EXCEPT ![p] = Idle(@.taken)]
  /\ UNCHANGED <<head, work, edits, store, clock>>

\* A put or delete fails, or WRITE_AWAIT_TIMEOUT_MS is over.
LoseWrites(p) ==
  /\ run[p].phase = "writing" /\ run[p].pending # {}
  /\ run' = [run EXCEPT ![p] = Idle(@.taken)]
  /\ UNCHANGED <<head, work, edits, store, clock>>

-----------------------------------------------------------------------------
(* The developers, the steps themselves and the clock. *)

Edit(p, f) ==
  /\ edits < MaxEdits /\ work[p][f] < MaxVersion
  /\ f \in Ignored => EditIgnored \/ run[p].phase = "idle"
  /\ work' = [work EXCEPT ![p][f] = @ + 1]
  /\ edits' = edits + 1
  /\ UNCHANGED <<head, store, clock, run>>

MakeClean(p) ==
  /\ DirtyFiles(head[p], work[p]) # {}
  /\ CommitDuringRun \/ run[p].phase = "idle"
  /\ \/ head' = [head EXCEPT ![p] = [f \in Files |-> IF f \in Ignored THEN 0 ELSE work[p][f]]]
        /\ UNCHANGED work
     \/ work' = [work EXCEPT ![p] = [f \in Files |-> IF f \in Ignored THEN @[f] ELSE head[p][f]]]
        /\ UNCHANGED head
  /\ UNCHANGED <<edits, store, clock, run>>

Tick == /\ clock < MaxTime
        /\ clock' = clock + 1
        /\ UNCHANGED <<head, work, edits, store, run>>

Next == \/ \E p \in Procs :
             \/ \E n \in Steps : ComputeKey(p, n)
             \/ Lookup(p) \/ Start(p) \/ Land(p) \/ Return(p) \/ LoseWrites(p)
             \/ \E passed \in BOOLEAN : Finish(p, passed)
             \/ \E f \in Files : Edit(p, f)
             \/ MakeClean(p)
        \/ Tick

Spec == Init /\ [][Next]_vars

-----------------------------------------------------------------------------

TypeOK ==
  /\ head \in [Procs -> [Files -> 0 .. MaxVersion]]
  /\ work \in [Procs -> [Files -> 0 .. MaxVersion]]
  /\ \A e \in store : e.createdAt <= clock /\ e.key # NoKey
  /\ \A e1, e2 \in store : e1.key = e2.key => e1 = e2
  /\ \A p \in Procs : run[p].phase \in
       {"idle", "keyed", "hit", "bypassed", "verifying", "missed", "running", "writing"}

\* An entry says that the steps with its key pass on the content the key describes,
\* and they do:
\* neither an edit made while the step ran nor a dependency the key leaves
\* out lets a pass be recorded under inputs on which the step fails.
HonestEntries ==
  \A e \in store, n \in Steps :
    KeyOf(e.key, n) => Passes(Restricted(KeyContent(e.key), n.reads))

\* A step skipped on a cache hit would have passed on the tree it was skipped
\* for.
SkippedWouldPass ==
  \A p \in Procs : run[p].phase = "keyed" /\ run'[p].phase = "hit"
    => Passes(Restricted(work[p], run[p].node.reads))

\* A hit is younger than both its writer's and its reader's ttl and, for a
\* reader with a public key, was signed; whoever wrote it was allowed to.
HitsAreTrusted ==
  \A p \in Procs : run[p].phase = "keyed" /\ run'[p].phase = "hit"
    => \E e \in store : LET w == Settings[e.by[1]] IN
         /\ e.key = run[p].key /\ w.write
         /\ clock <= e.createdAt + Settings[p].ttl /\ clock <= e.createdAt + w.ttl
         /\ Settings[p].public => w.private = "good"

\* When a writer's verification fails and its writes settle, the entry it was
\* verifying is gone, even if the step dirtied the tree.
FalseHit(p) == /\ run[p].phase = "writing" /\ run[p].was = "verifying"
               /\ ~run[p].passed
FalseHitDropped ==
  \A p \in Procs : FalseHit(p) /\ Settings[p].write /\ Return(p)
    => run[p].entry \notin store

=============================================================================
