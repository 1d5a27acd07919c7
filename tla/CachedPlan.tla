----------------------------- MODULE CachedPlan -----------------------------
(***************************************************************************)
(* executePlanWithCache() (packages/nopo/src/cache/plan-cache.ts): every   *)
(* node is looked up before any runs, nodes that hit are taken out of the  *)
(* plan, batches are narrowed to the targets that missed, the rest runs in *)
(* the failure mode of the command, and what passes is recorded.           *)
(* StepCache models one lookup and record; PlanRunner models               *)
(* executePlan(), of which only the order of starts, the settling of nodes *)
(* and the abort of a fail-fast plan show here.                            *)
(***************************************************************************)
EXTENDS Integers, FiniteSets

CONSTANTS
  NodeCount,    \* nodes are numbered in plan order
  Plans,        \* set of acyclic functions node -> set of nodes it needs
  Modes,        \* the failure modes: fail-fast, or keep-going (--no-fail-fast)
  Batch,        \* node -> targets of its per-target slices, {} if none
  LookupMayFail,\* stepCache.lookup() may reject
  NetworkStore  \* lookups wait for a network, so one may reject while
                \* another is awaited

Nodes == 1 .. NodeCount
\* An empty plan has nothing to look up; the others are acyclic.
CachedPlanAssumption ==
  /\ NodeCount \in Nat \ {0} /\ DOMAIN Batch = Nodes
  /\ Modes \subseteq {"fail-fast", "keep-going"}
  /\ \A n \in Nodes : IsFiniteSet(Batch[n]) /\ "whole" \notin Batch[n]
  /\ \A p \in Plans : /\ p \in [Nodes -> SUBSET Nodes]
                      /\ \A S \in SUBSET Nodes : S # {} => \E n \in S : p[n] \cap S = {}

VARIABLES
  needs,    \* the plan
  phase,    \* "scan", "await", "run", "settle", "returned", "crashed"
  at,       \* the node the scanning or awaiting loop has come to
  found,    \* node -> what its lookup promise holds
  sliced,   \* node -> target -> what the slice's lookup gave
  adjusted, \* node -> what it needs in the modified plan
  status,   \* node -> how far it has come in executePlan()
  writes,   \* pendingWrites: records and invalidations still in flight
  recorded, \* the <<node, target>> whose pass was handed to record()
  stats,    \* counters reported to the user
  mode      \* the failure mode, passed on to executePlan()
vars == <<needs, phase, at, found, sliced, adjusted, status, writes, recorded, stats, mode>>

Whole == "whole"
Outcomes == {"hit", "miss", "verify", "bypass"}
Failing  == IF LookupMayFail THEN {"error"} ELSE {}

Init ==
  /\ needs \in Plans /\ mode \in Modes
  /\ phase = "scan" /\ at = 1
  /\ found = [n \in Nodes |-> "none"]
  /\ sliced = [n \in Nodes |-> << >>]
  /\ adjusted = needs
  /\ status = [n \in Nodes |-> "pending"]
  /\ writes = {} /\ recorded = {}
  /\ stats = [hits |-> 0, misses |-> 0, bypasses |-> 0, verifications |-> 0, falseHits |-> 0]

SlicesWith(n, how) == {t \in DOMAIN sliced[n] : sliced[n][t] \in how}

Cached(n) == \/ found[n] = "hit"
             \/ Batch[n] # {} /\ SlicesWith(n, {"hit"}) = Batch[n]
SkipNodes == {n \in Nodes : Cached(n)}

\* payload.targets of the batch as it runs.
RunTargets(n) == Batch[n] \ SlicesWith(n, {"hit"})

-----------------------------------------------------------------------------
(* Lookups: batches are looked up in the loop, other nodes' lookups are    *)
(* started there and awaited afterwards, in order.                         *)

Counted(s, n, how) ==
  LET count(S) == Cardinality({t \in Batch[n] : how[t] \in S}) IN
  [s EXCEPT !.hits = @ + count({"hit"}), !.misses = @ + count({"miss", "verify"}),
            !.bypasses = @ + count({"bypass"}), !.verifications = @ + count({"verify"})]

ScanNext == IF at = NodeCount THEN phase' = "await" /\ at' = 1
                              ELSE phase' = "scan" /\ at' = at + 1

LookupBatchSlices ==
  /\ phase = "scan" /\ Batch[at] # {}
  /\ \E how \in [Batch[at] -> Outcomes \cup Failing] :
       /\ sliced' = [sliced EXCEPT ![at] = how]
       /\ stats' = Counted(stats, at, how)
  /\ ScanNext
  /\ UNCHANGED <<needs, found, adjusted, status, writes, recorded, mode>>

StartLookup ==
  /\ phase = "scan" /\ Batch[at] = {}
  /\ found' = [found EXCEPT ![at] = "open"]
  /\ ScanNext
  /\ UNCHANGED <<needs, sliced, adjusted, status, writes, recorded, stats, mode>>

\* A promise that rejects while nobody has awaited it ends the process.
SettleLookup(n) ==
  /\ phase \in {"scan", "await"} /\ found[n] = "open"
  /\ \E how \in Outcomes \cup Failing :
       /\ NetworkStore \/ (phase = "await" /\ n = at)
       /\ found' = [found EXCEPT ![n] = how]
       /\ phase' = IF how = "error" /\ ~(phase = "await" /\ n = at) THEN "crashed" ELSE phase
  /\ UNCHANGED <<needs, at, sliced, adjusted, status, writes, recorded, stats, mode>>

CountedWhole(s, how) ==
  CASE how = "hit"    -> [s EXCEPT !.hits = @ + 1]
    [] how = "bypass" -> [s EXCEPT !.misses = @ + 1, !.bypasses = @ + 1]
    [] how = "verify" -> [s EXCEPT !.misses = @ + 1, !.verifications = @ + 1]
    [] OTHER          -> [s EXCEPT !.misses = @ + 1]

\* What a node needs once the removed nodes are gone: a removed need stands
\* for its own needs (resolveNeeds), through so many of them.
NeedsThrough(removed, n) ==
  LET reach[k \in 0 .. NodeCount] ==
        IF k = 0 THEN needs[n]
        ELSE reach[k-1] \cup UNION {needs[r] : r \in reach[k-1] \cap removed}
  IN  reach
\* Broken: removed needs are dropped.
ResolveNeedsDropped(removed, n) == needs[n] \ removed
ResolveNeeds(removed, n) == NeedsThrough(removed, n)[NodeCount] \ removed

FilterPlanNodes(removed) ==
  [n \in Nodes |-> IF n \in removed THEN {} ELSE ResolveNeeds(removed, n)]

AwaitLookup ==
  /\ phase = "await" /\ found[at] # "open"
  /\ stats' = IF Batch[at] = {} THEN CountedWhole(stats, found[at]) ELSE stats
  /\ IF at < NodeCount
     THEN at' = at + 1 /\ UNCHANGED <<phase, adjusted>>
     ELSE phase' = "run" /\ adjusted' = FilterPlanNodes(SkipNodes) /\ UNCHANGED at
  /\ UNCHANGED <<needs, found, sliced, status, writes, recorded, mode>>

-----------------------------------------------------------------------------
(* executePlan() on the modified plan, and the event handler around it. *)

\* After a failure in fail-fast mode no node starts; those that run go on.
Aborted == mode = "fail-fast" /\ \E n \in Nodes : status[n] = "failure"

Start(n) ==
  /\ phase = "run" /\ status[n] = "pending" /\ n \notin SkipNodes /\ ~Aborted
  /\ \A d \in adjusted[n] : status[d] = "success"
  /\ status' = [status EXCEPT ![n] = "running"]
  /\ UNCHANGED <<needs, phase, at, found, sliced, adjusted, writes, recorded, stats, mode>>

Ops(n, S, op) == {[node |-> n, target |-> t, op |-> op] : t \in S}

BatchRun(n) == SlicesWith(n, {"miss", "verify"})

WholeRun(n) == IF found[n] = "bypass" THEN {} ELSE {Whole}

Recordable(n) == IF Batch[n] # {} THEN BatchRun(n) ELSE WholeRun(n)

Verifying(n) == IF Batch[n] # {} THEN SlicesWith(n, {"verify"})
                ELSE IF found[n] = "verify" THEN {Whole} ELSE {}

OnSuccess(n) ==
  /\ writes' = writes \cup Ops(n, Recordable(n), "record")
  /\ recorded' = recorded \cup {<<n, t>> : t \in Recordable(n)}
  /\ UNCHANGED stats

\* A failed batch invalidates what it was verifying and records nothing; a
\* failed node is recorded as failed, which invalidates its key.
OnFailure(n) ==
  /\ writes' = writes \cup Ops(n, Verifying(n), "invalidate")
                      \cup IF Batch[n] # {} THEN {} ELSE Ops(n, WholeRun(n), "record")
  /\ stats' = [stats EXCEPT !.falseHits = @ + Cardinality(Verifying(n))]
  /\ UNCHANGED recorded

Succeed(n) ==
  /\ phase = "run" /\ status[n] = "running"
  /\ status' = [status EXCEPT ![n] = "success"]
  /\ OnSuccess(n)
  /\ UNCHANGED <<needs, phase, at, found, sliced, adjusted, mode>>

Fail(n) ==
  /\ phase = "run" /\ status[n] = "running"
  /\ status' = [status EXCEPT ![n] = "failure"]
  /\ OnFailure(n)
  /\ UNCHANGED <<needs, phase, at, found, sliced, adjusted, mode>>

Results == [n \in Nodes |-> IF n \in SkipNodes THEN "success"
                            ELSE IF status[n] = "pending" THEN "skipped" ELSE status[n]]

\* Nothing is running and nothing can start: what is left is skipped.
PlanEnds ==
  /\ phase = "run"
  /\ \A n \in Nodes : status[n] # "running"
  /\ Aborted \/ \A n \in Nodes \ SkipNodes : status[n] = "pending" =>
       \E d \in adjusted[n] : status[d] # "success"
  /\ status' = Results
  /\ phase' = "settle"
  /\ UNCHANGED <<needs, at, found, sliced, adjusted, writes, recorded, stats, mode>>

WriteSettles ==
  /\ phase \in {"run", "settle"}
  /\ \E w \in writes : writes' = writes \ {w}
  /\ UNCHANGED <<needs, phase, at, found, sliced, adjusted, status, recorded, stats, mode>>

Return ==
  /\ phase = "settle"
  /\ phase' = "returned"
  /\ UNCHANGED <<needs, at, found, sliced, adjusted, status, writes, recorded, stats, mode>>

Loop == LookupBatchSlices \/ StartLookup \/ AwaitLookup \/ PlanEnds \/ Return
NodeMoves(n) == SettleLookup(n) \/ Start(n) \/ Succeed(n) \/ Fail(n)

Next == Loop \/ WriteSettles \/ \E n \in Nodes : NodeMoves(n)

Spec == Init /\ [][Next]_vars

-----------------------------------------------------------------------------

TypeOK ==
  /\ phase \in {"scan", "await", "run", "settle", "returned", "crashed"} /\ mode \in Modes
  /\ found \in [Nodes -> {"none", "open", "error"} \cup Outcomes]
  /\ adjusted \in [Nodes -> SUBSET Nodes]
  /\ status \in [Nodes -> {"pending", "running", "success", "failure", "skipped"}]
  /\ stats.falseHits <= stats.verifications /\ stats.verifications <= stats.misses

\* n's ancestors: every set that holds its needs and is closed under needs
\* holds them.
Ancestors(n) ==
  {m \in Nodes : \A S \in SUBSET Nodes :
     needs[n] \subseteq S /\ (\A s \in S : needs[s] \subseteq S) => m \in S}

\* Whatever is cached, a node that runs starts only after every ancestor that
\* runs has succeeded, through any number of cached nodes between them.
OrderSurvivesCaching ==
  \A n \in Nodes \ SkipNodes : status[n] \in {"running", "success", "failure"} =>
    \A m \in Ancestors(n) \ SkipNodes : status[m] = "success"

\* Caching never adds an order the plan did not have, nor waits for a node
\* that does not run.
OnlyPlanOrder ==
  phase = "run" => \A n \in Nodes : adjusted[n] \subseteq Ancestors(n) \ SkipNodes

\* A pass is recorded only for what was looked up, missed, ran and passed: no
\* target of a failed batch, none that was bypassed and none that hit.
RecordsAreProven ==
  \A r \in recorded :
    /\ status[r[1]] = "success" /\ r[1] \notin SkipNodes
    /\ IF r[2] = Whole THEN found[r[1]] \in {"miss", "verify", "error"}
       ELSE r[2] \in RunTargets(r[1]) /\ sliced[r[1]][r[2]] \in {"miss", "verify"}

\* The results cover the plan: what hit counts as success without having run,
\* what ran has its own result, and nothing is skipped but after a failure: of
\* anything in fail-fast mode, of what the node needs in keep-going mode.
ResultsCoverPlan ==
  phase = "returned" => \A n \in Nodes :
    CASE n \in SkipNodes       -> status[n] = "success"
      [] status[n] = "skipped" -> Aborted \/ \E m \in Ancestors(n) : status[m] = "failure"
      [] OTHER                 -> status[n] \in {"success", "failure"}

\* A write that never settles does not keep the command from returning.
HasReturned == phase = "returned"
=============================================================================
