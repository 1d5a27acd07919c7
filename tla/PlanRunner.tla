----------------------------- MODULE PlanRunner -----------------------------
(***************************************************************************)
(* The shape of a plan (packages/nopo/src/plan.ts), its validation, and    *)
(* executePlan() of packages/nopo/src/plan-runner.ts.  JavaScript runs the *)
(* call and then each settled handler's callback to completion, so the     *)
(* call and the two callbacks are the actions; everything they call        *)
(* (tryStartMore, finish, poisonDescendants) happens inside them.          *)
(* Which of the running handlers settles next, and how, is the environment.*)
(***************************************************************************)
EXTENDS Integers, FiniteSets, Sequences

-----------------------------------------------------------------------------
(* Nodes are numbered in the insertion order of plan.nodes; needs[n] is    *)
(* the array of ids node n needs, which may repeat an id and, before       *)
(* validation, may name ids that are not nodes.                            *)

CONSTANT NodeCount    \* plan.nodes.size

ASSUME NodeCountAssumption == NodeCount \in Nat

Nodes == 1 .. NodeCount

\* A pass over plan.nodes in insertion order, keeping the nodes of S.
InOrderPass(S) ==
  LET kept[k \in 0 .. NodeCount] ==
        IF k = 0 THEN << >>
        ELSE IF k \in S THEN Append(kept[k-1], k) ELSE kept[k-1]
  IN kept
InOrder(S) == InOrderPass(S)[NodeCount]

Needed(needs, n) == {needs[n][i] : i \in 1 .. Len(needs[n])}

\* How many times n lists d: the dependents array of d names n that often.
Edges(needs, d, n) == Cardinality({i \in 1 .. Len(needs[n]) : needs[n][i] = d})

Dependents(needs, d) == InOrder({n \in Nodes : d \in Needed(needs, n)})
Roots(needs) == InOrder({n \in Nodes : needs[n] = << >>})

-----------------------------------------------------------------------------
(* validatePlan(): unknown ids, then Kahn's algorithm. *)

HasUnknownNeed(needs) == \E n \in Nodes : ~(Needed(needs, n) \subseteq Nodes)

KahnStart(needs) ==
  [indegree |-> [n \in Nodes |-> Len(needs[n])], queue |-> Roots(needs), visited |-> 0]

KahnStep(needs, s) ==
  LET left == [n \in Nodes |-> s.indegree[n] - Edges(needs, Head(s.queue), n)]
  IN  IF s.queue = << >> THEN s
      ELSE [indegree |-> left,
            queue    |-> Tail(s.queue)
                           \o InOrder({n \in Nodes : s.indegree[n] > 0 /\ left[n] = 0}),
            visited  |-> s.visited + 1]

\* A node is queued once, when its indegree reaches 0, so NodeCount iterations
\* empty the queue.
KahnRun(needs) ==
  LET run[k \in 0 .. NodeCount] ==
        IF k = 0 THEN KahnStart(needs) ELSE KahnStep(needs, run[k-1])
  IN run
KahnVisited(needs) == KahnRun(needs)[NodeCount].visited

ValidPlan(needs) == ~HasUnknownNeed(needs) /\ KahnVisited(needs) = NodeCount

\* What validatePlan() is meant to decide: in a cyclic plan some nodes wait for
\* one another, so that none of them can be the first to run.
IsCyclic(needs) ==
  \E S \in SUBSET Nodes : S # {} /\ \A n \in S : Needed(needs, n) \cap S # {}

-----------------------------------------------------------------------------
(* executePlan(). *)

CONSTANTS Plans,            \* the needs of the plans executePlan may be given
          Modes,            \* the failure modes it may be given
          BaseConcurrency,  \* ctx.maxConcurrency, or autoConcurrency()
          PlanConcurrency   \* plan.maxConcurrency, or BaseConcurrency if absent

ASSUME PlansAssumption == \A p \in Plans : p \in [Nodes -> Seq(Nat)]
ASSUME ModesAssumption == Modes \subseteq {"keep-going", "fail-fast"}
ASSUME ConcurrencyAssumption == BaseConcurrency \in Int /\ PlanConcurrency \in Int

Least(m, n)    == IF m <= n THEN m ELSE n
AtLeastOne(n)  == IF n >= 1 THEN n ELSE 1
Concurrency    == AtLeastOne(Least(BaseConcurrency, PlanConcurrency))

None     == 0    \* null, and "not skipped"
Sentinel == -1   \* the reason "fail-fast"

VARIABLES needs,  \* the plan
          mode,   \* its failure mode
          phase,  \* "called", then "executing" or "threw"
          run     \* executePlan's own variables and the results it keeps
vars == <<needs, mode, phase, run>>

Statuses == {"pending", "running", "success", "failure", "skipped"}
With(r, S) == {n \in Nodes : r.status[n] \in S}

Fresh ==
  [status       |-> [n \in Nodes |-> "pending"],
   skippedDueTo |-> [n \in Nodes |-> None],
   remaining    |-> [n \in Nodes |-> Len(needs[n])],
   ready        |-> Roots(needs),
   inFlight     |-> 0,
   aborted      |-> FALSE,
   firstFailure |-> None,
   finishes     |-> 0,      \* how often plan-finish was emitted
   ok           |-> FALSE]  \* the ok it reported

-----------------------------------------------------------------------------
(* finish() and tryStartMore() *)

AbortReason(r) == IF r.firstFailure = None THEN Sentinel ELSE r.firstFailure

Finish(r) ==
  [r EXCEPT !.status       = [n \in Nodes |-> IF @[n] = "pending" THEN "skipped" ELSE @[n]],
            !.skippedDueTo = [n \in Nodes |-> IF r.status[n] = "pending"
                                              THEN AbortReason(r) ELSE @[n]],
            !.finishes     = @ + 1,
            !.ok           = With(r, {"failure"}) = {}]

CanStart(r) == r.inFlight < Concurrency /\ r.ready # << >>
StartHead(r) ==
  IF r.status[Head(r.ready)] # "pending" THEN [r EXCEPT !.ready = Tail(@)]
  ELSE [r EXCEPT !.status[Head(r.ready)] = "running",
                 !.inFlight = @ + 1,
                 !.ready = Tail(@)]

\* The while loop: every iteration shifts one node.
StartIteration(r) == IF CanStart(r) THEN StartHead(r) ELSE r
StartLoop(r) ==
  LET loop[k \in 0 .. Len(r.ready)] ==
        IF k = 0 THEN r ELSE StartIteration(loop[k-1])
  IN loop
StartAll(r) == StartLoop(r)[Len(r.ready)]

FinishIf(p, r) == IF p THEN Finish(r) ELSE r
\* Broken: an aborted plan returns before it looks whether it is over.
TryStartMoreAbandoned(r) ==
  IF r.aborted THEN r
  ELSE FinishIf(StartAll(r).inFlight = 0 /\ StartAll(r).ready = << >>, StartAll(r))
TryStartMore(r) ==
  IF r.aborted THEN FinishIf(r.inFlight = 0, r)
  ELSE FinishIf(StartAll(r).inFlight = 0 /\ StartAll(r).ready = << >>, StartAll(r))

-----------------------------------------------------------------------------
(* poisonDescendants(): breadth first over the dependents.  A dependent that *)
(* repeats a need is queued once here and several times in the code, where   *)
(* all but the first entry are passed over.                                  *)

Children(d) == [i \in 1 .. Len(Dependents(needs, d)) |->
                  [id |-> Dependents(needs, d)[i], reason |-> d]]

\* Broken: only the direct dependents are poisoned.
PoisonHeadOnly(b) ==
  IF b.run.status[Head(b.queue).id] # "pending" THEN [b EXCEPT !.queue = Tail(@)]
  ELSE [run   |-> [b.run EXCEPT !.status[Head(b.queue).id] = "skipped",
                                !.skippedDueTo[Head(b.queue).id] = Head(b.queue).reason],
        queue |-> Tail(b.queue)]
PoisonHead(b) ==
  IF b.run.status[Head(b.queue).id] # "pending" THEN [b EXCEPT !.queue = Tail(@)]
  ELSE [run   |-> [b.run EXCEPT !.status[Head(b.queue).id] = "skipped",
                                !.skippedDueTo[Head(b.queue).id] = Head(b.queue).reason],
        queue |-> Tail(b.queue) \o Children(Head(b.queue).id)]

\* Every node's dependents are queued at most once, so no more than
\* NodeCount * NodeCount entries are ever queued.
PoisonIteration(b) == IF b.queue = << >> THEN b ELSE PoisonHead(b)
PoisonLoop(r, failed) ==
  LET loop[k \in 0 .. NodeCount * NodeCount] ==
        IF k = 0 THEN [run |-> r, queue |-> Children(failed)]
        ELSE PoisonIteration(loop[k-1])
  IN loop
PoisonDescendants(r, failed) == PoisonLoop(r, failed)[NodeCount * NodeCount].run

-----------------------------------------------------------------------------
(* The callbacks of dispatch(node, nodeCtx).then(...) *)

Left(r, n) == [m \in Nodes |-> r.remaining[m] - Edges(needs, n, m)]
\* Broken: a dependent is enqueued although one of its needs is missing.
FreedEarly(r, n) ==
  {m \in Nodes : n \in Needed(needs, m) /\ Left(r, n)[m] <= 1 /\ r.status[m] = "pending"}
Freed(r, n) ==
  {m \in Nodes : n \in Needed(needs, m) /\ Left(r, n)[m] = 0 /\ r.status[m] = "pending"}

OnSuccess(r, n) ==
  TryStartMore([r EXCEPT !.status[n] = "success",
                         !.inFlight  = @ - 1,
                         !.remaining = Left(r, n),
                         !.ready     = @ \o InOrder(Freed(r, n))])

Failed(r, n) ==
  [r EXCEPT !.status[n] = "failure",
            !.inFlight = @ - 1,
            !.firstFailure = IF @ = None THEN n ELSE @]
OnFailure(r, n) ==
  TryStartMore(IF mode = "fail-fast" THEN [Failed(r, n) EXCEPT !.aborted = TRUE]
               ELSE PoisonDescendants(Failed(r, n), n))

-----------------------------------------------------------------------------
Init == /\ needs \in Plans
        /\ mode \in Modes
        /\ phase = "called"
        /\ run = Fresh

\* The call itself, up to the first wave.  An empty plan returns early with the
\* result finish() would give.
Execute ==
  /\ phase = "called"
  /\ IF ValidPlan(needs)
     THEN phase' = "executing" /\ run' = TryStartMore(run)
     ELSE phase' = "threw" /\ run' = run
  /\ UNCHANGED <<needs, mode>>

Succeed(n) ==
  /\ phase = "executing" /\ run.status[n] = "running"
  /\ run' = OnSuccess(run, n)
  /\ UNCHANGED <<needs, mode, phase>>

Fail(n) ==
  /\ phase = "executing" /\ run.status[n] = "running"
  /\ run' = OnFailure(run, n)
  /\ UNCHANGED <<needs, mode, phase>>

Next == Execute \/ \E n \in Nodes : Succeed(n) \/ Fail(n)

\* The call happens and every handler settles some day; nothing says how, or in
\* which order.  (Weak fairness of Execute and of each node's two callbacks,
\* said of the states: TLC cannot afford ENABLED of these actions.)
Fairness ==
  /\ []<>(phase # "called")
  /\ \A n \in Nodes : []<>(run.status[n] # "running")

Spec     == Init /\ [][Next]_vars
FairSpec == Spec /\ Fairness

-----------------------------------------------------------------------------
(* Properties. *)

Done == run.finishes > 0

Runs ==
  [status : [Nodes -> Statuses], skippedDueTo : [Nodes -> Nodes \cup {None, Sentinel}],
   remaining : [Nodes -> Nat], ready : Seq(Nodes), inFlight : 0 .. Concurrency,
   aborted : BOOLEAN, firstFailure : Nodes \cup {None}, finishes : Nat, ok : BOOLEAN]

TypeOK ==
  /\ needs \in Plans /\ mode \in Modes /\ phase \in {"called", "executing", "threw"}
  /\ run \in Runs

\* validatePlan() rejects exactly the plans that name an unknown node or that
\* have a cycle (plan.ts:169): no malformed plan runs, no sound one is refused.
ThrowsIffMalformed ==
  /\ phase = "threw" => HasUnknownNeed(needs) \/ IsCyclic(needs)
  /\ phase = "executing" => ~HasUnknownNeed(needs) /\ ~IsCyclic(needs)

\* A node has run only if everything it needs has succeeded (plan.ts:16).
NeedsSucceedFirst ==
  \A n \in With(run, {"running", "success", "failure"}) :
    \A d \in Needed(needs, n) : run.status[d] = "success"

\* While the plan runs, the ready queue holds exactly the pending nodes whose
\* needs have all succeeded, each of them once: none is forgotten, none queued
\* twice, and none is there that poisoning has skipped (plan-runner.ts:195).
ReadyIsExact ==
  phase = "executing" /\ ~Done =>
    /\ {run.ready[i] : i \in 1 .. Len(run.ready)} =
         {n \in With(run, {"pending"}) :
            \A d \in Needed(needs, n) : run.status[d] = "success"}
    /\ \A i, j \in 1 .. Len(run.ready) : run.ready[i] = run.ready[j] => i = j

\* inFlight counts the running nodes, and they never exceed the concurrency.
InFlightIsExact ==
  /\ run.inFlight = Cardinality(With(run, {"running"}))
  /\ run.inFlight <= Concurrency

\* A worker slot never idles beside a ready node, unless the plan was aborted.
NoIdleWorker ==
  phase = "executing" /\ ~run.aborted /\ run.ready # << >> =>
    run.inFlight = Concurrency

\* executePlan() never hangs on itself: until it has resolved, it is awaiting at
\* least one handler, the only thing whose settling can resolve it.
NeverStalls ==
  phase = "executing" /\ ~Done => With(run, {"running"}) # {}

\* keep-going: a node is skipped if and only if something it needs failed or
\* was skipped, at every moment: independent branches always continue, and no
\* node is left waiting for one that will never succeed.
PoisonIsExact ==
  mode = "keep-going" =>
    With(run, {"skipped"}) =
      {n \in Nodes : \E d \in Needed(needs, n) \cap Nodes :
                       run.status[d] \in {"failure", "skipped"}}

\* plan-finish is emitted once, when nothing runs or waits any more.
FinishesOnce ==
  /\ run.finishes <= 1
  /\ Done => With(run, {"pending", "running"}) = {}

\* ok is reported only when every single node succeeded, although finish() looks
\* for failures alone: no node ends up skipped in a plan without a failure.
OkMeansAllSucceeded ==
  Done => (run.ok <=> With(run, {"success"}) = Nodes)

\* All of these at once, with the types.
RunnerIsExact ==
  /\ TypeOK /\ ThrowsIffMalformed /\ NeedsSucceedFirst
  /\ ReadyIsExact /\ InFlightIsExact /\ NoIdleWorker /\ NeverStalls
  /\ FinishesOnce /\ OkMeansAllSucceeded

\* fail-fast: once a node has failed no further node starts.
NothingStartsAfterAbort ==
  [][mode = "fail-fast" /\ With(run', {"failure"}) # {}
       => With(run', {"running"}) \subseteq With(run, {"running"})]_vars

\* A node that has settled or been skipped keeps its status to the end.
SettledIsFinal ==
  [][\A n \in With(run, {"success", "failure", "skipped"}) :
       run'.status[n] = run.status[n]]_vars

\* executePlan() always resolves or throws, whatever the handlers do.
Terminates == <>(phase = "threw" \/ Done)

\* The promise of PlanSchedule, for the plans that validation lets through.
Schedule == INSTANCE PlanSchedule WITH
  Cap      <- Concurrency,
  need     <- [n \in Nodes |-> Needed(needs, n) \cap Nodes],
  failFast <- mode = "fail-fast",
  status   <- run.status,
  done     <- Done
ImplementsSchedule == Schedule!Spec
-----------------------------------------------------------------------------
(* Plans on which the runner is checked.                                     *)
(* SmallPlans: every plan of three nodes whose needs arrays have at most two *)
(* entries, repeated, cyclic and unknown (0) ids included; RootedPlans adds  *)
(* an independent fourth node to each.                                       *)
(* WidePlans: every plan of four nodes, cyclic ones included, that lists     *)
(* each need once, in ascending order, and no node as its own need.          *)
ShortArrays  == {<< >>} \cup {<<a>> : a \in 0 .. 3} \cup {<<a, b>> : a, b \in 1 .. 3}
SmallPlans   == [1 .. 3 -> ShortArrays]
RootedPlans  == {Append(p, << >>) : p \in SmallPlans}
WidePlans    == {p \in [1 .. 4 -> {InOrder(S) : S \in SUBSET (1 .. 4)}] :
                   \A n \in 1 .. 4 : n \notin Needed(p, n)}
AllPlans     == RootedPlans \cup WidePlans
=============================================================================
