----------------------------- MODULE PlanCompact -----------------------------
(***************************************************************************)
(* Folding and merging of plans (plan-compact.ts, plan.ts): plugins claim  *)
(* nodes of a plan and each claim is coalesced into one batch node;        *)
(* mergePlans joins plans that may repeat a node.  A plan is a sequence of *)
(* nodes [id, needs, target, cache] in insertion order; needs is a         *)
(* sequence of ids, cache is None or what the target's command declared.   *)
(***************************************************************************)
EXTENDS Integers, Sequences, SequencesExt, FiniteSets

CONSTANTS Plans, Claims, MergeNodes
  \* inputs: the plans, what each spec claims (a sequence of sets of ids), nodes to merge
VARIABLE call

None == "none"
Ids(plan) == {plan[i].id : i \in DOMAIN plan}
Once(s) == FoldLeft(LAMBDA acc, x : IF x \in ToSet(acc) THEN acc ELSE Append(acc, x), <<>>, s)

(* compactPlan. *)
Claimants(claims, n) == {s \in DOMAIN claims : n.id \in claims[s]}
Conflict(plan, claims) == \E i \in DOMAIN plan : Cardinality(Claimants(claims, plan[i])) > 1
BatchId(s) == 0 - s   \* an id of its own
Owner(claims, n) == CHOOSE s \in Claimants(claims, n) : TRUE
Claimed(plan, claims, s) == SelectSeq(plan, LAMBDA n : s \in Claimants(claims, n))
collectCacheOptIn(claimed) ==
  [t \in {claimed[i].target : i \in DOMAIN claimed} |->
     LET declared == {claimed[i].cache : i \in {j \in DOMAIN claimed : claimed[j].target = t}}
     IN IF Cardinality(declared) = 1 THEN CHOOSE c \in declared : TRUE ELSE None]
Batch(plan, claims, s) ==
  LET claimed == Claimed(plan, claims, s)  ids == Ids(claimed)
      all == FlattenSeq([i \in DOMAIN claimed |-> claimed[i].needs])
  IN [id |-> BatchId(s), needs |-> Once(SelectSeq(all, LAMBDA d : d \notin ids)),
      of |-> [i \in DOMAIN claimed |-> claimed[i].id],
      optIn |-> collectCacheOptIn(claimed)]
Renamed(plan, claims, d) ==
  LET S == {s \in DOMAIN claims : d \in claims[s] /\ d \in Ids(plan)}
  IN IF S = {} THEN d ELSE BatchId(CHOOSE s \in S : TRUE)
rewriteNeeds(plan, claims, n) ==
  [id |-> n.id, needs |-> Once([i \in DOMAIN n.needs |-> Renamed(plan, claims, n.needs[i])]),
   of |-> <<n.id>>, optIn |-> <<>>]
\* A claimed node's place is taken by its batch the first time.
Emit(plan, claims) ==
  LET node(n) == IF Claimants(claims, n) = {} THEN rewriteNeeds(plan, claims, n)
                 ELSE Batch(plan, claims, Owner(claims, n))
  IN Once([i \in DOMAIN plan |-> node(plan[i])])
compactPlan(plan, claims) ==
  IF Conflict(plan, claims) THEN [thrown |-> TRUE, nodes |-> <<>>]    \* BatchClaimConflictError
  ELSE [thrown |-> FALSE, nodes |-> Emit(plan, claims)]

(* mergePlans of two one-node plans: the first occurrence is kept.          *)
sameNeedsSet(a, b) == Len(a) = Len(b) /\ ToSet(b) \subseteq ToSet(a)
diffNodes(a, b) ==
  (IF sameNeedsSet(a.needs, b.needs) THEN {} ELSE {"needs"})
    \union {f \in {"target", "cache"} : a[f] # b[f]}
mergePlans(a, b) == IF diffNodes(a, b) # {} THEN [thrown |-> TRUE, node |-> a]
                    ELSE [thrown |-> FALSE, node |-> a]

NoCall == [done |-> FALSE]
Init == call = NoCall
Compact == \E plan \in Plans, claims \in Claims :
  call' = [done |-> TRUE, kind |-> "compact", plan |-> plan, claims |-> claims,
           out |-> compactPlan(plan, claims)]
Merge ==
  \E a, b \in MergeNodes : call' = [done |-> TRUE, kind |-> "merge", a |-> a, b |-> b,
                                    out |-> mergePlans(a, b)]
Next == ~call.done /\ (Compact \/ Merge)
Spec == Init /\ [][Next]_call

(* Properties.                                                              *)
Compacted(Holds(_, _, _)) == call.done /\ call.kind = "compact"
  => (~call.out.thrown => Holds(call.plan, call.claims, call.out.nodes))
\* One plugin folds.  (Where two do, the needs of a batch still name the nodes
\* that the other one folded, and the plan is rejected.)
Alone(Holds(_, _, _)) == call.done /\ call.kind = "compact" /\ Len(call.claims) = 1
  => Holds(call.plan, call.claims, call.out.nodes)
Merged(Holds(_, _, _)) == call.done /\ call.kind = "merge" => Holds(call.a, call.b, call.out)
\* What runs before a node, through any number of needs.
Before(plan, id) ==
  LET needsOf(S) == UNION {ToSet(plan[i].needs) : i \in {j \in DOMAIN plan : plan[j].id \in S}}
      reach[k \in 0 .. Len(plan)] == IF k = 0 THEN needsOf({id})
                                     ELSE reach[k - 1] \union needsOf(reach[k - 1])
  IN reach[Len(plan)]

\* A folded plan has each node of the original exactly once, alone or in one batch.
TypeOK == Compacted(LAMBDA plan, claims, out :
  /\ \A i, j \in DOMAIN out : out[i].id = out[j].id => i = j
  /\ \A id \in Ids(plan) : Cardinality({i \in DOMAIN out : id \in ToSet(out[i].of)}) = 1)

\* Nothing is folded when two plugins claim a node, whichever come first.
OneOwner == call.done /\ call.kind = "compact" =>
  (call.out.thrown <=> \E s, t \in DOMAIN call.claims : s # t
   /\ call.claims[s] \intersect call.claims[t] \intersect Ids(call.plan) # {})

\* Folding keeps the order of the plan: what had to run before a node still
\* does, in its own node or its batch, unless both are in one batch.
OrderKept == Alone(LAMBDA plan, claims, out :
  \A n, m \in Ids(plan) : m \in Before(plan, n) =>
    LET N == CHOOSE x \in ToSet(out) : n \in ToSet(x.of)
        M == CHOOSE x \in ToSet(out) : m \in ToSet(x.of)
    IN N = M \/ M.id \in Before(out, N.id))

\* "downstream refs become the batch id" (plan-compact.ts): every need of the
\* folded plan is a node of it.
NoDanglingNeed ==
  Alone(LAMBDA plan, claims, out : \A i \in DOMAIN out : ToSet(out[i].needs) \subseteq Ids(out))

\* A target of a batch counts as cacheable only when each claimed node of it
\* asked for that, in the same words.
NothingCachedUnasked == Compacted(LAMBDA plan, claims, out :
  \A i \in DOMAIN out : \A t \in DOMAIN out[i].optIn : out[i].optIn[t] # None =>
    \A j \in DOMAIN plan : plan[j].id \in ToSet(out[i].of) /\ plan[j].target = t
      => plan[j].cache = out[i].optIn[t])

\* A node that two plans share still waits for all that either said it needs.
MergeLosesNoNeed ==
  Merged(LAMBDA a, b, out : ~out.thrown
         => ToSet(a.needs) \union ToSet(b.needs) \subseteq ToSet(out.node.needs))

=============================================================================
