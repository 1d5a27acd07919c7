-------------------------- MODULE PlanRunnerProofs --------------------------
(***************************************************************************)
(* Proofs about PlanRunner, for plans of every size: a pass over the nodes *)
(* in order lists each node of a set once (InOrderLists), and              *)
(* validatePlan()'s Kahn loop tells the plans with a cycle from those      *)
(* without (ValidIffWellFormed).                                           *)
(*                                                                         *)
(* Proofs about PlanRunner for every plan, failure mode and concurrency.   *)
(* The inductive invariant is Inv: an executing run is Settled, which is   *)
(* Consistent (statuses, remaining counts, ready queue and inFlight agree) *)
(* and has nothing left to start.  Consistent is what the runner's         *)
(* subroutines maintain between the settling of a node and tryStartMore(). *)
(***************************************************************************)
EXTENDS PlanRunner, WellFoundedInduction, FiniteSetTheorems, TLAPS

-----------------------------------------------------------------------------
(* Induction over the natural numbers in a form that first-order provers   *)
(* can use: the induction predicate is a SET of numbers.                   *)

\* Every nonempty set of naturals has a least element.
LEMMA LeastElement ==
  ASSUME NEW T, T \subseteq Nat, T # {}
  PROVE  \E x \in T : \A y \in T : x <= y
<1>1. IsWellFoundedOn(OpToRel(<, Nat), Nat)
  BY NatLessThanWellFounded
<1>2. PICK x \in T : \A y \in T : <<y, x>> \notin OpToRel(<, Nat)
  BY <1>1, WFMin
<1>3. \A y \in T : ~(y < x)
  BY <1>2 DEF OpToRel
<1> QED
  BY <1>3

\* A set that holds 0 and is closed under successor holds every natural.
LEMMA SetInduction ==
  ASSUME NEW S, 0 \in S, \A n \in Nat : n \in S => n + 1 \in S
  PROVE  Nat \subseteq S
<1> DEFINE T == Nat \ S
<1> SUFFICES ASSUME T # {} PROVE FALSE
  OBVIOUS
<1>1. PICK x \in T : \A y \in T : x <= y
  BY LeastElement
<1>2. x # 0 /\ x - 1 \in Nat /\ x - 1 \notin T
  BY <1>1
<1> QED
  BY <1>1, <1>2

\* Induction up to a bound: the form the loop lemmas use.
LEMMA BoundedInduction ==
  ASSUME NEW n \in Nat, NEW S, 0 \in S,
         \A k \in 0 .. (n - 1) : k \in S => k + 1 \in S
  PROVE  0 .. n \subseteq S
<1> DEFINE T == {k \in Nat : k <= n => k \in S}
<1>1. 0 \in T
  OBVIOUS
<1>2. \A k \in Nat : k \in T => k + 1 \in T
  OBVIOUS
<1>3. Nat \subseteq T
  BY <1>1, <1>2, SetInduction
<1> QED
  BY <1>3

\* s names the members of S, each of them once.
Lists(s, S) ==
  /\ S = {s[i] : i \in 1 .. Len(s)}
  /\ \A i, j \in 1 .. Len(s) : s[i] = s[j] => i = j

-----------------------------------------------------------------------------
(* Finite sets of nodes and of positions. *)

LEMMA NodesAreFinite ==
  ASSUME NEW S \in SUBSET Nodes
  PROVE  /\ IsFiniteSet(S)
         /\ Cardinality(S) \in Nat
         /\ Cardinality(S) <= NodeCount
         /\ Cardinality(S) = NodeCount => S = Nodes
<1>1. IsFiniteSet(Nodes) /\ Cardinality(Nodes) = NodeCount
  BY NodeCountAssumption, FS_Interval DEF Nodes
<1>2. /\ IsFiniteSet(S) /\ Cardinality(S) <= Cardinality(Nodes)
      /\ Cardinality(Nodes) = Cardinality(S) => Nodes = S
  BY <1>1, FS_Subset
<1> QED
  BY <1>1, <1>2, FS_CardinalityType

LEMMA PositionsAreFinite ==
  ASSUME NEW n \in Nat, NEW S \in SUBSET (1 .. n)
  PROVE  IsFiniteSet(S) /\ Cardinality(S) \in Nat /\ (Cardinality(S) = 0 <=> S = {})
<1>1. IsFiniteSet(1 .. n)
  BY FS_Interval
<1>2. IsFiniteSet(S)
  BY <1>1, FS_Subset
<1> QED
  BY <1>2, FS_CardinalityType, FS_EmptySet

-----------------------------------------------------------------------------
(* Sequences that list a set. *)

LEMMA ListsEmpty ==
  ASSUME NEW s, Len(s) = 0
  PROVE  Lists(s, {})
<1>1. 1 .. Len(s) = {}
  OBVIOUS
<1> QED
  BY <1>1 DEF Lists

LEMMA ListsTail ==
  ASSUME NEW S, NEW s \in Seq(S), NEW L, Lists(s, L), s # << >>
  PROVE  /\ Head(s) \in L /\ Head(s) \in S
         /\ Tail(s) \in Seq(S)
         /\ Len(s) \in Nat /\ Len(s) >= 1 /\ Len(Tail(s)) = Len(s) - 1
         /\ Lists(Tail(s), L \ {Head(s)})
<1> DEFINE t == Tail(s)
           m == Len(s)
<1>1. /\ Head(s) = s[1] /\ s[1] \in S
      /\ t \in Seq(S)
      /\ m \in Nat /\ m >= 1
      /\ Len(t) = m - 1
      /\ \A i \in 1 .. m - 1 : t[i] = s[i + 1]
  OBVIOUS
<1>2. /\ L = {s[i] : i \in 1 .. m}
      /\ \A i, j \in 1 .. m : s[i] = s[j] => i = j
  BY DEF Lists
<1> HIDE DEF t, m
<1>3. 1 \in 1 .. m /\ Head(s) \in L
  BY <1>1, <1>2
<1>4. \A i \in 1 .. Len(t) : i + 1 \in 1 .. m /\ i + 1 # 1 /\ t[i] = s[i + 1]
  BY <1>1
<1>5. ASSUME NEW x
      PROVE  x \in L \ {Head(s)} <=> \E i \in 1 .. Len(t) : x = t[i]
  <2>1. ASSUME x \in L, x # Head(s)
        PROVE  \E i \in 1 .. Len(t) : x = t[i]
    <3>1. PICK j \in 1 .. m : x = s[j]
      BY <1>2, <2>1
    <3>2. j # 1
      BY <1>1, <2>1, <3>1
    <3>3. j - 1 \in 1 .. Len(t) /\ (j - 1) + 1 = j
      BY <1>1, <3>2
    <3> QED
      BY <1>4, <3>1, <3>3
  <2>2. ASSUME NEW i \in 1 .. Len(t), x = t[i]
        PROVE  x \in L \ {Head(s)}
    <3>1. i + 1 \in 1 .. m /\ i + 1 # 1 /\ x = s[i + 1]
      BY <1>4, <2>2
    <3>2. s[i + 1] # s[1]
      BY <1>2, <1>3, <3>1
    <3> QED
      BY <1>1, <1>2, <3>1, <3>2
  <2> QED
    BY <2>1, <2>2
<1>6. \A i, j \in 1 .. Len(t) : t[i] = t[j] => i = j
  <2> SUFFICES ASSUME NEW i \in 1 .. Len(t), NEW j \in 1 .. Len(t), t[i] = t[j]
               PROVE  i = j
    OBVIOUS
  <2>1. i + 1 = j + 1
    BY <1>2, <1>4
  <2> QED
    BY <1>1, <2>1
<1>7. Lists(t, L \ {Head(s)})
  <2>1. L \ {Head(s)} = {t[i] : i \in 1 .. Len(t)}
    BY <1>5, Zenon
  <2> QED
    BY <1>6, <2>1, Zenon DEF Lists
<1> QED
  BY <1>1, <1>3, <1>7 DEF t, m

LEMMA ListsConcat ==
  ASSUME NEW S, NEW s \in Seq(S), NEW t \in Seq(S), NEW L, NEW M,
         Lists(s, L), Lists(t, M), L \cap M = {}
  PROVE  s \o t \in Seq(S) /\ Lists(s \o t, L \cup M)
<1> DEFINE u == s \o t
           m == Len(s)
           n == Len(t)
<1>1. /\ m \in Nat /\ n \in Nat
      /\ u \in Seq(S) /\ Len(u) = m + n
      /\ \A i \in 1 .. m : u[i] = s[i]
      /\ \A i \in m + 1 .. m + n : u[i] = t[i - m]
  OBVIOUS
<1>2. /\ L = {s[i] : i \in 1 .. m} /\ M = {t[i] : i \in 1 .. n}
      /\ \A i, j \in 1 .. m : s[i] = s[j] => i = j
      /\ \A i, j \in 1 .. n : t[i] = t[j] => i = j
  BY DEF Lists
<1> HIDE DEF u, m, n
<1>3. ASSUME NEW x
      PROVE  x \in L \cup M <=> \E i \in 1 .. Len(u) : x = u[i]
  <2>1. ASSUME x \in L
        PROVE  \E i \in 1 .. Len(u) : x = u[i]
    <3>1. PICK i \in 1 .. m : x = s[i]
      BY <1>2, <2>1
    <3> QED
      BY <1>1, <3>1
  <2>2. ASSUME x \in M
        PROVE  \E i \in 1 .. Len(u) : x = u[i]
    <3>1. PICK j \in 1 .. n : x = t[j]
      BY <1>2, <2>2
    <3>2. m + j \in m + 1 .. m + n /\ (m + j) - m = j /\ m + j \in 1 .. Len(u)
      BY <1>1
    <3> QED
      BY <1>1, <3>1, <3>2
  <2>3. ASSUME NEW i \in 1 .. Len(u), x = u[i]
        PROVE  x \in L \cup M
    <3>1. CASE i \in 1 .. m
      BY <1>1, <1>2, <2>3, <3>1
    <3>2. CASE i \notin 1 .. m
      <4>1. i \in m + 1 .. m + n /\ i - m \in 1 .. n
        BY <1>1, <3>2
      <4> QED
        BY <1>1, <1>2, <2>3, <4>1
    <3> QED
      BY <3>1, <3>2
  <2> QED
    BY <2>1, <2>2, <2>3
<1>4. ASSUME NEW i \in 1 .. Len(u), NEW j \in 1 .. Len(u), u[i] = u[j]
      PROVE  i = j
  <2>1. CASE i \in 1 .. m /\ j \in 1 .. m
    BY <1>1, <1>2, <1>4, <2>1
  <2>2. CASE i \notin 1 .. m /\ j \notin 1 .. m
    <3>1. /\ i \in m + 1 .. m + n /\ i - m \in 1 .. n
          /\ j \in m + 1 .. m + n /\ j - m \in 1 .. n
      BY <1>1, <2>2
    <3>2. t[i - m] = t[j - m]
      BY <1>1, <1>4, <3>1
    <3>3. i - m = j - m
      BY <1>2, <3>1, <3>2
    <3> QED
      BY <1>1, <3>3
  <2>3. ASSUME NEW a \in 1 .. Len(u), NEW b \in 1 .. Len(u),
               a \in 1 .. m, b \notin 1 .. m, u[a] = u[b]
        PROVE  FALSE
    <3>1. b \in m + 1 .. m + n /\ b - m \in 1 .. n
      BY <1>1, <2>3
    <3>2. u[a] \in L /\ u[b] \in M
      BY <1>1, <1>2, <2>3, <3>1
    <3> QED
      BY <2>3, <3>2
  <2> QED
    BY <1>4, <2>1, <2>2, <2>3
<1>5. Lists(u, L \cup M)
  <2>1. L \cup M = {u[i] : i \in 1 .. Len(u)}
    BY <1>3, Zenon
  <2> QED
    BY <1>4, <2>1, Zenon DEF Lists
<1> QED
  BY <1>1, <1>5 DEF u

-----------------------------------------------------------------------------
(* InOrder *)

LEMMA InOrderPassUnfolds ==
  ASSUME NEW S
  PROVE  /\ InOrderPass(S)[0] = << >>
         /\ \A k \in 0 .. NodeCount - 1 :
              InOrderPass(S)[k + 1] =
                IF k + 1 \in S THEN Append(InOrderPass(S)[k], k + 1) ELSE InOrderPass(S)[k]
<1> DEFINE Step(s, k) == IF k \in S THEN Append(s, k) ELSE s
           Body(g, n) == [k \in 0 .. n |-> IF k = 0 THEN << >> ELSE Step(g[k - 1], k)]
           E == {n \in Nat : \E g : g = Body(g, n)}
           P == InOrderPass(S)
<1>1. P = Body(P, NodeCount)
  <2>1. P = CHOOSE g : g = Body(g, NodeCount)
    BY DEF InOrderPass
  <2> HIDE DEF Step, P
  <2>2. 0 \in E
    <3>1. Body([k \in 0 .. 0 |-> << >>], 0) = [k \in 0 .. 0 |-> << >>]
      OBVIOUS
    <3> QED
      BY <3>1
  <2>3. ASSUME NEW n \in Nat, n \in E
        PROVE  n + 1 \in E
    <3>1. PICK g : g = Body(g, n)
      BY <2>3
    <3> DEFINE h == [k \in 0 .. n + 1 |-> IF k <= n THEN g[k] ELSE Step(g[n], n + 1)]
    <3>2. h = Body(h, n + 1)
      BY <3>1
    <3> HIDE DEF h, Body
    <3>3. \E f : f = Body(f, n + 1)
      BY <3>2
    <3> QED
      BY <3>3
  <2>4. NodeCount \in E
    BY NodeCountAssumption, <2>2, <2>3, SetInduction
  <2> QED
    BY <2>1, <2>4
<1> HIDE DEF P, Step
<1>2. P[0] = << >>
  BY <1>1, NodeCountAssumption
<1>3. ASSUME NEW k \in 0 .. NodeCount - 1
      PROVE  P[k + 1] = Step(P[k], k + 1)
  <2>1. k + 1 \in 0 .. NodeCount /\ k + 1 # 0 /\ (k + 1) - 1 = k
    BY NodeCountAssumption
  <2> QED
    BY <1>1, <2>1
<1> QED
  BY <1>2, <1>3 DEF P, Step

\* A pass over the nodes in order keeps the nodes of S, each once.
LEMMA InOrderLists ==
  ASSUME NEW S
  PROVE  /\ InOrder(S) \in Seq(Nodes)
         /\ Lists(InOrder(S), S \cap Nodes)
         /\ Len(InOrder(S)) <= NodeCount
<1> DEFINE P == InOrderPass(S)
           Good(s, k) == /\ s \in Seq(Nodes)
                         /\ Lists(s, S \cap (1 .. k))
                         /\ Len(s) <= k
           T == {k \in 0 .. NodeCount : Good(P[k], k)}
<1>1. 0 \in T
  <2>1. Good(<< >>, 0)
    <3>1. Len(<< >>) = 0 /\ S \cap (1 .. 0) = {}
      OBVIOUS
    <3> QED
      BY <3>1, ListsEmpty
  <2> HIDE DEF Good
  <2> QED
    BY <2>1, NodeCountAssumption, InOrderPassUnfolds
<1>2. ASSUME NEW k \in 0 .. NodeCount - 1, k \in T
      PROVE  k + 1 \in T
  <2>1. k \in Nat /\ k + 1 \in Nodes /\ k + 1 \in 0 .. NodeCount
    BY NodeCountAssumption DEF Nodes
  <2>2. P[k] \in Seq(Nodes) /\ Lists(P[k], S \cap (1 .. k)) /\ Len(P[k]) <= k
    BY <1>2
  <2>3. CASE k + 1 \notin S
    <3>1. P[k + 1] = P[k]
      BY <2>3, InOrderPassUnfolds
    <3>2. S \cap (1 .. k + 1) = S \cap (1 .. k)
      BY <2>1, <2>3
    <3>3. Len(P[k]) <= k + 1
      BY <2>1, <2>2
    <3> HIDE DEF P
    <3> QED
      BY <2>1, <2>2, <3>1, <3>2, <3>3
  <2>4. CASE k + 1 \in S
    <3>1. P[k + 1] = Append(P[k], k + 1)
      BY <2>4, InOrderPassUnfolds
    <3> HIDE DEF P
    <3>2. /\ Append(P[k], k + 1) = P[k] \o <<k + 1>>
          /\ <<k + 1>> \in Seq(Nodes)
          /\ Len(Append(P[k], k + 1)) = Len(P[k]) + 1
      BY <2>1, <2>2
    <3>3. Lists(<<k + 1>>, {k + 1})
      BY DEF Lists
    <3>4. (S \cap (1 .. k)) \cap {k + 1} = {}
      BY <2>1
    <3>5. (S \cap (1 .. k)) \cup {k + 1} = S \cap (1 .. k + 1)
      BY <2>1, <2>4
    <3>6. P[k + 1] \in Seq(Nodes) /\ Lists(P[k + 1], S \cap (1 .. k + 1))
      <4> DEFINE a == P[k]
                 b == <<k + 1>>
                 L == S \cap (1 .. k)
      <4>1. a \in Seq(Nodes) /\ b \in Seq(Nodes) /\ Lists(a, L) /\ Lists(b, {k + 1})
        BY <2>2, <3>2, <3>3
      <4>2. L \cap {k + 1} = {} /\ L \cup {k + 1} = S \cap (1 .. k + 1)
        BY <3>4, <3>5
      <4>3. P[k + 1] = a \o b
        BY <3>1, <3>2
      <4> HIDE DEF a, b, L
      <4>4. a \o b \in Seq(Nodes) /\ Lists(a \o b, L \cup {k + 1})
        BY <4>1, <4>2, ListsConcat
      <4> QED
        BY <4>2, <4>3, <4>4
    <3>7. Len(P[k + 1]) <= k + 1
      BY <2>1, <2>2, <3>1, <3>2
    <3> QED
      BY <2>1, <3>6, <3>7
  <2> QED
    BY <2>3, <2>4
<1>3. NodeCount \in T
  <2> HIDE DEF T
  <2>1. 0 .. NodeCount \subseteq T
    BY <1>1, <1>2, NodeCountAssumption, BoundedInduction
  <2> QED
    BY <2>1, NodeCountAssumption
<1>4. Good(P[NodeCount], NodeCount)
  <2> HIDE DEF Good, P
  <2> QED
    BY <1>3
<1> QED
  BY <1>4 DEF InOrder, Nodes

-----------------------------------------------------------------------------
(* Counting plan. *)

\* The positions of n's needs array that satisfy nothing in V.
Unvisited(plan, V, n) == {i \in 1 .. Len(plan[n]) : plan[n][i] \notin V}

\* Striking d off counts down by as often as n lists d, the way the dependents
\* array makes the code count.
LEMMA StrikeOff ==
  ASSUME NEW plan \in [Nodes -> Seq(Nat)], NEW n \in Nodes, NEW V, NEW d, d \notin V
  PROVE  /\ Cardinality(Unvisited(plan, V, n)) \in Nat
         /\ Cardinality(Unvisited(plan, V \cup {d}, n)) =
              Cardinality(Unvisited(plan, V, n)) - Edges(plan, d, n)
         /\ Edges(plan, d, n) \in Nat
         /\ Edges(plan, d, n) = 0 <=> d \notin Needed(plan, n)
<1> DEFINE I == 1 .. Len(plan[n])
           A == Unvisited(plan, V, n)
           D == {i \in I : plan[n][i] = d}
<1>1. Len(plan[n]) \in Nat
  OBVIOUS
<1>2. A \in SUBSET I /\ D \in SUBSET I /\ A \cap D = D
  BY DEF Unvisited
<1>3. Unvisited(plan, V \cup {d}, n) = A \ D
  BY DEF Unvisited
<1>4. Edges(plan, d, n) = Cardinality(D)
  BY DEF Edges
<1>5. d \notin Needed(plan, n) <=> D = {}
  BY DEF Needed
<1> HIDE DEF A, D
<1>6. /\ IsFiniteSet(A) /\ Cardinality(A) \in Nat
      /\ Cardinality(D) \in Nat /\ (Cardinality(D) = 0 <=> D = {})
  BY <1>1, <1>2, PositionsAreFinite
<1>7. Cardinality(A \ D) = Cardinality(A) - Cardinality(D)
  BY <1>2, <1>6, FS_Difference
<1> QED
  BY <1>3, <1>4, <1>5, <1>6, <1>7 DEF A

-----------------------------------------------------------------------------
(* validatePlan()'s Kahn loop: V is the set of the nodes it has visited. *)

Queueable(s, V) == {n \in Nodes \ V : s.indegree[n] = 0}

KahnState(plan, s, V) ==
  /\ V \in SUBSET Nodes /\ s.visited = Cardinality(V)
  /\ s.indegree \in [Nodes -> Nat]
  /\ \A n \in Nodes : s.indegree[n] = Cardinality(Unvisited(plan, V, n))
  /\ \A n \in V : s.indegree[n] = 0
  /\ s.queue \in Seq(Nodes) /\ Lists(s.queue, Queueable(s, V))

\* A node whose count is 0 needs visited nodes only.
LEMMA ZeroMeansVisited ==
  ASSUME NEW plan \in [Nodes -> Seq(Nat)], NEW s, NEW V, KahnState(plan, s, V),
         NEW n \in Nodes
  PROVE  s.indegree[n] = 0 <=> Needed(plan, n) \subseteq V
<1>1. Unvisited(plan, V, n) \in SUBSET (1 .. Len(plan[n])) /\ Len(plan[n]) \in Nat
  BY DEF Unvisited
<1>2. Cardinality(Unvisited(plan, V, n)) = 0 <=> Unvisited(plan, V, n) = {}
  BY <1>1, PositionsAreFinite
<1>3. Unvisited(plan, V, n) = {} <=> Needed(plan, n) \subseteq V
  BY DEF Unvisited, Needed
<1> QED
  BY <1>2, <1>3 DEF KahnState

LEMMA KahnStarts ==
  ASSUME NEW plan \in [Nodes -> Seq(Nat)]
  PROVE  KahnState(plan, KahnStart(plan), {}) /\ KahnStart(plan).visited = 0
<1> DEFINE s == KahnStart(plan)
<1>1. /\ s.indegree = [n \in Nodes |-> Len(plan[n])]
      /\ s.queue = Roots(plan) /\ s.visited = 0
  BY DEF KahnStart
<1> HIDE DEF s
<1>2. ASSUME NEW n \in Nodes
      PROVE  s.indegree[n] = Cardinality(Unvisited(plan, {}, n))
  <2>1. Unvisited(plan, {}, n) = 1 .. Len(plan[n]) /\ Len(plan[n]) \in Nat
    BY DEF Unvisited
  <2>2. \A m \in Nat : Cardinality(1 .. m) = m
    <3> TAKE m \in Nat
    <3>1. m \in Int /\ 1 \in Int /\ Cardinality(1 .. m) = IF 1 > m THEN 0 ELSE m - 1 + 1
      BY FS_Interval
    <3> QED
      BY <3>1
  <2> QED
    BY <1>1, <2>1, <2>2
<1>3. s.indegree \in [Nodes -> Nat]
  BY <1>1
<1>4. Queueable(s, {}) = {n \in Nodes : plan[n] = << >>} \cap Nodes
  <2>1. \A n \in Nodes : s.indegree[n] = 0 <=> plan[n] = << >>
    BY <1>1
  <2> QED
    BY <2>1 DEF Queueable
<1>5. s.queue \in Seq(Nodes) /\ Lists(s.queue, Queueable(s, {}))
  BY <1>1, <1>4, InOrderLists DEF Roots
<1>6. s.visited = Cardinality({})
  BY <1>1, FS_EmptySet
<1> QED
  BY <1>1, <1>2, <1>3, <1>5, <1>6 DEF KahnState, s

\* One iteration visits the head of the queue, which no cycle contains.
LEMMA KahnSteps ==
  ASSUME NEW plan \in [Nodes -> Seq(Nat)], NEW s, NEW V, KahnState(plan, s, V),
         s.queue # << >>,
         NEW S \in SUBSET Nodes, V \cap S = {},
         \A n \in S : Needed(plan, n) \cap S # {}
  PROVE  LET t == KahnStep(plan, s)
             W == V \cup {Head(s.queue)}
         IN  KahnState(plan, t, W) /\ W \cap S = {} /\ t.visited = s.visited + 1
<1> DEFINE t == KahnStep(plan, s)
           d == Head(s.queue)
           W == V \cup {d}
           left == [n \in Nodes |-> s.indegree[n] - Edges(plan, d, n)]
           N == {n \in Nodes : s.indegree[n] > 0 /\ left[n] = 0}
           Q == Queueable(s, V)
<1>1. /\ t.indegree = left
      /\ t.queue = Tail(s.queue) \o InOrder(N)
      /\ t.visited = s.visited + 1
  BY DEF KahnStep
<1>2. /\ V \in SUBSET Nodes /\ s.visited = Cardinality(V)
      /\ s.indegree \in [Nodes -> Nat]
      /\ \A n \in Nodes : s.indegree[n] = Cardinality(Unvisited(plan, V, n))
      /\ \A n \in V : s.indegree[n] = 0
      /\ s.queue \in Seq(Nodes) /\ Lists(s.queue, Q)
  BY DEF KahnState
<1>3. /\ d \in Q /\ Tail(s.queue) \in Seq(Nodes) /\ Lists(Tail(s.queue), Q \ {d})
  <2> HIDE DEF Q
  <2> QED
    BY <1>2, ListsTail
<1>4. d \in Nodes /\ d \notin V /\ s.indegree[d] = 0
  BY <1>3 DEF Queueable
<1> HIDE DEF t, d, Q
<1>5. ASSUME NEW n \in Nodes
      PROVE  /\ left[n] = Cardinality(Unvisited(plan, W, n)) /\ left[n] \in Nat
             /\ left[n] <= s.indegree[n]
  <2>1. /\ Cardinality(Unvisited(plan, W, n)) =
              Cardinality(Unvisited(plan, V, n)) - Edges(plan, d, n)
        /\ Edges(plan, d, n) \in Nat
    BY <1>4, StrikeOff
  <2>2. Unvisited(plan, W, n) \in SUBSET (1 .. Len(plan[n])) /\ Len(plan[n]) \in Nat
    BY DEF Unvisited
  <2>3. Cardinality(Unvisited(plan, W, n)) \in Nat
    BY <2>2, PositionsAreFinite
  <2>4. s.indegree[n] = Cardinality(Unvisited(plan, V, n)) /\ s.indegree[n] \in Nat
    BY <1>2
  <2> QED
    BY <2>1, <2>3, <2>4
<1>6. left \in [Nodes -> Nat]
  BY <1>5
<1> HIDE DEF left
<1>7. /\ \A n \in W : left[n] = 0
      /\ Queueable(t, W) = (Q \ {d}) \cup N
      /\ (Q \ {d}) \cap N = {}
  <2>1. \A n \in Nodes : s.indegree[n] = 0 => left[n] = 0
    BY <1>2, <1>5
  <2>2. \A n \in W : n \in Nodes /\ s.indegree[n] = 0
    BY <1>2, <1>4
  <2>3. \A n \in Nodes : s.indegree[n] = 0 \/ s.indegree[n] > 0
    BY <1>2
  <2>4. \A n \in N : s.indegree[n] # 0 /\ n \in Nodes /\ n \notin W
    BY <1>2, <2>2
  <2>5. Queueable(t, W) = (Q \ {d}) \cup N
    BY <1>1, <2>1, <2>3, <2>4 DEF Queueable, Q
  <2> QED
    BY <2>1, <2>2, <2>4, <2>5 DEF Queueable, Q
<1>8. N \in SUBSET Nodes
  OBVIOUS
<1> HIDE DEF N
<1>9. /\ t.queue \in Seq(Nodes) /\ Lists(t.queue, Queueable(t, W))
  <2>1. InOrder(N) \in Seq(Nodes) /\ Lists(InOrder(N), N)
    <3>1. N \cap Nodes = N
      BY <1>8
    <3> QED
      BY <3>1, InOrderLists
  <2> QED
    <3> DEFINE a == Tail(s.queue)
               b == InOrder(N)
               L == Q \ {d}
    <3>1. /\ a \in Seq(Nodes) /\ b \in Seq(Nodes) /\ Lists(a, L) /\ Lists(b, N)
          /\ L \cap N = {}
      BY <1>3, <1>7, <2>1
    <3> HIDE DEF a, b, L
    <3>2. a \o b \in Seq(Nodes) /\ Lists(a \o b, L \cup N)
      BY <3>1, ListsConcat
    <3> QED
      BY <1>1, <1>7, <3>2 DEF a, b, L
<1>10. t.visited = Cardinality(W)
  <2>1. IsFiniteSet(V) /\ Cardinality(V) \in Nat
    BY <1>2, NodesAreFinite
  <2>2. Cardinality(W) = Cardinality(V) + 1
    BY <1>4, <2>1, FS_AddElement
  <2> QED
    BY <1>1, <1>2, <2>2
<1>11. W \cap S = {}
  <2>1. Needed(plan, d) \subseteq V
    BY <1>4, ZeroMeansVisited
  <2> QED
    BY <2>1
<1>12. W \in SUBSET Nodes
  BY <1>2, <1>4
<1> HIDE DEF W
<1>13. KahnState(plan, t, W)
  BY <1>1, <1>5, <1>6, <1>7, <1>9, <1>10, <1>12 DEF KahnState
<1> QED
  BY <1>1, <1>11, <1>13 DEF t, W, d

LEMMA KahnRunUnfolds ==
  ASSUME NEW plan
  PROVE  /\ KahnRun(plan)[0] = KahnStart(plan)
         /\ \A k \in 0 .. NodeCount - 1 :
              KahnRun(plan)[k + 1] = KahnStep(plan, KahnRun(plan)[k])
<1> DEFINE a == KahnStart(plan)
           Step(s) == KahnStep(plan, s)
           Body(g, n) == [k \in 0 .. n |-> IF k = 0 THEN a ELSE Step(g[k - 1])]
           E == {n \in Nat : \E g : g = Body(g, n)}
           R == KahnRun(plan)
<1>1. R = Body(R, NodeCount)
  <2>1. R = CHOOSE g : g = Body(g, NodeCount)
    BY DEF KahnRun
  <2> HIDE DEF Step, R, a
  <2>2. 0 \in E
    <3>1. Body([k \in 0 .. 0 |-> a], 0) = [k \in 0 .. 0 |-> a]
      OBVIOUS
    <3> QED
      BY <3>1
  <2>3. ASSUME NEW n \in Nat, n \in E
        PROVE  n + 1 \in E
    <3>1. PICK g : g = Body(g, n)
      BY <2>3
    <3> DEFINE h == [k \in 0 .. n + 1 |-> IF k <= n THEN g[k] ELSE Step(g[n])]
    <3>2. h = Body(h, n + 1)
      BY <3>1
    <3> HIDE DEF h, Body
    <3>3. \E f : f = Body(f, n + 1)
      BY <3>2
    <3> QED
      BY <3>3
  <2>4. NodeCount \in E
    BY NodeCountAssumption, <2>2, <2>3, SetInduction
  <2> QED
    BY <2>1, <2>4
<1> HIDE DEF R, Step, a
<1>2. R[0] = a
  BY <1>1, NodeCountAssumption
<1>3. ASSUME NEW k \in 0 .. NodeCount - 1
      PROVE  R[k + 1] = Step(R[k])
  <2>1. k + 1 \in 0 .. NodeCount /\ k + 1 # 0 /\ (k + 1) - 1 = k
    BY NodeCountAssumption
  <2> QED
    BY <1>1, <2>1
<1> QED
  BY <1>2, <1>3 DEF R, Step, a

\* After k iterations k nodes are visited, or the queue has run dry before.
LEMMA KahnLoop ==
  ASSUME NEW plan \in [Nodes -> Seq(Nat)],
         NEW S \in SUBSET Nodes, \A n \in S : Needed(plan, n) \cap S # {}
  PROVE  \E V : /\ KahnState(plan, KahnRun(plan)[NodeCount], V)
                /\ V \cap S = {}
                /\ \/ KahnRun(plan)[NodeCount].queue = << >>
                   \/ KahnRun(plan)[NodeCount].visited = NodeCount
<1> DEFINE R == KahnRun(plan)
           T == {k \in 0 .. NodeCount :
                   /\ \E V : KahnState(plan, R[k], V) /\ V \cap S = {}
                   /\ R[k].queue = << >> \/ R[k].visited = k}
<1>0. /\ R[0] = KahnStart(plan)
      /\ \A k \in 0 .. NodeCount - 1 : R[k + 1] = KahnStep(plan, R[k])
  BY KahnRunUnfolds
<1> HIDE DEF R
<1>1. 0 \in T
  <2>1. KahnState(plan, R[0], {}) /\ R[0].visited = 0
    BY <1>0, KahnStarts
  <2> QED
    BY <2>1, NodeCountAssumption
<1>2. ASSUME NEW k \in 0 .. NodeCount - 1, k \in T
      PROVE  k + 1 \in T
  <2>0. k + 1 \in 0 .. NodeCount /\ R[k + 1] = KahnStep(plan, R[k])
    BY <1>0, NodeCountAssumption
  <2>1. PICK V : KahnState(plan, R[k], V) /\ V \cap S = {}
    BY <1>2
  <2>2. CASE R[k].queue = << >>
    <3>1. R[k + 1] = R[k]
      BY <2>0, <2>2 DEF KahnStep
    <3> QED
      BY <2>0, <2>1, <2>2, <3>1
  <2>3. CASE R[k].queue # << >>
    <3>1. /\ KahnState(plan, R[k + 1], V \cup {Head(R[k].queue)})
          /\ (V \cup {Head(R[k].queue)}) \cap S = {}
          /\ R[k + 1].visited = R[k].visited + 1
      <4> DEFINE s == R[k]
      <4>1. KahnState(plan, s, V) /\ V \cap S = {} /\ s.queue # << >>
        BY <2>1, <2>3
      <4> HIDE DEF s
      <4>2. /\ KahnState(plan, KahnStep(plan, s), V \cup {Head(s.queue)})
            /\ (V \cup {Head(s.queue)}) \cap S = {}
            /\ KahnStep(plan, s).visited = s.visited + 1
        BY <4>1, KahnSteps
      <4> QED
        BY <2>0, <4>2 DEF s
    <3>2. R[k].visited = k
      BY <1>2, <2>3
    <3> QED
      BY <2>0, <3>1, <3>2
  <2> QED
    BY <2>2, <2>3
<1>3. NodeCount \in T
  <2> HIDE DEF T
  <2>1. 0 .. NodeCount \subseteq T
    BY <1>1, <1>2, NodeCountAssumption, BoundedInduction
  <2> QED
    BY <2>1, NodeCountAssumption
<1> QED
  BY <1>3 DEF R

\* validatePlan() accepts a plan if and only if it names known nodes only and
\* nothing in it waits for itself (plan.ts:168-209).
THEOREM ValidIffWellFormed ==
  ASSUME NEW plan \in [Nodes -> Seq(Nat)]
  PROVE  ValidPlan(plan) <=> ~HasUnknownNeed(plan) /\ ~IsCyclic(plan)
<1> DEFINE s == KahnRun(plan)[NodeCount]
<1>1. ASSUME ValidPlan(plan), IsCyclic(plan)
      PROVE  FALSE
  <2>1. PICK S \in SUBSET Nodes : S # {} /\ \A n \in S : Needed(plan, n) \cap S # {}
    BY <1>1 DEF IsCyclic
  <2>2. PICK V : KahnState(plan, s, V) /\ V \cap S = {}
    BY <2>1, KahnLoop
  <2>3. V \in SUBSET Nodes /\ Cardinality(V) = NodeCount
    BY <1>1, <2>2 DEF KahnState, ValidPlan, KahnVisited
  <2>4. V = Nodes
    BY <2>3, NodesAreFinite
  <2> QED
    BY <2>1, <2>2, <2>4
<1>2. ASSUME ~HasUnknownNeed(plan), ~IsCyclic(plan)
      PROVE  KahnVisited(plan) = NodeCount
  <2>1. PICK V : /\ KahnState(plan, s, V)
                 /\ s.queue = << >> \/ s.visited = NodeCount
    <3>1. \A n \in {} : Needed(plan, n) \cap {} # {}
      OBVIOUS
    <3> QED
      BY <3>1, KahnLoop
  <2>2. SUFFICES ASSUME s.queue = << >>, V # Nodes
                 PROVE  FALSE
    <3>1. CASE V = Nodes
      <4>1. s.visited = Cardinality(Nodes) /\ Cardinality(1 .. NodeCount) = NodeCount
        BY <2>1, <3>1, NodeCountAssumption, FS_Interval DEF KahnState
      <4> QED
        BY <4>1 DEF KahnVisited, Nodes
    <3>2. CASE s.visited = NodeCount
      BY <3>2 DEF KahnVisited
    <3> QED
      BY <2>1, <2>2, <3>1, <3>2
  <2>3. V \in SUBSET Nodes /\ Nodes \ V # {}
    BY <2>1, <2>2 DEF KahnState
  <2>4. ASSUME NEW n \in Nodes \ V
        PROVE  Needed(plan, n) \cap (Nodes \ V) # {}
    <3>1. Queueable(s, V) = {}
      BY <2>1, <2>2 DEF KahnState, Lists
    <3>2. s.indegree[n] # 0
      BY <3>1 DEF Queueable
    <3>3. ~(Needed(plan, n) \subseteq V)
      BY <2>1, <3>2, ZeroMeansVisited
    <3>4. Needed(plan, n) \subseteq Nodes
      BY <1>2 DEF HasUnknownNeed
    <3> QED
      BY <3>3, <3>4
  <2> QED
    BY <1>2, <2>3, <2>4 DEF IsCyclic
<1> QED
  BY <1>1, <1>2 DEF ValidPlan

-----------------------------------------------------------------------------
(* The runner: a run and its parts. *)

\* Validation has let the plan through.
Sane == needs \in [Nodes -> Seq(Nodes)]

Unmet(r, n) == {i \in 1 .. Len(needs[n]) : r.status[needs[n][i]] # "success"}
Startable(r) == {n \in With(r, {"pending"}) : Unmet(r, n) = {}}

RawRun ==
  [status : [Nodes -> Statuses], skippedDueTo : [Nodes -> Nodes \cup {None, Sentinel}],
   remaining : [Nodes -> Nat], ready : Seq(Nodes), inFlight : Nat,
   aborted : BOOLEAN, firstFailure : Nodes \cup {None}, finishes : Nat, ok : BOOLEAN]

\* Everything but the ready queue.
Coherent(r) ==
  /\ r \in RawRun
  /\ \A n \in Nodes : r.remaining[n] = Cardinality(Unmet(r, n))
  /\ r.inFlight = Cardinality(With(r, {"running"})) /\ r.inFlight <= Concurrency
  /\ \A n \in With(r, {"running", "success", "failure"}) : Unmet(r, n) = {}

Consistent(r) == Coherent(r) /\ Lists(r.ready, Startable(r))

LEMMA ConcurrencyIsPositive == Concurrency \in Nat /\ Concurrency >= 1
BY ConcurrencyAssumption DEF Concurrency, AtLeastOne, Least

\* Unmet speaks of success alone.
LEMMA UnmetDependsOnSuccess ==
  ASSUME Sane, NEW r, NEW q,
         \A d \in Nodes : q.status[d] = "success" <=> r.status[d] = "success"
  PROVE  \A n \in Nodes : Unmet(q, n) = Unmet(r, n)
<1> TAKE n \in Nodes
<1>1. \A i \in 1 .. Len(needs[n]) : needs[n][i] \in Nodes
  BY DEF Sane
<1> QED
  BY <1>1 DEF Unmet

LEMMA UnmetIsNeeded ==
  ASSUME Sane, NEW r, NEW n \in Nodes
  PROVE  Unmet(r, n) = {} <=> \A d \in Needed(needs, n) : r.status[d] = "success"
BY DEF Unmet, Needed

-----------------------------------------------------------------------------
(* tryStartMore()'s loop *)

\* What starting nodes leaves alone.
Carried(r, q) ==
  /\ q.skippedDueTo = r.skippedDueTo /\ q.remaining = r.remaining
  /\ q.aborted = r.aborted /\ q.firstFailure = r.firstFailure
  /\ q.finishes = r.finishes /\ q.ok = r.ok

Started(r, q) ==
  /\ Carried(r, q)
  /\ \A n \in Nodes : \/ q.status[n] = r.status[n]
                      \/ r.status[n] = "pending" /\ q.status[n] = "running"

LEMMA StartHeadConsistent ==
  ASSUME Sane, NEW r, Consistent(r), CanStart(r)
  PROVE  LET q == StartHead(r)
         IN  /\ Consistent(q) /\ Started(r, q)
             /\ Len(q.ready) = Len(r.ready) - 1 /\ Len(r.ready) \in Nat
<1> DEFINE q == StartHead(r)
           n == Head(r.ready)
<1>1. /\ r \in RawRun
      /\ r.status \in [Nodes -> Statuses] /\ r.ready \in Seq(Nodes) /\ r.inFlight \in Nat
      /\ r.ready # << >> /\ r.inFlight < Concurrency
      /\ r.inFlight = Cardinality(With(r, {"running"}))
  BY DEF Consistent, Coherent, RawRun, CanStart
<1>2. /\ n \in Startable(r)
      /\ Tail(r.ready) \in Seq(Nodes) /\ Lists(Tail(r.ready), Startable(r) \ {n})
      /\ Len(r.ready) \in Nat /\ Len(Tail(r.ready)) = Len(r.ready) - 1
  <2> DEFINE s == r.ready
             L == Startable(r)
  <2>1. s \in Seq(Nodes) /\ Lists(s, L) /\ s # << >>
    BY <1>1 DEF Consistent
  <2> HIDE DEF s, L
  <2>2. /\ Head(s) \in L
        /\ Tail(s) \in Seq(Nodes) /\ Lists(Tail(s), L \ {Head(s)})
        /\ Len(s) \in Nat /\ Len(Tail(s)) = Len(s) - 1
    BY <2>1, ListsTail
  <2> QED
    BY <2>2 DEF s, L
<1>3. n \in Nodes /\ r.status[n] = "pending" /\ Unmet(r, n) = {}
  BY <1>2 DEF Startable, With
<1>4. /\ q.status = [r.status EXCEPT ![n] = "running"]
      /\ q.inFlight = r.inFlight + 1
      /\ q.ready = Tail(r.ready)
      /\ Carried(r, q)
      /\ q = [status |-> q.status, skippedDueTo |-> q.skippedDueTo,
              remaining |-> q.remaining, ready |-> q.ready, inFlight |-> q.inFlight,
              aborted |-> q.aborted, firstFailure |-> q.firstFailure,
              finishes |-> q.finishes, ok |-> q.ok]
  BY <1>1, <1>3 DEF StartHead, Carried, RawRun
<1> HIDE DEF q, n
<1>5. q \in RawRun
  <2>1. "running" \in Statuses
    BY DEF Statuses
  <2>3. q.status \in [Nodes -> Statuses]
    BY <1>1, <1>3, <1>4, <2>1
  <2>4. q.inFlight \in Nat /\ q.ready \in Seq(Nodes)
    BY <1>1, <1>2, <1>4
  <2>2. /\ q.skippedDueTo \in [Nodes -> Nodes \cup {None, Sentinel}]
        /\ q.remaining \in [Nodes -> Nat]
        /\ q.aborted \in BOOLEAN /\ q.firstFailure \in Nodes \cup {None}
        /\ q.finishes \in Nat /\ q.ok \in BOOLEAN
    BY <1>1, <1>4 DEF RawRun, Carried
  <2> QED
    BY <1>4, <2>2, <2>3, <2>4 DEF RawRun
<1>6. \A m \in Nodes : Unmet(q, m) = Unmet(r, m)
  <2>1. \A d \in Nodes : q.status[d] = "success" <=> r.status[d] = "success"
    BY <1>1, <1>3, <1>4
  <2> QED
    BY <2>1, UnmetDependsOnSuccess
<1>7. /\ With(q, {"running"}) = With(r, {"running"}) \cup {n}
      /\ n \notin With(r, {"running"})
      /\ With(q, {"pending"}) = With(r, {"pending"}) \ {n}
      /\ With(q, {"running", "success", "failure"}) =
           With(r, {"running", "success", "failure"}) \cup {n}
  BY <1>1, <1>3, <1>4 DEF With
<1>8. q.inFlight = Cardinality(With(q, {"running"})) /\ q.inFlight <= Concurrency
  <2>1. With(r, {"running"}) \in SUBSET Nodes
    BY DEF With
  <2>2. IsFiniteSet(With(r, {"running"}))
    BY <2>1, NodesAreFinite
  <2>3. Cardinality(With(q, {"running"})) = Cardinality(With(r, {"running"})) + 1
    BY <1>7, <2>2, FS_AddElement
  <2> QED
    BY <1>1, <1>4, <2>3, ConcurrencyIsPositive
<1>9. Startable(q) = Startable(r) \ {n}
  BY <1>6, <1>7 DEF Startable, With
<1>10. \A m \in With(q, {"running", "success", "failure"}) : Unmet(q, m) = {}
  <2>1. \A m \in With(r, {"running", "success", "failure"}) : m \in Nodes /\ Unmet(r, m) = {}
    BY DEF Consistent, Coherent, With
  <2> QED
    BY <1>3, <1>6, <1>7, <2>1
<1>11. \A m \in Nodes : q.remaining[m] = Cardinality(Unmet(q, m))
  BY <1>4, <1>6 DEF Consistent, Coherent, Carried
<1>12. Consistent(q)
  BY <1>2, <1>4, <1>5, <1>8, <1>9, <1>10, <1>11 DEF Consistent, Coherent
<1>13. Started(r, q)
  BY <1>1, <1>3, <1>4 DEF Started
<1> QED
  BY <1>2, <1>4, <1>12, <1>13 DEF q

LEMMA StartLoopUnfolds ==
  ASSUME NEW r, Len(r.ready) \in Nat
  PROVE  /\ StartLoop(r)[0] = r
         /\ \A k \in 0 .. Len(r.ready) - 1 :
              StartLoop(r)[k + 1] = StartIteration(StartLoop(r)[k])
<1> DEFINE N == Len(r.ready)
           Step(s) == StartIteration(s)
           Body(g, n) == [k \in 0 .. n |-> IF k = 0 THEN r ELSE Step(g[k - 1])]
           E == {n \in Nat : \E g : g = Body(g, n)}
           R == StartLoop(r)
<1>1. R = Body(R, N)
  <2>1. R = CHOOSE g : g = Body(g, N)
    BY DEF StartLoop
  <2> HIDE DEF Step, R
  <2>2. 0 \in E
    <3>1. Body([k \in 0 .. 0 |-> r], 0) = [k \in 0 .. 0 |-> r]
      OBVIOUS
    <3> QED
      BY <3>1
  <2>3. ASSUME NEW n \in Nat, n \in E
        PROVE  n + 1 \in E
    <3>1. PICK g : g = Body(g, n)
      BY <2>3
    <3> DEFINE h == [k \in 0 .. n + 1 |-> IF k <= n THEN g[k] ELSE Step(g[n])]
    <3>2. h = Body(h, n + 1)
      BY <3>1
    <3> HIDE DEF h, Body
    <3>3. \E f : f = Body(f, n + 1)
      BY <3>2
    <3> QED
      BY <3>3
  <2>4. N \in E
    BY <2>2, <2>3, SetInduction
  <2> QED
    BY <2>1, <2>4
<1> HIDE DEF R, Step
<1>2. R[0] = r
  BY <1>1
<1>3. ASSUME NEW k \in 0 .. N - 1
      PROVE  R[k + 1] = Step(R[k])
  <2>1. k + 1 \in 0 .. N /\ k + 1 # 0 /\ (k + 1) - 1 = k
    OBVIOUS
  <2> QED
    BY <1>1, <2>1
<1> QED
  BY <1>2, <1>3 DEF R, Step

LEMMA StartedTransitive ==
  ASSUME NEW r, NEW p, NEW q, Started(r, p), Started(p, q)
  PROVE  Started(r, q)
BY DEF Started, Carried

\* The loop starts pending nodes until the slots or the ready queue are used up.
LEMMA StartAllConsistent ==
  ASSUME Sane, NEW r, Consistent(r)
  PROVE  Consistent(StartAll(r)) /\ Started(r, StartAll(r)) /\ ~CanStart(StartAll(r))
<1> DEFINE R == StartLoop(r)
           N == Len(r.ready)
           Good(q) == Consistent(q) /\ Started(r, q)
           T == {k \in 0 .. N : Good(R[k]) /\ (Len(R[k].ready) = N - k \/ ~CanStart(R[k]))}
<1>1. N \in Nat
  BY DEF Consistent, Coherent, RawRun
<1>2. R[0] = r /\ \A k \in 0 .. N - 1 : R[k + 1] = StartIteration(R[k])
  BY <1>1, StartLoopUnfolds
<1> HIDE DEF R
<1>3. 0 \in T
  BY <1>1, <1>2 DEF Started, Carried
<1>4. ASSUME NEW k \in 0 .. N - 1, k \in T
      PROVE  k + 1 \in T
  <2> DEFINE p == R[k]
             q == R[k + 1]
  <2>0. k + 1 \in 0 .. N /\ q = StartIteration(p) /\ Good(p)
    BY <1>1, <1>2, <1>4
  <2>1. CASE ~CanStart(p)
    <3>1. q = p
      BY <2>0, <2>1 DEF StartIteration
    <3> HIDE DEF q, p
    <3> QED
      BY <2>0, <2>1, <3>1 DEF q
  <2>2. CASE CanStart(p)
    <3>1. q = StartHead(p) /\ Len(p.ready) = N - k
      BY <1>4, <2>0, <2>2 DEF StartIteration
    <3> HIDE DEF p, q
    <3>2. Consistent(q) /\ Started(p, q) /\ Len(q.ready) = Len(p.ready) - 1
      BY <2>0, <2>2, <3>1, StartHeadConsistent
    <3>3. Good(q) /\ Len(q.ready) = N - (k + 1)
      BY <1>1, <2>0, <3>1, <3>2, StartedTransitive
    <3> HIDE DEF Good
    <3> QED
      BY <2>0, <3>3 DEF q
  <2> QED
    BY <2>1, <2>2
<1>5. N \in T
  <2> HIDE DEF T, N
  <2>1. 0 .. N \subseteq T
    BY <1>1, <1>3, <1>4, BoundedInduction
  <2> QED
    BY <1>1, <2>1
<1> DEFINE q == R[N]
<1>6. Good(q) /\ (Len(q.ready) = 0 \/ ~CanStart(q))
  BY <1>1, <1>5
<1>7. StartAll(r) = q
  BY DEF StartAll, R
<1> HIDE DEF q
<1>8. Len(q.ready) = 0 => ~CanStart(q)
  <2>1. q.ready \in Seq(Nodes)
    BY <1>6 DEF Consistent, Coherent, RawRun
  <2> QED
    BY <2>1 DEF CanStart
<1> QED
  BY <1>6, <1>7, <1>8

-----------------------------------------------------------------------------
(* finish() and tryStartMore() *)

Poisoned(r) ==
  With(r, {"skipped"}) =
    {n \in Nodes : \E d \in Needed(needs, n) \cap Nodes : r.status[d] \in {"failure", "skipped"}}

\* What the failures seen so far have done to the rest of the plan.
Marked(r) ==
  /\ r.aborted => mode = "fail-fast" /\ With(r, {"failure"}) # {}
  /\ ~r.aborted => Poisoned(r) /\ (mode = "fail-fast" => With(r, {"failure"}) = {})

\* The run as the call and the callbacks leave it.
Settled(r) ==
  /\ Coherent(r) /\ Marked(r)
  /\ ~r.aborted => ~CanStart(r)
  /\ r.finishes \in {0, 1}
  /\ r.finishes = 0 => r.inFlight > 0 /\ Lists(r.ready, Startable(r))
  /\ r.finishes = 1 => /\ With(r, {"pending", "running"}) = {}
                       /\ r.ok <=> With(r, {"failure"}) = {}

\* What tryStartMore() may do to a status.
Onward(r, q) ==
  /\ q.aborted = r.aborted
  /\ \A n \in Nodes :
       \/ q.status[n] = r.status[n]
       \/ r.status[n] = "pending" /\ q.status[n] = "skipped"
       \/ r.status[n] = "pending" /\ q.status[n] = "running" /\ ~r.aborted

\* A node left pending by a run that has stopped waits for another such node:
\* without a cycle there is none.
LEMMA NobodyIsLeftWaiting ==
  ASSUME Sane, ~IsCyclic(needs), NEW r, Coherent(r), Poisoned(r),
         With(r, {"running"}) = {}, Startable(r) = {}
  PROVE  With(r, {"pending"}) = {}
<1> DEFINE S == With(r, {"pending"})
<1>1. ASSUME NEW n \in S
      PROVE  Needed(needs, n) \cap S # {}
  <2>1. n \in Nodes /\ r.status[n] = "pending" /\ n \notin With(r, {"skipped"})
    BY DEF With
  <2>2. Unmet(r, n) # {}
    BY <2>1 DEF Startable
  <2>3. PICK d \in Needed(needs, n) : r.status[d] # "success"
    BY <2>1, <2>2, UnmetIsNeeded
  <2>4. d \in Nodes
    BY <2>1 DEF Sane, Needed
  <2>5. r.status[d] \in Statuses
    BY <2>4 DEF Coherent, RawRun
  <2>6. r.status[d] \notin {"failure", "skipped"}
    BY <2>1, <2>4 DEF Poisoned
  <2>7. r.status[d] # "running"
    BY <2>4 DEF With
  <2>8. r.status[d] = "pending"
    BY <2>3, <2>5, <2>6, <2>7 DEF Statuses
  <2> QED
    BY <2>4, <2>8 DEF With
<1>2. S \in SUBSET Nodes
  BY DEF With
<1> QED
  BY <1>1, <1>2 DEF IsCyclic

LEMMA FinishSettles ==
  ASSUME Sane, ~IsCyclic(needs), NEW r, Consistent(r), Marked(r),
         r.finishes = 0, r.inFlight = 0, r.aborted \/ r.ready = << >>
  PROVE  Settled(Finish(r)) /\ Onward(r, Finish(r))
<1> DEFINE q == Finish(r)
<1>1. /\ r \in RawRun /\ r.status \in [Nodes -> Statuses] /\ r.finishes \in Nat
      /\ r.skippedDueTo \in [Nodes -> Nodes \cup {None, Sentinel}]
      /\ r.firstFailure \in Nodes \cup {None}
  BY DEF Consistent, Coherent, RawRun
<1>2. /\ q.status = [n \in Nodes |-> IF r.status[n] = "pending" THEN "skipped"
                                     ELSE r.status[n]]
      /\ q.skippedDueTo = [n \in Nodes |-> IF r.status[n] = "pending"
                                           THEN AbortReason(r) ELSE r.skippedDueTo[n]]
      /\ q.remaining = r.remaining /\ q.ready = r.ready /\ q.inFlight = r.inFlight
      /\ q.aborted = r.aborted /\ q.firstFailure = r.firstFailure
      /\ q.finishes = 1 /\ q.ok \in BOOLEAN
      /\ q.ok <=> With(r, {"failure"}) = {}
      /\ q = [status |-> q.status, skippedDueTo |-> q.skippedDueTo,
              remaining |-> q.remaining, ready |-> q.ready, inFlight |-> q.inFlight,
              aborted |-> q.aborted, firstFailure |-> q.firstFailure,
              finishes |-> q.finishes, ok |-> q.ok]
  <2> DEFINE st == [n \in Nodes |-> IF r.status[n] = "pending" THEN "skipped" ELSE r.status[n]]
             sk == [n \in Nodes |-> IF r.status[n] = "pending"
                                    THEN AbortReason(r) ELSE r.skippedDueTo[n]]
             ok == With(r, {"failure"}) = {}
  <2>1. q = [r EXCEPT !.status = st, !.skippedDueTo = sk, !.finishes = @ + 1, !.ok = ok]
    BY DEF Finish
  <2>2. ok \in BOOLEAN
    OBVIOUS
  <2> HIDE DEF st, sk, ok, q
  <2>3. /\ q.status = st /\ q.skippedDueTo = sk
        /\ q.remaining = r.remaining /\ q.ready = r.ready /\ q.inFlight = r.inFlight
        /\ q.aborted = r.aborted /\ q.firstFailure = r.firstFailure
        /\ q.finishes = 1
    BY <1>1, <2>1 DEF RawRun
  <2>4. q.ok = ok
    BY <1>1, <2>1 DEF RawRun
  <2>5. q = [status |-> q.status, skippedDueTo |-> q.skippedDueTo,
             remaining |-> q.remaining, ready |-> q.ready, inFlight |-> q.inFlight,
             aborted |-> q.aborted, firstFailure |-> q.firstFailure,
             finishes |-> q.finishes, ok |-> q.ok]
    BY <1>1, <2>1 DEF RawRun
  <2>6. q.ok \in BOOLEAN /\ (q.ok <=> ok)
    BY <2>2, <2>4
  <2> QED
    BY <2>3, <2>5, <2>6 DEF st, sk, ok
<1> HIDE DEF q
<1>3. q \in RawRun
  <2>1. "skipped" \in Statuses /\ AbortReason(r) \in Nodes \cup {None, Sentinel}
    BY <1>1 DEF Statuses, AbortReason
  <2>2. q.status \in [Nodes -> Statuses]
    BY <1>1, <1>2, <2>1
  <2>3. q.skippedDueTo \in [Nodes -> Nodes \cup {None, Sentinel}]
    BY <1>1, <1>2, <2>1
  <2>4. /\ q.remaining \in [Nodes -> Nat] /\ q.ready \in Seq(Nodes) /\ q.inFlight \in Nat
        /\ q.aborted \in BOOLEAN /\ q.firstFailure \in Nodes \cup {None}
    BY <1>1, <1>2 DEF RawRun
  <2>5. q.finishes \in Nat /\ q.ok \in BOOLEAN
    BY <1>2
  <2> QED
    BY <1>2, <2>2, <2>3, <2>4, <2>5 DEF RawRun
<1>4. \A m \in Nodes : Unmet(q, m) = Unmet(r, m)
  <2>1. \A d \in Nodes : q.status[d] = "success" <=> r.status[d] = "success"
    BY <1>1, <1>2
  <2> QED
    BY <2>1, UnmetDependsOnSuccess
<1>5. /\ With(q, {"running"}) = With(r, {"running"})
      /\ With(q, {"failure"}) = With(r, {"failure"})
      /\ With(q, {"running", "success", "failure"}) =
           With(r, {"running", "success", "failure"})
      /\ With(q, {"pending"}) = {}
  BY <1>1, <1>2 DEF With
<1>6. With(r, {"running"}) = {}
  <2>1. With(r, {"running"}) \in SUBSET Nodes
    BY DEF With
  <2>2. IsFiniteSet(With(r, {"running"})) /\ Cardinality(With(r, {"running"})) = 0
    BY <2>1, NodesAreFinite DEF Consistent, Coherent
  <2> QED
    BY <2>2, FS_EmptySet
<1>7. Coherent(q)
  <2>1. \A n \in With(r, {"running", "success", "failure"}) : n \in Nodes /\ Unmet(r, n) = {}
    BY DEF Consistent, Coherent, With
  <2>2. \A n \in With(q, {"running", "success", "failure"}) : Unmet(q, n) = {}
    BY <1>4, <1>5, <2>1
  <2>3. \A n \in Nodes : q.remaining[n] = Cardinality(Unmet(q, n))
    BY <1>2, <1>4 DEF Consistent, Coherent
  <2>4. q.inFlight = Cardinality(With(q, {"running"})) /\ q.inFlight <= Concurrency
    BY <1>2, <1>5 DEF Consistent, Coherent
  <2> QED
    BY <1>3, <2>2, <2>3, <2>4 DEF Coherent
<1>8. ~r.aborted => q.status = r.status
  <2> HAVE ~r.aborted
  <2>1. Startable(r) = {}
    BY DEF Consistent, Lists
  <2>2. With(r, {"pending"}) = {}
    BY <1>6, <2>1, NobodyIsLeftWaiting DEF Marked, Consistent
  <2>3. \A n \in Nodes : r.status[n] # "pending"
    BY <2>2 DEF With
  <2> QED
    BY <1>1, <1>2, <2>3
<1>9. Marked(q)
  BY <1>2, <1>5, <1>8 DEF Marked, Poisoned, With
<1>10. With(q, {"pending", "running"}) = {}
  BY <1>5, <1>6 DEF With
<1>11. ~q.aborted => ~CanStart(q)
  BY <1>2 DEF CanStart
<1>12. Settled(q)
  BY <1>2, <1>5, <1>7, <1>9, <1>10, <1>11 DEF Settled
<1>13. Onward(r, q)
  BY <1>1, <1>2 DEF Onward
<1> QED
  BY <1>12, <1>13 DEF q

LEMMA TryStartMoreSettles ==
  ASSUME Sane, ~IsCyclic(needs), NEW r, Consistent(r), Marked(r), r.finishes = 0
  PROVE  Settled(TryStartMore(r)) /\ Onward(r, TryStartMore(r))
<1>1. CASE r.aborted
  <2>1. CASE r.inFlight = 0
    BY <1>1, <2>1, FinishSettles DEF TryStartMore, FinishIf
  <2>2. CASE r.inFlight # 0
    <3>1. TryStartMore(r) = r
      BY <1>1, <2>2 DEF TryStartMore, FinishIf
    <3>2. r.inFlight > 0
      BY <2>2 DEF Consistent, Coherent, RawRun
    <3>3. Settled(r)
      BY <1>1, <3>2 DEF Settled, Consistent
    <3>4. Onward(r, r)
      BY DEF Onward
    <3> QED
      BY <3>1, <3>3, <3>4
  <2> QED
    BY <2>1, <2>2
<1>2. CASE ~r.aborted
  <2> DEFINE p == StartAll(r)
  <2>1. TryStartMore(r) = FinishIf(p.inFlight = 0 /\ p.ready = << >>, p)
    BY <1>2 DEF TryStartMore
  <2>2. Consistent(p) /\ Started(r, p) /\ ~CanStart(p)
    BY StartAllConsistent
  <2> HIDE DEF p
  <2>3. /\ p.aborted = r.aborted /\ p.finishes = 0
        /\ \A n \in Nodes : \/ p.status[n] = r.status[n]
                            \/ r.status[n] = "pending" /\ p.status[n] = "running"
    BY <2>2 DEF Started, Carried
  <2>4. /\ With(p, {"failure"}) = With(r, {"failure"})
        /\ With(p, {"skipped"}) = With(r, {"skipped"})
        /\ \A d \in Nodes : p.status[d] \in {"failure", "skipped"}
                              <=> r.status[d] \in {"failure", "skipped"}
    BY <2>3 DEF With
  <2>5. Poisoned(p)
    BY <1>2, <2>4 DEF Marked, Poisoned
  <2>6. Marked(p)
    BY <1>2, <2>3, <2>4, <2>5 DEF Marked
  <2>7. Onward(r, p)
    BY <1>2, <2>3 DEF Onward
  <2>8. CASE p.inFlight = 0 /\ p.ready = << >>
    <3> DEFINE q == Finish(p)
    <3>1. Settled(q) /\ Onward(p, q)
      BY <2>2, <2>3, <2>6, <2>8, FinishSettles
    <3> HIDE DEF q
    <3>2. Onward(r, q)
      BY <1>2, <2>3, <3>1 DEF Onward
    <3> QED
      BY <2>1, <2>8, <3>1, <3>2 DEF FinishIf, q
  <2>9. CASE ~(p.inFlight = 0 /\ p.ready = << >>)
    <3>1. TryStartMore(r) = p
      BY <2>1, <2>9 DEF FinishIf
    <3>2. p.inFlight \in Nat
      BY <2>2 DEF Consistent, Coherent, RawRun
    <3>3. p.inFlight > 0
      BY <2>2, <2>9, <3>2, ConcurrencyIsPositive DEF CanStart
    <3>4. Settled(p)
      BY <2>2, <2>3, <2>6, <3>3 DEF Settled, Consistent
    <3> QED
      BY <2>7, <3>1, <3>4
  <2> QED
    BY <2>8, <2>9
<1> QED
  BY <1>1, <1>2

-----------------------------------------------------------------------------
(* The first wave *)

LEMMA FreshConsistent ==
  ASSUME Sane
  PROVE  Consistent(Fresh) /\ Marked(Fresh) /\ Fresh.finishes = 0
<1> DEFINE q == Fresh
<1>1. /\ q.status = [n \in Nodes |-> "pending"]
      /\ q.skippedDueTo = [n \in Nodes |-> None]
      /\ q.remaining = [n \in Nodes |-> Len(needs[n])]
      /\ q.ready = Roots(needs) /\ q.inFlight = 0 /\ q.aborted = FALSE
      /\ q.firstFailure = None /\ q.finishes = 0 /\ q.ok = FALSE
      /\ q = [status |-> q.status, skippedDueTo |-> q.skippedDueTo,
              remaining |-> q.remaining, ready |-> q.ready, inFlight |-> q.inFlight,
              aborted |-> q.aborted, firstFailure |-> q.firstFailure,
              finishes |-> q.finishes, ok |-> q.ok]
  BY DEF Fresh
<1> HIDE DEF q
<1> DEFINE First == {n \in Nodes : needs[n] = << >>}
<1>2. q.ready \in Seq(Nodes) /\ Lists(q.ready, First)
  <2>1. First \cap Nodes = First
    OBVIOUS
  <2> HIDE DEF First
  <2>2. q.ready = InOrder(First)
    BY <1>1 DEF Roots, First
  <2> QED
    BY <2>1, <2>2, InOrderLists
<1>3. \A n \in Nodes : Len(needs[n]) \in Nat /\ (needs[n] = << >> <=> Len(needs[n]) = 0)
  BY DEF Sane
<1>4. q \in RawRun
  <2>1. "pending" \in Statuses
    BY DEF Statuses
  <2>2. q.status \in [Nodes -> Statuses]
    BY <1>1, <2>1
  <2>3. q.remaining \in [Nodes -> Nat]
    BY <1>1, <1>3
  <2>4. q.skippedDueTo \in [Nodes -> Nodes \cup {None, Sentinel}]
    BY <1>1
  <2>5. q.inFlight \in Nat /\ q.firstFailure \in Nodes \cup {None} /\ q.finishes \in Nat
    BY <1>1
  <2>7. q.aborted \in BOOLEAN /\ q.ok \in BOOLEAN
    BY <1>1
  <2>6. q = [status |-> q.status, skippedDueTo |-> q.skippedDueTo,
             remaining |-> q.remaining, ready |-> q.ready, inFlight |-> q.inFlight,
             aborted |-> q.aborted, firstFailure |-> q.firstFailure,
             finishes |-> q.finishes, ok |-> q.ok]
    BY <1>1
  <2> QED
    BY <1>2, <2>2, <2>3, <2>4, <2>5, <2>6, <2>7 DEF RawRun
<1>5. \A n \in Nodes : q.status[n] = "pending"
  BY <1>1
<1>6. \A n \in Nodes : Unmet(q, n) = 1 .. Len(needs[n])
  <2>1. \A n \in Nodes : \A i \in 1 .. Len(needs[n]) : needs[n][i] \in Nodes
    BY DEF Sane
  <2> QED
    BY <1>5, <2>1 DEF Unmet
<1>7. \A n \in Nodes : q.remaining[n] = Cardinality(Unmet(q, n))
  <2>1. \A m \in Nat : Cardinality(1 .. m) = m
    BY FS_Interval
  <2>2. \A n \in Nodes : q.remaining[n] = Len(needs[n])
    BY <1>1
  <2> QED
    BY <1>3, <1>6, <2>1, <2>2
<1>8. /\ With(q, {"running"}) = {} /\ With(q, {"failure"}) = {} /\ With(q, {"skipped"}) = {}
      /\ With(q, {"running", "success", "failure"}) = {} /\ With(q, {"pending"}) = Nodes
  BY <1>5 DEF With
<1>9. Startable(q) = First
  <2>1. \A m \in Nat : 1 .. m = {} <=> m = 0
    OBVIOUS
  <2>2. \A n \in Nodes : Unmet(q, n) = {} <=> needs[n] = << >>
    BY <1>3, <1>6, <2>1
  <2> QED
    BY <1>8, <2>2 DEF Startable
<1>10. q.inFlight = Cardinality(With(q, {"running"})) /\ q.inFlight <= Concurrency
  <2>1. IsFiniteSet({})
    BY FS_EmptySet
  <2>2. Cardinality({}) = 0
    BY <2>1, FS_EmptySet
  <2>3. Cardinality(With(q, {"running"})) = 0
    BY <1>8, <2>2
  <2> QED
    BY <1>1, <2>3, ConcurrencyIsPositive
<1>11. Coherent(q)
  BY <1>4, <1>7, <1>8, <1>10 DEF Coherent
<1>12. Poisoned(q)
  BY <1>5, <1>8 DEF Poisoned
<1>13. Marked(q)
  BY <1>1, <1>8, <1>12 DEF Marked
<1> HIDE DEF First
<1> QED
  BY <1>1, <1>2, <1>9, <1>11, <1>13 DEF Consistent, q

-----------------------------------------------------------------------------
(* The callbacks, up to tryStartMore() *)

\* Removing from the running nodes one that settles.
LEMMA OneFewerRuns ==
  ASSUME NEW r, Coherent(r), NEW n \in With(r, {"running"})
  PROVE  /\ Cardinality(With(r, {"running"}) \ {n}) = r.inFlight - 1
         /\ r.inFlight - 1 \in Nat /\ r.inFlight - 1 <= Concurrency
<1> DEFINE S == With(r, {"running"})
<1>1. S \in SUBSET Nodes /\ S \ {n} \in SUBSET Nodes
  BY DEF With
<1>2. IsFiniteSet(S) /\ Cardinality(S \ {n}) \in Nat
  BY <1>1, NodesAreFinite
<1>3. Cardinality(S \ {n}) = Cardinality(S) - 1
  BY <1>2, FS_RemoveElement
<1>4. r.inFlight = Cardinality(S) /\ r.inFlight <= Concurrency /\ r.inFlight \in Nat
  BY DEF Coherent, RawRun
<1> QED
  BY <1>2, <1>3, <1>4, ConcurrencyIsPositive

\* What becomes of the unmet needs when n succeeds.
LEMMA SuccessMeetsNeeds ==
  ASSUME Sane, NEW r, Coherent(r), NEW n \in With(r, {"running"}),
         NEW q, \A d \in Nodes \ {n} : q.status[d] = "success" <=> r.status[d] = "success",
         q.status[n] = "success", NEW m \in Nodes
  PROVE  /\ Left(r, n)[m] = Cardinality(Unmet(q, m))
         /\ Unmet(q, m) \subseteq Unmet(r, m)
         /\ Unmet(q, m) = {} <=> Left(r, n)[m] = 0
         /\ n \in Needed(needs, m) => Unmet(r, m) # {}
         /\ n \notin Needed(needs, m) => Unmet(q, m) = Unmet(r, m)
         /\ Left(r, n)[m] \in Nat
<1> DEFINE I == 1 .. Len(needs[m])
           A == Unmet(r, m)
           D == {i \in I : needs[m][i] = n}
           B == Unmet(q, m)
<1>1. /\ Len(needs[m]) \in Nat
      /\ \A i \in I : needs[m][i] \in Nodes
      /\ n \in Nodes /\ r.status[n] = "running"
  BY DEF Sane, With
<1>2. A \in SUBSET I /\ D \in SUBSET A /\ B = A \ D /\ B \in SUBSET I
  BY <1>1 DEF Unmet
<1>3. D = {} <=> n \notin Needed(needs, m)
  BY DEF Needed
<1>4. Edges(needs, n, m) = Cardinality(D) /\ r.remaining[m] = Cardinality(A)
  BY DEF Edges, Coherent
<1>5. Left(r, n)[m] = r.remaining[m] - Edges(needs, n, m)
  BY DEF Left
<1> HIDE DEF A, D, B
<1>6. Cardinality(B) \in Nat /\ (Cardinality(B) = 0 <=> B = {})
  BY <1>1, <1>2, PositionsAreFinite
<1>7. IsFiniteSet(A) /\ A \cap D = D
  BY <1>1, <1>2, PositionsAreFinite
<1>8. Cardinality(A \ D) = Cardinality(A) - Cardinality(D)
  BY <1>7, FS_Difference
<1>9. Left(r, n)[m] = Cardinality(B)
  BY <1>2, <1>4, <1>5, <1>8
<1> QED
  BY <1>2, <1>3, <1>6, <1>9 DEF A, B

\* The run that the callback of a node which succeeded hands to tryStartMore().
Succeeded(r, n) ==
  [r EXCEPT !.status[n] = "success", !.inFlight = @ - 1, !.remaining = Left(r, n),
            !.ready = @ \o InOrder(Freed(r, n))]

LEMMA SucceededConsistent ==
  ASSUME Sane, NEW r, Consistent(r), Marked(r), NEW n \in With(r, {"running"})
  PROVE  LET q == Succeeded(r, n)
         IN  /\ Consistent(q) /\ Marked(q)
             /\ q.status = [r.status EXCEPT ![n] = "success"]
             /\ q.aborted = r.aborted /\ q.finishes = r.finishes
<1> DEFINE q == Succeeded(r, n)
<1>1. /\ r \in RawRun /\ Coherent(r) /\ r.status \in [Nodes -> Statuses]
      /\ n \in Nodes /\ r.status[n] = "running"
      /\ r.ready \in Seq(Nodes) /\ Lists(r.ready, Startable(r))
  BY DEF Consistent, Coherent, RawRun, With
<1>2. /\ q.status = [r.status EXCEPT ![n] = "success"]
      /\ q.inFlight = r.inFlight - 1
      /\ q.remaining = Left(r, n)
      /\ q.ready = r.ready \o InOrder(Freed(r, n))
      /\ q.skippedDueTo = r.skippedDueTo /\ q.aborted = r.aborted
      /\ q.firstFailure = r.firstFailure /\ q.finishes = r.finishes /\ q.ok = r.ok
      /\ q = [status |-> q.status, skippedDueTo |-> q.skippedDueTo,
              remaining |-> q.remaining, ready |-> q.ready, inFlight |-> q.inFlight,
              aborted |-> q.aborted, firstFailure |-> q.firstFailure,
              finishes |-> q.finishes, ok |-> q.ok]
  <2> DEFINE rem == Left(r, n)
             rdy == r.ready \o InOrder(Freed(r, n))
  <2>1. q = [r EXCEPT !.status[n] = "success", !.inFlight = @ - 1,
                      !.remaining = rem, !.ready = rdy]
    BY DEF Succeeded
  <2> HIDE DEF rem, rdy, q
  <2>2. /\ q.status = [r.status EXCEPT ![n] = "success"]
        /\ q.inFlight = r.inFlight - 1
    BY <1>1, <2>1 DEF RawRun
  <2>3. q.remaining = rem /\ q.ready = rdy
    BY <1>1, <2>1 DEF RawRun
  <2>4. /\ q.skippedDueTo = r.skippedDueTo /\ q.aborted = r.aborted
        /\ q.firstFailure = r.firstFailure /\ q.finishes = r.finishes /\ q.ok = r.ok
    BY <1>1, <2>1 DEF RawRun
  <2>9. q = [status |-> q.status, skippedDueTo |-> q.skippedDueTo,
             remaining |-> q.remaining, ready |-> q.ready, inFlight |-> q.inFlight,
             aborted |-> q.aborted, firstFailure |-> q.firstFailure,
             finishes |-> q.finishes, ok |-> q.ok]
    BY <1>1, <2>1 DEF RawRun
  <2> QED
    BY <2>2, <2>3, <2>4, <2>9 DEF rem, rdy
<1> HIDE DEF q
<1>3. /\ q.status[n] = "success"
      /\ \A d \in Nodes \ {n} : q.status[d] = r.status[d]
  BY <1>1, <1>2
<1>4. \A m \in Nodes :
        /\ Left(r, n)[m] = Cardinality(Unmet(q, m))
        /\ Unmet(q, m) \subseteq Unmet(r, m)
        /\ Unmet(q, m) = {} <=> Left(r, n)[m] = 0
        /\ n \in Needed(needs, m) => Unmet(r, m) # {}
        /\ n \notin Needed(needs, m) => Unmet(q, m) = Unmet(r, m)
        /\ Left(r, n)[m] \in Nat
  BY <1>1, <1>3, SuccessMeetsNeeds
<1>5. /\ With(q, {"running"}) = With(r, {"running"}) \ {n}
      /\ With(q, {"pending"}) = With(r, {"pending"})
      /\ With(q, {"failure"}) = With(r, {"failure"})
      /\ With(q, {"skipped"}) = With(r, {"skipped"})
      /\ With(q, {"running", "success", "failure"}) =
           With(r, {"running", "success", "failure"})
      /\ \A d \in Nodes : q.status[d] \in {"failure", "skipped"}
                            <=> r.status[d] \in {"failure", "skipped"}
  BY <1>1, <1>3 DEF With
<1>6. /\ Startable(q) = Startable(r) \cup Freed(r, n)
      /\ Startable(r) \cap Freed(r, n) = {}
      /\ Freed(r, n) \cap Nodes = Freed(r, n)
  <2>1. ASSUME NEW m
        PROVE  m \in Startable(q) <=> m \in Startable(r) \/ m \in Freed(r, n)
    <3>1. m \in With(r, {"pending"}) <=> m \in Nodes /\ r.status[m] = "pending"
      BY DEF With
    <3>2. m \in Nodes =>
            /\ m \in Startable(q) <=> r.status[m] = "pending" /\ Unmet(q, m) = {}
            /\ m \in Startable(r) <=> r.status[m] = "pending" /\ Unmet(r, m) = {}
            /\ m \in Freed(r, n) <=> /\ n \in Needed(needs, m) /\ Unmet(q, m) = {}
                                     /\ r.status[m] = "pending"
      BY <1>4, <1>5, <3>1 DEF Startable, Freed
    <3>3. m \notin Nodes => m \notin Startable(q) /\ m \notin Startable(r) /\ m \notin Freed(r, n)
      BY <1>5, <3>1 DEF Startable, Freed
    <3>4. m \in Nodes => /\ n \notin Needed(needs, m) => Unmet(q, m) = Unmet(r, m)
                         /\ Unmet(r, m) = {} => Unmet(q, m) = {}
      BY <1>4
    <3> QED
      BY <3>2, <3>3, <3>4
  <2>2. Startable(r) \cap Freed(r, n) = {}
    BY <1>4 DEF Startable, Freed
  <2>3. Freed(r, n) \subseteq Nodes
    BY DEF Freed
  <2> QED
    BY <2>1, <2>2, <2>3
<1>7. q.ready \in Seq(Nodes) /\ Lists(q.ready, Startable(q))
  <2> DEFINE s == r.ready
             t == InOrder(Freed(r, n))
             L == Startable(r)
             M == Freed(r, n)
  <2>1. t \in Seq(Nodes) /\ Lists(t, M)
    BY <1>6, InOrderLists
  <2>2. s \in Seq(Nodes) /\ Lists(s, L) /\ L \cap M = {}
    BY <1>1, <1>6
  <2>3. q.ready = s \o t /\ Startable(q) = L \cup M
    BY <1>2, <1>6
  <2> HIDE DEF s, t, L, M
  <2> QED
    BY <2>1, <2>2, <2>3, ListsConcat
<1>8. /\ Cardinality(With(r, {"running"}) \ {n}) = q.inFlight
      /\ q.inFlight \in Nat /\ q.inFlight <= Concurrency
  BY <1>1, <1>2, OneFewerRuns
<1>9. q \in RawRun
  <2>1. "success" \in Statuses
    BY DEF Statuses
  <2>2. q.status \in [Nodes -> Statuses]
    BY <1>1, <1>2, <2>1
  <2>3. q.remaining \in [Nodes -> Nat]
    <3>1. q.remaining = [m \in Nodes |-> r.remaining[m] - Edges(needs, n, m)]
      BY <1>2 DEF Left
    <3>2. \A m \in Nodes : r.remaining[m] - Edges(needs, n, m) \in Nat
      BY <1>4 DEF Left
    <3> QED
      BY <3>1, <3>2
  <2>4. /\ q.skippedDueTo \in [Nodes -> Nodes \cup {None, Sentinel}]
        /\ q.aborted \in BOOLEAN /\ q.firstFailure \in Nodes \cup {None}
        /\ q.finishes \in Nat /\ q.ok \in BOOLEAN
    BY <1>1, <1>2 DEF RawRun
  <2> QED
    BY <1>2, <1>7, <1>8, <2>2, <2>3, <2>4 DEF RawRun
<1>10. \A m \in With(q, {"running", "success", "failure"}) : Unmet(q, m) = {}
  <2>1. \A m \in With(r, {"running", "success", "failure"}) : m \in Nodes /\ Unmet(r, m) = {}
    BY <1>1 DEF Coherent, With
  <2> QED
    BY <1>4, <1>5, <2>1
<1>11. \A m \in Nodes : q.remaining[m] = Cardinality(Unmet(q, m))
  BY <1>2, <1>4
<1>12. Consistent(q)
  BY <1>5, <1>7, <1>8, <1>9, <1>10, <1>11 DEF Consistent, Coherent
<1>13. Poisoned(r) => Poisoned(q)
  BY <1>5 DEF Poisoned
<1>14. Marked(q)
  BY <1>2, <1>5, <1>13 DEF Marked
<1> QED
  BY <1>2, <1>12, <1>14 DEF q

\* The same for a node that failed, before the failure mode is looked at.
LEMMA FailedConsistent ==
  ASSUME Sane, NEW r, Consistent(r), NEW n \in With(r, {"running"})
  PROVE  LET q == Failed(r, n)
         IN  /\ Consistent(q)
             /\ q.status = [r.status EXCEPT ![n] = "failure"]
             /\ q.aborted = r.aborted /\ q.finishes = r.finishes
<1> DEFINE q == Failed(r, n)
<1>1. /\ r \in RawRun /\ Coherent(r) /\ r.status \in [Nodes -> Statuses]
      /\ n \in Nodes /\ r.status[n] = "running"
      /\ r.ready \in Seq(Nodes) /\ Lists(r.ready, Startable(r))
      /\ r.firstFailure \in Nodes \cup {None}
  BY DEF Consistent, Coherent, RawRun, With
<1>2. /\ q.status = [r.status EXCEPT ![n] = "failure"]
      /\ q.inFlight = r.inFlight - 1
      /\ q.firstFailure = IF r.firstFailure = None THEN n ELSE r.firstFailure
      /\ q.remaining = r.remaining /\ q.ready = r.ready
      /\ q.skippedDueTo = r.skippedDueTo /\ q.aborted = r.aborted
      /\ q.finishes = r.finishes /\ q.ok = r.ok
      /\ q = [status |-> q.status, skippedDueTo |-> q.skippedDueTo,
              remaining |-> q.remaining, ready |-> q.ready, inFlight |-> q.inFlight,
              aborted |-> q.aborted, firstFailure |-> q.firstFailure,
              finishes |-> q.finishes, ok |-> q.ok]
  <2> DEFINE ff == IF r.firstFailure = None THEN n ELSE r.firstFailure
  <2>1. q = [r EXCEPT !.status[n] = "failure", !.inFlight = @ - 1, !.firstFailure = ff]
    BY DEF Failed
  <2> HIDE DEF ff, q
  <2>2. /\ q.status = [r.status EXCEPT ![n] = "failure"]
        /\ q.inFlight = r.inFlight - 1 /\ q.firstFailure = ff
    BY <1>1, <2>1 DEF RawRun
  <2>3. /\ q.remaining = r.remaining /\ q.ready = r.ready
        /\ q.skippedDueTo = r.skippedDueTo /\ q.aborted = r.aborted
        /\ q.finishes = r.finishes /\ q.ok = r.ok
    BY <1>1, <2>1 DEF RawRun
  <2>9. q = [status |-> q.status, skippedDueTo |-> q.skippedDueTo,
             remaining |-> q.remaining, ready |-> q.ready, inFlight |-> q.inFlight,
             aborted |-> q.aborted, firstFailure |-> q.firstFailure,
             finishes |-> q.finishes, ok |-> q.ok]
    BY <1>1, <2>1 DEF RawRun
  <2> QED
    BY <2>2, <2>3, <2>9 DEF ff
<1> HIDE DEF q
<1>3. /\ q.status[n] = "failure"
      /\ \A d \in Nodes \ {n} : q.status[d] = r.status[d]
  BY <1>1, <1>2
<1>4. \A m \in Nodes : Unmet(q, m) = Unmet(r, m)
  <2>1. \A d \in Nodes : q.status[d] = "success" <=> r.status[d] = "success"
    BY <1>1, <1>3
  <2> QED
    BY <2>1, UnmetDependsOnSuccess
<1>5. /\ With(q, {"running"}) = With(r, {"running"}) \ {n}
      /\ With(q, {"pending"}) = With(r, {"pending"})
      /\ With(q, {"running", "success", "failure"}) =
           With(r, {"running", "success", "failure"})
  BY <1>1, <1>3 DEF With
<1>6. Startable(q) = Startable(r)
  <2>1. With(r, {"pending"}) \subseteq Nodes
    BY DEF With
  <2> QED
    BY <1>4, <1>5, <2>1 DEF Startable
<1>7. /\ Cardinality(With(r, {"running"}) \ {n}) = q.inFlight
      /\ q.inFlight \in Nat /\ q.inFlight <= Concurrency
  BY <1>1, <1>2, OneFewerRuns
<1>8. q \in RawRun
  <2>1. "failure" \in Statuses
    BY DEF Statuses
  <2>2. q.status \in [Nodes -> Statuses]
    BY <1>1, <1>2, <2>1
  <2>3. q.firstFailure \in Nodes \cup {None}
    BY <1>1, <1>2
  <2>4. /\ q.skippedDueTo \in [Nodes -> Nodes \cup {None, Sentinel}]
        /\ q.remaining \in [Nodes -> Nat] /\ q.ready \in Seq(Nodes)
        /\ q.aborted \in BOOLEAN /\ q.finishes \in Nat /\ q.ok \in BOOLEAN
    BY <1>1, <1>2 DEF RawRun
  <2> QED
    BY <1>2, <1>7, <2>2, <2>3, <2>4 DEF RawRun
<1>9. \A m \in With(q, {"running", "success", "failure"}) : Unmet(q, m) = {}
  <2>1. \A m \in With(r, {"running", "success", "failure"}) : m \in Nodes /\ Unmet(r, m) = {}
    BY <1>1 DEF Coherent, With
  <2> QED
    BY <1>4, <1>5, <2>1
<1>10. \A m \in Nodes : q.remaining[m] = Cardinality(Unmet(q, m))
  BY <1>1, <1>2, <1>4 DEF Coherent
<1>11. Consistent(q)
  BY <1>1, <1>2, <1>5, <1>6, <1>7, <1>8, <1>9, <1>10 DEF Consistent, Coherent
<1> QED
  BY <1>2, <1>11 DEF q

-----------------------------------------------------------------------------
(* poisonDescendants() *)

Entries == [id : Nodes, reason : Nodes]
Bad     == {"failure", "skipped"}

\* Between two iterations: every skipped or queued node has a need that failed or
\* was skipped, and every node with such a need is skipped or queued.
PoisonState(r, b) ==
  /\ b = [run |-> b.run, queue |-> b.queue]
  /\ Consistent(b.run) /\ b.run.aborted = r.aborted /\ b.run.finishes = r.finishes
  /\ \A n \in Nodes : \/ b.run.status[n] = r.status[n]
                      \/ r.status[n] = "pending" /\ b.run.status[n] = "skipped"
  /\ b.queue \in Seq(Entries)
  /\ \A i \in 1 .. Len(b.queue) : /\ b.queue[i].reason \in Needed(needs, b.queue[i].id)
                                  /\ b.run.status[b.queue[i].reason] \in Bad
  /\ \A m \in With(b.run, {"skipped"}) :
       \E d \in Needed(needs, m) : b.run.status[d] \in Bad
  /\ \A m \in Nodes : \A d \in Needed(needs, m) :
       b.run.status[d] \in Bad => \/ b.run.status[m] = "skipped"
                                  \/ \E i \in 1 .. Len(b.queue) : b.queue[i].id = m

\* An iteration that shifts an entry makes this smaller.
Fuel(b) == Len(b.queue) + NodeCount * Cardinality(With(b.run, {"pending"}))

LEMMA ChildrenList ==
  ASSUME Sane, NEW d \in Nodes
  PROVE  /\ Children(d) \in Seq(Entries) /\ Len(Children(d)) <= NodeCount
         /\ \A i \in 1 .. Len(Children(d)) :
              Children(d)[i].reason = d /\ d \in Needed(needs, Children(d)[i].id)
         /\ \A m \in Nodes : d \in Needed(needs, m) =>
              \E i \in 1 .. Len(Children(d)) : Children(d)[i].id = m
<1> DEFINE C == {n \in Nodes : d \in Needed(needs, n)}
           s == Dependents(needs, d)
           c == Children(d)
<1>1. /\ s \in Seq(Nodes) /\ Lists(s, C) /\ Len(s) <= NodeCount
  <2>1. C \cap Nodes = C
    OBVIOUS
  <2> HIDE DEF C
  <2>2. s = InOrder(C)
    BY DEF Dependents, C
  <2> QED
    BY <2>1, <2>2, InOrderLists
<1>2. c = [i \in 1 .. Len(s) |-> [id |-> s[i], reason |-> d]]
  BY DEF Children
<1>3. \A n \in Nodes : n \in C <=> d \in Needed(needs, n)
  OBVIOUS
<1> HIDE DEF s, C, c
<1>4. Len(s) \in Nat /\ \A i \in 1 .. Len(s) : s[i] \in Nodes
  BY <1>1
<1>5. \A i \in 1 .. Len(s) : [id |-> s[i], reason |-> d] \in Entries
  BY <1>4 DEF Entries
<1>6. c \in Seq(Entries) /\ Len(c) = Len(s)
  BY <1>2, <1>4, <1>5
<1>7. \A i \in 1 .. Len(c) : c[i].id = s[i] /\ c[i].reason = d
  BY <1>2, <1>6
<1>8. C = {s[i] : i \in 1 .. Len(s)}
  BY <1>1 DEF Lists
<1>9. \A i \in 1 .. Len(s) : s[i] \in C
  BY <1>8
<1>10. \A m \in C : \E i \in 1 .. Len(s) : s[i] = m
  BY <1>8
<1>11. \A i \in 1 .. Len(c) : c[i].reason = d /\ d \in Needed(needs, c[i].id)
  BY <1>3, <1>4, <1>6, <1>7, <1>9
<1>12. \A m \in Nodes : d \in Needed(needs, m) => \E i \in 1 .. Len(c) : c[i].id = m
  BY <1>3, <1>6, <1>7, <1>10
<1> QED
  BY <1>1, <1>6, <1>11, <1>12 DEF c

SkipNode(r, m, d) == [r EXCEPT !.status[m] = "skipped", !.skippedDueTo[m] = d]

LEMMA SkipKeepsConsistent ==
  ASSUME Sane, NEW r, Consistent(r), NEW m \in With(r, {"pending"}), Unmet(r, m) # {},
         NEW d \in Nodes
  PROVE  LET q == SkipNode(r, m, d)
         IN  /\ Consistent(q)
             /\ q.status = [r.status EXCEPT ![m] = "skipped"]
             /\ q.aborted = r.aborted /\ q.finishes = r.finishes
<1> DEFINE q == SkipNode(r, m, d)
<1>1. /\ r \in RawRun /\ Coherent(r) /\ r.status \in [Nodes -> Statuses]
      /\ r.skippedDueTo \in [Nodes -> Nodes \cup {None, Sentinel}]
      /\ m \in Nodes /\ r.status[m] = "pending" /\ m \notin Startable(r)
      /\ Lists(r.ready, Startable(r))
  BY DEF Consistent, Coherent, RawRun, With, Startable
<1>2. /\ q.status = [r.status EXCEPT ![m] = "skipped"]
      /\ q.skippedDueTo = [r.skippedDueTo EXCEPT ![m] = d]
  BY <1>1 DEF RawRun, SkipNode
<1>3. /\ q.inFlight = r.inFlight /\ q.firstFailure = r.firstFailure
      /\ q.remaining = r.remaining /\ q.ready = r.ready
      /\ q.aborted = r.aborted /\ q.finishes = r.finishes /\ q.ok = r.ok
  BY <1>1 DEF RawRun, SkipNode
<1>4. q = [status |-> q.status, skippedDueTo |-> q.skippedDueTo,
           remaining |-> q.remaining, ready |-> q.ready, inFlight |-> q.inFlight,
           aborted |-> q.aborted, firstFailure |-> q.firstFailure,
           finishes |-> q.finishes, ok |-> q.ok]
  <2> DEFINE st == [r.status EXCEPT ![m] = "skipped"]
             sk == [r.skippedDueTo EXCEPT ![m] = d]
  <2>1. q = [r EXCEPT !.status = st, !.skippedDueTo = sk]
    BY <1>1 DEF RawRun, SkipNode
  <2> HIDE DEF st, sk, q
  <2> QED
    BY <1>1, <2>1 DEF RawRun
<1> HIDE DEF q
<1>5. q.status[m] = "skipped" /\ \A n \in Nodes \ {m} : q.status[n] = r.status[n]
  BY <1>1, <1>2
<1>6. \A n \in Nodes : Unmet(q, n) = Unmet(r, n)
  <2>1. \A n \in Nodes : q.status[n] = "success" <=> r.status[n] = "success"
    BY <1>1, <1>5
  <2> QED
    BY <2>1, UnmetDependsOnSuccess
<1>7. /\ With(q, {"running"}) = With(r, {"running"})
      /\ With(q, {"running", "success", "failure"}) =
           With(r, {"running", "success", "failure"})
      /\ With(q, {"pending"}) = With(r, {"pending"}) \ {m}
  BY <1>1, <1>5 DEF With
<1>8. Startable(q) = Startable(r)
  <2>1. With(r, {"pending"}) \subseteq Nodes
    BY DEF With
  <2> QED
    BY <1>1, <1>6, <1>7, <2>1 DEF Startable
<1>9. q \in RawRun
  <2>1. "skipped" \in Statuses
    BY DEF Statuses
  <2>2. q.status \in [Nodes -> Statuses]
    BY <1>1, <1>2, <2>1
  <2>3. q.skippedDueTo \in [Nodes -> Nodes \cup {None, Sentinel}]
    BY <1>1, <1>2
  <2>4. /\ q.remaining \in [Nodes -> Nat] /\ q.ready \in Seq(Nodes) /\ q.inFlight \in Nat
        /\ q.aborted \in BOOLEAN /\ q.firstFailure \in Nodes \cup {None}
        /\ q.finishes \in Nat /\ q.ok \in BOOLEAN
    BY <1>1, <1>3 DEF RawRun
  <2> QED
    BY <1>4, <2>2, <2>3, <2>4 DEF RawRun
<1>10. \A n \in With(q, {"running", "success", "failure"}) : Unmet(q, n) = {}
  <2>1. \A n \in With(r, {"running", "success", "failure"}) : n \in Nodes /\ Unmet(r, n) = {}
    BY <1>1 DEF Coherent, With
  <2> QED
    BY <1>6, <1>7, <2>1
<1>11. /\ \A n \in Nodes : q.remaining[n] = Cardinality(Unmet(q, n))
       /\ q.inFlight = Cardinality(With(q, {"running"})) /\ q.inFlight <= Concurrency
  BY <1>1, <1>3, <1>6, <1>7 DEF Coherent
<1>12. Consistent(q)
  BY <1>1, <1>3, <1>8, <1>9, <1>10, <1>11 DEF Consistent, Coherent
<1> QED
  BY <1>2, <1>3, <1>12 DEF q

LEMMA FuelIsNatural ==
  ASSUME NEW r, NEW b, PoisonState(r, b)
  PROVE  /\ Len(b.queue) \in Nat /\ Cardinality(With(b.run, {"pending"})) \in Nat
         /\ Fuel(b) \in Nat /\ Fuel(b) >= Len(b.queue)
<1> DEFINE c == Cardinality(With(b.run, {"pending"}))
           l == Len(b.queue)
<1>1. b.queue \in Seq(Entries)
  BY DEF PoisonState
<1>2. l \in Nat
  BY <1>1
<1>3. With(b.run, {"pending"}) \in SUBSET Nodes
  BY DEF With
<1>4. c \in Nat
  BY <1>3, NodesAreFinite
<1>5. Fuel(b) = l + NodeCount * c
  BY DEF Fuel
<1> HIDE DEF c, l
<1>6. NodeCount * c \in Nat
  BY <1>4, NodeCountAssumption
<1> QED
  BY <1>2, <1>4, <1>5, <1>6 DEF c, l

LEMMA PoisonStarts ==
  ASSUME Sane, NEW r, Consistent(r), Poisoned(r), NEW n \in With(r, {"running"})
  PROVE  LET b == [run |-> Failed(r, n), queue |-> Children(n)]
         IN  PoisonState(Failed(r, n), b) /\ Fuel(b) <= NodeCount * NodeCount
<1> DEFINE q == Failed(r, n)
           b == [run |-> q, queue |-> Children(n)]
<1>1. Consistent(q) /\ q.status = [r.status EXCEPT ![n] = "failure"]
  BY FailedConsistent
<1>2. b.run = q /\ b.queue = Children(n) /\ b = [run |-> b.run, queue |-> b.queue]
  OBVIOUS
<1> HIDE DEF q, b
<1>3. /\ r.status \in [Nodes -> Statuses] /\ n \in Nodes /\ r.status[n] = "running"
      /\ \A m \in Nodes : Needed(needs, m) \subseteq Nodes
  BY DEF Consistent, Coherent, RawRun, With, Sane, Needed
<1>4. /\ q.status[n] = "failure"
      /\ \A d \in Nodes \ {n} : q.status[d] = r.status[d]
  BY <1>1, <1>3
<1>5. /\ Children(n) \in Seq(Entries) /\ Len(Children(n)) <= NodeCount
      /\ \A i \in 1 .. Len(Children(n)) :
           Children(n)[i].reason = n /\ n \in Needed(needs, Children(n)[i].id)
      /\ \A m \in Nodes : n \in Needed(needs, m) =>
           \E i \in 1 .. Len(Children(n)) : Children(n)[i].id = m
  BY <1>3, ChildrenList
<1>6. \A i \in 1 .. Len(b.queue) : /\ b.queue[i].reason \in Needed(needs, b.queue[i].id)
                                   /\ q.status[b.queue[i].reason] \in Bad
  BY <1>2, <1>4, <1>5 DEF Bad
<1>7. \A m \in Nodes : m \in With(r, {"skipped"}) <=>
                         \E d \in Needed(needs, m) : r.status[d] \in Bad
  BY <1>3 DEF Poisoned, Bad
<1>8. ASSUME NEW m \in With(q, {"skipped"})
      PROVE  \E d \in Needed(needs, m) : q.status[d] \in Bad
  <2>1. m \in Nodes /\ m # n /\ m \in With(r, {"skipped"})
    BY <1>4 DEF With
  <2>2. PICK d \in Needed(needs, m) : r.status[d] \in Bad
    BY <1>7, <2>1
  <2>3. d # n /\ d \in Nodes
    BY <1>3, <2>1, <2>2 DEF Bad
  <2> QED
    BY <1>4, <2>2, <2>3
<1>9. ASSUME NEW m \in Nodes, NEW d \in Needed(needs, m), q.status[d] \in Bad
      PROVE  q.status[m] = "skipped" \/ \E i \in 1 .. Len(b.queue) : b.queue[i].id = m
  <2>1. CASE d = n
    BY <1>2, <1>5, <2>1
  <2>2. CASE d # n
    <3>1. d \in Nodes
      BY <1>3
    <3>2. r.status[d] \in Bad
      BY <1>4, <1>9, <2>2, <3>1
    <3>3. m \in With(r, {"skipped"})
      BY <1>7, <3>2
    <3> QED
      BY <1>3, <1>4, <3>3 DEF With
  <2> QED
    BY <2>1, <2>2
<1>10. PoisonState(q, b)
  BY <1>1, <1>2, <1>5, <1>6, <1>8, <1>9 DEF PoisonState
<1>11. Fuel(b) <= NodeCount * NodeCount
  <2> DEFINE P == With(q, {"pending"})
             c == Cardinality(P)
             l == Len(Children(n))
  <2>1. P \in SUBSET Nodes /\ n \notin P
    BY <1>4 DEF With
  <2>2. c \in Nat /\ c <= NodeCount /\ c # NodeCount
    BY <1>3, <2>1, NodesAreFinite
  <2>3. l \in Nat /\ l <= NodeCount /\ Fuel(b) = l + NodeCount * c
    BY <1>2, <1>5 DEF Fuel
  <2> HIDE DEF c, l
  <2>4. c <= NodeCount - 1 /\ NodeCount \in Nat
    BY <2>2, NodeCountAssumption
  <2>5. \A x, y, z \in Nat : x <= y - 1 => z * x <= z * y - z
    <3>1. TAKE x, y, z \in Nat
    <3>2. HAVE x <= y - 1
    <3>3. PICK e \in Nat : y = x + 1 + e
      <4>1. y - 1 - x \in Nat /\ y = x + 1 + (y - 1 - x)
        BY <3>2
      <4> QED
        BY <4>1
    <3>4. z * y = z * x + z + z * e
      BY <3>3
    <3>5. z * e \in Nat /\ z * x \in Nat /\ z * y \in Nat
      OBVIOUS
    <3> QED
      BY <3>4, <3>5
  <2>6. NodeCount * c <= NodeCount * NodeCount - NodeCount
    BY <2>2, <2>4, <2>5
  <2>7. NodeCount * c \in Nat /\ NodeCount * NodeCount \in Nat
    BY <2>2, <2>4
  <2> QED
    BY <2>3, <2>4, <2>6, <2>7
<1> QED
  BY <1>10, <1>11 DEF q, b

LEMMA PoisonHeadPassesOver ==
  ASSUME Sane, NEW r, NEW b, PoisonState(r, b), b.queue # << >>,
         b.run.status[Head(b.queue).id] # "pending"
  PROVE  PoisonState(r, PoisonHead(b)) /\ Fuel(PoisonHead(b)) = Fuel(b) - 1
<1> DEFINE c == PoisonHead(b)
           e == Head(b.queue)
           l == Len(b.queue)
<1>1. c.run = b.run /\ c.queue = Tail(b.queue) /\ c = [run |-> c.run, queue |-> c.queue]
  <2>1. b = [run |-> b.run, queue |-> b.queue]
    BY DEF PoisonState
  <2>2. c = [b EXCEPT !.queue = Tail(@)]
    BY DEF PoisonHead
  <2> HIDE DEF c
  <2> QED
    BY <2>1, <2>2
<1> HIDE DEF c
<1>2. /\ e = b.queue[1] /\ l \in Nat /\ l >= 1
      /\ Tail(b.queue) \in Seq(Entries) /\ Len(Tail(b.queue)) = l - 1
      /\ \A i \in 1 .. l - 1 : Tail(b.queue)[i] = b.queue[i + 1]
      /\ e \in Entries
  BY DEF PoisonState
<1>3. e.id \in Nodes /\ e.reason \in Nodes
  BY <1>2 DEF Entries
<1>4. e.reason \in Needed(needs, e.id) /\ b.run.status[e.reason] \in Bad
  BY <1>2 DEF PoisonState
<1>5. b.run.status[e.id] = "skipped"
  <2>1. Unmet(b.run, e.id) # {}
    BY <1>3, <1>4, UnmetIsNeeded DEF Bad
  <2>2. /\ \A m \in With(b.run, {"running", "success", "failure"}) : Unmet(b.run, m) = {}
        /\ b.run.status[e.id] \in Statuses
    BY <1>3 DEF PoisonState, Consistent, Coherent, RawRun
  <2>3. b.run.status[e.id] \notin {"running", "success", "failure"}
    BY <1>3, <2>1, <2>2 DEF With
  <2> QED
    BY <2>2, <2>3 DEF Statuses
<1>6. \A i \in 1 .. Len(c.queue) : /\ c.queue[i].reason \in Needed(needs, c.queue[i].id)
                                   /\ c.run.status[c.queue[i].reason] \in Bad
  <2> TAKE i \in 1 .. Len(c.queue)
  <2>1. i + 1 \in 1 .. l /\ c.queue[i] = b.queue[i + 1]
    BY <1>1, <1>2
  <2> QED
    BY <1>1, <2>1 DEF PoisonState
<1>7. \A m \in Nodes : \A d \in Needed(needs, m) :
        c.run.status[d] \in Bad => \/ c.run.status[m] = "skipped"
                                   \/ \E i \in 1 .. Len(c.queue) : c.queue[i].id = m
  <2> SUFFICES ASSUME NEW m \in Nodes, NEW d \in Needed(needs, m), b.run.status[d] \in Bad,
                      b.run.status[m] # "skipped"
               PROVE  \E i \in 1 .. Len(c.queue) : c.queue[i].id = m
    BY <1>1
  <2>1. PICK i \in 1 .. l : b.queue[i].id = m
    BY DEF PoisonState
  <2>2. i # 1
    BY <1>2, <1>5, <2>1
  <2>3. i - 1 \in 1 .. Len(c.queue) /\ c.queue[i - 1] = b.queue[i]
    BY <1>1, <1>2, <2>1, <2>2
  <2> QED
    BY <2>1, <2>3
<1>8. PoisonState(r, c)
  BY <1>1, <1>2, <1>6, <1>7 DEF PoisonState
<1>9. Fuel(c) = Fuel(b) - 1
  <2> DEFINE x == NodeCount * Cardinality(With(b.run, {"pending"}))
  <2>1. Fuel(c) = (l - 1) + x /\ Fuel(b) = l + x
    BY <1>1, <1>2 DEF Fuel
  <2>2. x \in Nat
    BY FuelIsNatural, NodeCountAssumption
  <2> HIDE DEF x
  <2> QED
    BY <1>2, <2>1, <2>2
<1> QED
  BY <1>8, <1>9 DEF c

LEMMA PoisonHeadSkips ==
  ASSUME Sane, NEW r, NEW b, PoisonState(r, b), b.queue # << >>,
         b.run.status[Head(b.queue).id] = "pending"
  PROVE  PoisonState(r, PoisonHead(b)) /\ Fuel(PoisonHead(b)) <= Fuel(b) - 1
<1> DEFINE c == PoisonHead(b)
           p == b.run
           e == Head(b.queue)
           t == Tail(b.queue)
           k == Children(e.id)
           l == Len(b.queue)
<1>1. /\ e = b.queue[1] /\ l \in Nat /\ l >= 1
      /\ t \in Seq(Entries) /\ Len(t) = l - 1
      /\ \A i \in 1 .. l - 1 : t[i] = b.queue[i + 1]
      /\ e \in Entries
  BY DEF PoisonState
<1>2. e.id \in Nodes /\ e.reason \in Nodes
  BY <1>1 DEF Entries
<1>3. e.reason \in Needed(needs, e.id) /\ p.status[e.reason] \in Bad
  BY <1>1 DEF PoisonState
<1>4. /\ c.run = SkipNode(p, e.id, e.reason)
      /\ c.queue = t \o k
      /\ c = [run |-> c.run, queue |-> c.queue]
  BY DEF PoisonHead, SkipNode
<1>5. /\ k \in Seq(Entries) /\ Len(k) <= NodeCount
      /\ \A i \in 1 .. Len(k) : k[i].reason = e.id /\ e.id \in Needed(needs, k[i].id)
      /\ \A m \in Nodes : e.id \in Needed(needs, m) =>
           \E i \in 1 .. Len(k) : k[i].id = m
  BY <1>2, ChildrenList
<1>6. e.id \in With(p, {"pending"}) /\ Unmet(p, e.id) # {}
  BY <1>2, <1>3, UnmetIsNeeded DEF With, Bad
<1> HIDE DEF c, k, t, e, l
<1>7. /\ Consistent(c.run)
      /\ c.run.status = [p.status EXCEPT ![e.id] = "skipped"]
      /\ c.run.aborted = p.aborted /\ c.run.finishes = p.finishes
  <2>1. Consistent(p)
    BY DEF PoisonState
  <2> DEFINE m == e.id
             d == e.reason
             q == SkipNode(p, m, d)
  <2>2. m \in With(p, {"pending"}) /\ Unmet(p, m) # {} /\ d \in Nodes
    BY <1>2, <1>6
  <2> HIDE DEF p, m, d
  <2>3. /\ Consistent(q)
        /\ q.status = [p.status EXCEPT ![m] = "skipped"]
        /\ q.aborted = p.aborted /\ q.finishes = p.finishes
    BY <2>1, <2>2, SkipKeepsConsistent
  <2> QED
    BY <1>4, <2>3 DEF m, d
<1>8. /\ c.run.status[e.id] = "skipped" /\ p.status[e.id] = "pending"
      /\ \A n \in Nodes \ {e.id} : c.run.status[n] = p.status[n]
      /\ \A n \in Nodes : p.status[n] \in Bad => c.run.status[n] \in Bad
      /\ \A n \in Nodes \ {e.id} : c.run.status[n] \in Bad => p.status[n] \in Bad
  <2>1. p.status \in [Nodes -> Statuses]
    BY DEF PoisonState, Consistent, Coherent, RawRun
  <2>2. p.status[e.id] = "pending"
    BY <1>6 DEF With
  <2>3. /\ c.run.status[e.id] = "skipped"
        /\ \A n \in Nodes \ {e.id} : c.run.status[n] = p.status[n]
    BY <1>2, <1>7, <2>1
  <2> QED
    BY <2>2, <2>3 DEF Bad
<1>9. \A n \in Nodes : \/ c.run.status[n] = r.status[n]
                       \/ r.status[n] = "pending" /\ c.run.status[n] = "skipped"
  <2> TAKE n \in Nodes
  <2>1. \/ p.status[n] = r.status[n]
        \/ r.status[n] = "pending" /\ p.status[n] = "skipped"
    BY DEF PoisonState
  <2> QED
    BY <1>8, <2>1
<1>10. /\ c.queue \in Seq(Entries)
       /\ Len(k) \in Nat /\ Len(c.queue) = l - 1 + Len(k)
       /\ \A i \in 1 .. l - 1 : c.queue[i] = b.queue[i + 1]
       /\ \A i \in 1 .. Len(k) : l - 1 + i \in 1 .. Len(c.queue) /\ c.queue[l - 1 + i] = k[i]
       /\ \A i \in 1 .. Len(c.queue) :
            i \in 1 .. l - 1 \/ \E j \in 1 .. Len(k) : c.queue[i] = k[j]
  <2>1. Len(k) \in Nat
    BY <1>5
  <2>2. /\ c.queue \in Seq(Entries) /\ Len(c.queue) = l - 1 + Len(k)
        /\ \A i \in 1 .. l - 1 : c.queue[i] = t[i]
        /\ \A i \in l .. l - 1 + Len(k) : c.queue[i] = k[i - (l - 1)]
    <3>1. ASSUME NEW S, NEW u \in Seq(S), NEW v \in Seq(S), NEW m, m = Len(u)
          PROVE  /\ u \o v \in Seq(S) /\ Len(u \o v) = m + Len(v)
                 /\ \A i \in 1 .. m : (u \o v)[i] = u[i]
                 /\ \A i \in m + 1 .. m + Len(v) : (u \o v)[i] = v[i - m]
      BY <3>1
    <3> DEFINE q == c.queue
               m == l - 1
    <3>2. q = t \o k /\ t \in Seq(Entries) /\ k \in Seq(Entries) /\ m = Len(t) /\ m + 1 = l
      BY <1>1, <1>4, <1>5
    <3> HIDE DEF q, m
    <3>3. /\ q \in Seq(Entries) /\ Len(q) = m + Len(k)
          /\ \A i \in 1 .. m : q[i] = t[i]
          /\ \A i \in m + 1 .. m + Len(k) : q[i] = k[i - m]
      BY <3>1, <3>2
    <3> QED
      BY <3>2, <3>3 DEF q, m
  <2>3. ASSUME NEW i \in 1 .. Len(k)
        PROVE  l - 1 + i \in 1 .. Len(c.queue) /\ c.queue[l - 1 + i] = k[i]
    <3>1. l - 1 + i \in l .. l - 1 + Len(k) /\ (l - 1 + i) - (l - 1) = i
      BY <1>1, <2>1
    <3> QED
      BY <1>1, <2>1, <2>2, <3>1
  <2>4. ASSUME NEW i \in 1 .. Len(c.queue), i \notin 1 .. l - 1
        PROVE  \E j \in 1 .. Len(k) : c.queue[i] = k[j]
    <3>1. i \in l .. l - 1 + Len(k) /\ i - (l - 1) \in 1 .. Len(k)
      BY <1>1, <2>1, <2>2, <2>4
    <3> QED
      BY <2>2, <3>1
  <2> QED
    BY <1>1, <2>1, <2>2, <2>3, <2>4
<1>11. \A i \in 1 .. l - 1 : i + 1 \in 1 .. l
  BY <1>1
<1>12. ASSUME NEW i \in 1 .. Len(c.queue)
       PROVE  /\ c.queue[i].reason \in Needed(needs, c.queue[i].id)
              /\ c.run.status[c.queue[i].reason] \in Bad
  <2>1. CASE i \in 1 .. l - 1
    <3>1. /\ b.queue[i + 1].reason \in Needed(needs, b.queue[i + 1].id)
          /\ p.status[b.queue[i + 1].reason] \in Bad
          /\ b.queue[i + 1] \in Entries
      BY <1>11, <2>1 DEF PoisonState, l
    <3>2. c.queue[i] = b.queue[i + 1]
      BY <1>10, <2>1
    <3>3. b.queue[i + 1].reason \in Nodes
      BY <3>1 DEF Entries
    <3> QED
      BY <1>8, <3>1, <3>2, <3>3
  <2>2. CASE i \notin 1 .. l - 1
    <3>1. PICK j \in 1 .. Len(k) : c.queue[i] = k[j]
      BY <1>10, <2>2
    <3> QED
      BY <1>5, <1>8, <3>1 DEF Bad
  <2> QED
    BY <2>1, <2>2
<1>13. ASSUME NEW m \in With(c.run, {"skipped"})
       PROVE  \E d \in Needed(needs, m) : c.run.status[d] \in Bad
  <2>0. m \in Nodes /\ Needed(needs, m) \subseteq Nodes
    BY DEF With, Sane, Needed
  <2>1. CASE m = e.id
    BY <1>2, <1>3, <1>8, <2>1
  <2>2. CASE m # e.id
    <3>1. m \in With(p, {"skipped"})
      BY <1>8, <2>0, <2>2 DEF With
    <3>2. PICK d \in Needed(needs, m) : p.status[d] \in Bad
      BY <3>1 DEF PoisonState
    <3> QED
      BY <1>8, <2>0, <3>2
  <2> QED
    BY <2>1, <2>2
<1>14. ASSUME NEW m \in Nodes, NEW d \in Needed(needs, m), c.run.status[d] \in Bad
       PROVE  \/ c.run.status[m] = "skipped"
              \/ \E i \in 1 .. Len(c.queue) : c.queue[i].id = m
  <2>0. d \in Nodes
    BY DEF Sane, Needed
  <2>1. CASE d = e.id
    <3>1. PICK i \in 1 .. Len(k) : k[i].id = m
      BY <1>5, <2>1
    <3> QED
      BY <1>10, <3>1
  <2>2. CASE m = e.id
    BY <1>8, <2>2
  <2>3. CASE d # e.id /\ m # e.id
    <3>1. p.status[d] \in Bad
      BY <1>8, <1>14, <2>0, <2>3
    <3>2. p.status[m] = "skipped" \/ \E i \in 1 .. l : b.queue[i].id = m
      BY <3>1 DEF PoisonState, l
    <3>3. CASE p.status[m] = "skipped"
      BY <1>8, <2>3, <3>3
    <3>4. CASE \E i \in 1 .. l : b.queue[i].id = m
      <4>1. PICK i \in 1 .. l : b.queue[i].id = m
        BY <3>4
      <4>2. i # 1
        BY <1>1, <2>3, <4>1
      <4>3. /\ i - 1 \in 1 .. l - 1 /\ i - 1 \in 1 .. Len(c.queue)
            /\ (i - 1) + 1 = i
        BY <1>1, <1>10, <4>1, <4>2
      <4>4. c.queue[i - 1] = b.queue[i]
        BY <1>10, <4>3
      <4> QED
        BY <4>1, <4>3, <4>4
    <3> QED
      BY <3>2, <3>3, <3>4
  <2> QED
    BY <2>1, <2>2, <2>3
<1>15. PoisonState(r, c)
  <2>1. p.aborted = r.aborted /\ p.finishes = r.finishes
    BY DEF PoisonState
  <2> QED
    BY <1>4, <1>7, <1>9, <1>10, <1>12, <1>13, <1>14, <2>1 DEF PoisonState
<1>16. Fuel(c) <= Fuel(b) - 1
  <2> DEFINE P == With(p, {"pending"})
             x == Cardinality(P)
  <2>1. P \in SUBSET Nodes /\ e.id \in P /\ With(c.run, {"pending"}) = P \ {e.id}
    BY <1>6, <1>8 DEF With
  <2>2. IsFiniteSet(P) /\ x \in Nat
    BY <2>1, NodesAreFinite
  <2>3. Cardinality(P \ {e.id}) = x - 1
    BY <2>1, <2>2, FS_RemoveElement
  <2>4. Fuel(c) = l - 1 + Len(k) + NodeCount * (x - 1) /\ Fuel(b) = l + NodeCount * x
    BY <1>10, <2>1, <2>3 DEF Fuel, l
  <2> HIDE DEF P, x, p
  <2>5. NodeCount * (x - 1) = NodeCount * x - NodeCount /\ NodeCount * x \in Int
    BY <2>2, NodeCountAssumption
  <2> DEFINE y == NodeCount * x
             z == NodeCount * (x - 1)
             w == Len(k)
  <2>6. /\ Fuel(c) = l - 1 + w + z /\ Fuel(b) = l + y
        /\ z = y - NodeCount /\ y \in Int /\ z \in Int /\ w \in Nat /\ w <= NodeCount
    BY <1>5, <1>10, <2>2, <2>4, <2>5, NodeCountAssumption
  <2> HIDE DEF y, z, w
  <2> QED
    BY <1>1, <2>6, NodeCountAssumption
<1> QED
  BY <1>15, <1>16 DEF c

LEMMA PoisonLoopUnfolds ==
  ASSUME NEW r, NEW n
  PROVE  /\ NodeCount * NodeCount \in Nat
         /\ PoisonLoop(r, n)[0] = [run |-> r, queue |-> Children(n)]
         /\ \A k \in 0 .. NodeCount * NodeCount - 1 :
              PoisonLoop(r, n)[k + 1] = PoisonIteration(PoisonLoop(r, n)[k])
<1> DEFINE N == NodeCount * NodeCount
           a == [run |-> r, queue |-> Children(n)]
           Step(s) == PoisonIteration(s)
           Body(g, m) == [k \in 0 .. m |-> IF k = 0 THEN a ELSE Step(g[k - 1])]
           E == {m \in Nat : \E g : g = Body(g, m)}
           R == PoisonLoop(r, n)
<1>0. N \in Nat
  BY NodeCountAssumption
<1>1. R = Body(R, N)
  <2>1. R = CHOOSE g : g = Body(g, N)
    BY DEF PoisonLoop
  <2> HIDE DEF Step, R, a
  <2>2. 0 \in E
    <3>1. Body([k \in 0 .. 0 |-> a], 0) = [k \in 0 .. 0 |-> a]
      OBVIOUS
    <3> QED
      BY <3>1
  <2>3. ASSUME NEW m \in Nat, m \in E
        PROVE  m + 1 \in E
    <3>1. PICK g : g = Body(g, m)
      BY <2>3
    <3> DEFINE h == [k \in 0 .. m + 1 |-> IF k <= m THEN g[k] ELSE Step(g[m])]
    <3>2. h = Body(h, m + 1)
      BY <3>1
    <3> HIDE DEF h, Body
    <3>3. \E f : f = Body(f, m + 1)
      BY <3>2
    <3> QED
      BY <3>3
  <2> HIDE DEF N, Body
  <2>4. N \in E
    BY <1>0, <2>2, <2>3, SetInduction
  <2> QED
    BY <2>1, <2>4
<1> HIDE DEF R, Step, N, a
<1>2. R[0] = a
  BY <1>0, <1>1
<1>3. ASSUME NEW k \in 0 .. N - 1
      PROVE  R[k + 1] = Step(R[k])
  <2>1. k + 1 \in 0 .. N /\ k + 1 # 0 /\ (k + 1) - 1 = k
    BY <1>0
  <2> QED
    BY <1>1, <2>1
<1> QED
  BY <1>0, <1>2, <1>3 DEF R, Step, N, a

\* The loop skips exactly the descendants of the failed node that were pending,
\* and its bound is no restriction: the queue has run empty by then.
LEMMA PoisonSpreads ==
  ASSUME Sane, NEW r, Consistent(r), Poisoned(r), NEW n \in With(r, {"running"})
  PROVE  LET f == Failed(r, n)
             q == PoisonDescendants(f, n)
         IN  /\ Consistent(q) /\ Poisoned(q)
             /\ q.aborted = f.aborted /\ q.finishes = f.finishes
             /\ \A m \in Nodes : \/ q.status[m] = f.status[m]
                                 \/ f.status[m] = "pending" /\ q.status[m] = "skipped"
<1> DEFINE f == Failed(r, n)
           N == NodeCount * NodeCount
           R == PoisonLoop(f, n)
           Good(b) == PoisonState(f, b)
           T == {k \in 0 .. N : Good(R[k]) /\ (R[k].queue = << >> \/ Fuel(R[k]) <= N - k)}
<1>1. /\ N \in Nat
      /\ R[0] = [run |-> f, queue |-> Children(n)]
      /\ \A k \in 0 .. N - 1 : R[k + 1] = PoisonIteration(R[k])
  BY PoisonLoopUnfolds
<1>2. Good(R[0]) /\ Fuel(R[0]) <= N
  BY <1>1, PoisonStarts
<1>3. PoisonDescendants(f, n) = R[N].run
  BY DEF PoisonDescendants
<1> HIDE DEF R, N, f
<1>4. 0 \in T
  BY <1>1, <1>2
<1>5. ASSUME NEW k \in 0 .. N - 1, k \in T
      PROVE  k + 1 \in T
  <2> DEFINE b == R[k]
             c == R[k + 1]
  <2>0. k \in Nat /\ k + 1 \in 0 .. N /\ c = PoisonIteration(b) /\ Good(b)
    BY <1>1, <1>5
  <2>1. b.queue = << >> \/ Fuel(b) <= N - k
    BY <1>5
  <2> HIDE DEF b, c
  <2>2. CASE b.queue = << >>
    <3>1. c = b
      BY <2>0, <2>2 DEF PoisonIteration
    <3> QED
      BY <2>0, <2>2, <3>1 DEF c
  <2>3. CASE b.queue # << >>
    <3>1. c = PoisonHead(b)
      BY <2>0, <2>3 DEF PoisonIteration
    <3>2. Fuel(b) \in Nat /\ Fuel(b) <= N - k
      BY <2>0, <2>1, <2>3, FuelIsNatural
    <3>3. Good(c) /\ Fuel(c) <= Fuel(b) - 1
      <4>1. CASE b.run.status[Head(b.queue).id] = "pending"
        BY <2>0, <2>3, <3>1, <4>1, PoisonHeadSkips
      <4>2. CASE b.run.status[Head(b.queue).id] # "pending"
        <5>1. Good(c) /\ Fuel(c) = Fuel(b) - 1
          BY <2>0, <2>3, <3>1, <4>2, PoisonHeadPassesOver
        <5> QED
          BY <3>2, <5>1
      <4> QED
        BY <4>1, <4>2
    <3>4. Fuel(c) \in Nat
      BY <3>3, FuelIsNatural
    <3>5. Fuel(c) <= N - (k + 1)
      BY <1>1, <2>0, <3>2, <3>3, <3>4
    <3> HIDE DEF Good
    <3> QED
      BY <2>0, <3>3, <3>5 DEF c
  <2> QED
    BY <2>2, <2>3
<1>6. N \in T
  <2> HIDE DEF T
  <2>1. 0 .. N \subseteq T
    BY <1>1, <1>4, <1>5, BoundedInduction
  <2> QED
    BY <1>1, <2>1
<1> DEFINE b == R[N]
<1>7. Good(b) /\ (b.queue = << >> \/ Fuel(b) <= N - N)
  BY <1>6
<1> HIDE DEF b
<1>8. Len(b.queue) = 0
  <2>1. Len(b.queue) \in Nat /\ Fuel(b) \in Nat /\ Fuel(b) >= Len(b.queue)
    BY <1>7, FuelIsNatural
  <2> QED
    BY <1>1, <1>7, <2>1
<1>9. \A m \in Nodes : Needed(needs, m) \subseteq Nodes
  BY DEF Sane, Needed
<1> DEFINE q == b.run
<1>10. Poisoned(q)
  <2>1. \A m \in With(q, {"skipped"}) : \E d \in Needed(needs, m) : q.status[d] \in Bad
    BY <1>7 DEF PoisonState
  <2>2. ASSUME NEW m \in Nodes, NEW d \in Needed(needs, m), q.status[d] \in Bad
        PROVE  q.status[m] = "skipped"
    <3>1. 1 .. Len(b.queue) = {}
      BY <1>8
    <3>2. q.status[m] = "skipped" \/ \E i \in 1 .. Len(b.queue) : b.queue[i].id = m
      BY <1>7, <2>2 DEF PoisonState
    <3> QED
      BY <3>1, <3>2
  <2> HIDE DEF q
  <2> QED
    BY <1>9, <2>1, <2>2 DEF Poisoned, With, Bad
<1>11. /\ Consistent(q) /\ q.aborted = f.aborted /\ q.finishes = f.finishes
       /\ \A m \in Nodes : \/ q.status[m] = f.status[m]
                           \/ f.status[m] = "pending" /\ q.status[m] = "skipped"
  BY <1>7 DEF PoisonState
<1> HIDE DEF q
<1>12. q = PoisonDescendants(f, n)
  BY <1>3 DEF q, b
<1> QED
  BY <1>10, <1>11, <1>12 DEF f

-----------------------------------------------------------------------------
(* The three actions *)

\* What the action properties ask of a step.
StepAllowed(r, q) ==
  /\ \A m \in With(r, {"success", "failure", "skipped"}) : q.status[m] = r.status[m]
  /\ mode = "fail-fast" /\ With(q, {"failure"}) # {} =>
       With(q, {"running"}) \subseteq With(r, {"running"})

\* The moves of a callback for n.
Moved(r, q, n) ==
  /\ r.status[n] = "running" /\ q.status[n] \in {"success", "failure"}
  /\ \A m \in Nodes \ {n} : \/ q.status[m] = r.status[m]
                            \/ r.status[m] = "pending" /\ q.status[m] \in {"running", "skipped"}

\* A run with a running node has not finished.
LEMMA RunningIsConsistent ==
  ASSUME NEW r, Settled(r), NEW n \in With(r, {"running"})
  PROVE  Consistent(r) /\ Marked(r) /\ r.finishes = 0
<1>1. With(r, {"pending", "running"}) # {}
  BY DEF With
<1>2. r.finishes = 0
  BY <1>1 DEF Settled
<1> QED
  BY <1>2 DEF Settled, Consistent

\* From the settling of n (which leaves the run p) to the end of the callback.
LEMMA CallbackSettles ==
  ASSUME Sane, ~IsCyclic(needs), NEW r, NEW n \in With(r, {"running"}),
         NEW p, Consistent(p), Marked(p), p.finishes = 0,
         \A m \in Nodes \ {n} : \/ p.status[m] = r.status[m]
                                \/ r.status[m] = "pending" /\ p.status[m] = "skipped",
         p.status[n] \in {"success", "failure"}
  PROVE  /\ Settled(TryStartMore(p)) /\ StepAllowed(r, TryStartMore(p))
         /\ Moved(r, TryStartMore(p), n)
<1> DEFINE q == TryStartMore(p)
<1>1. Settled(q) /\ Onward(p, q)
  BY TryStartMoreSettles
<1> HIDE DEF q
<1>2. n \in Nodes /\ r.status[n] = "running"
  BY DEF With
<1>3. \A m \in Nodes : \/ q.status[m] = p.status[m]
                       \/ p.status[m] = "pending" /\ q.status[m] = "skipped"
                       \/ p.status[m] = "pending" /\ q.status[m] = "running" /\ ~p.aborted
  BY <1>1 DEF Onward
<1>4. ASSUME NEW m \in With(r, {"success", "failure", "skipped"})
      PROVE  q.status[m] = r.status[m]
  <2>1. m \in Nodes \ {n} /\ r.status[m] \in {"success", "failure", "skipped"}
    BY <1>2 DEF With
  <2>2. p.status[m] = r.status[m]
    BY <2>1
  <2> QED
    BY <1>3, <2>1, <2>2
<1>5. ASSUME mode = "fail-fast", With(q, {"failure"}) # {}
      PROVE  With(q, {"running"}) \subseteq With(r, {"running"})
  <2>1. p.aborted
    BY <1>1, <1>5 DEF Settled, Marked, Onward
  <2>2. ASSUME NEW m \in With(q, {"running"})
        PROVE  m \in With(r, {"running"})
    <3>1. m \in Nodes /\ q.status[m] = "running"
      BY DEF With
    <3>2. p.status[m] = "running"
      BY <1>3, <2>1, <3>1
    <3>3. r.status[m] = "running"
      BY <1>2, <3>1, <3>2
    <3> QED
      BY <3>1, <3>3 DEF With
  <2> QED
    BY <2>2
<1>6. Moved(r, q, n)
  BY <1>2, <1>3 DEF Moved
<1> QED
  BY <1>1, <1>4, <1>5, <1>6 DEF StepAllowed, q

LEMMA OnSuccessSettles ==
  ASSUME Sane, ~IsCyclic(needs), NEW r, Settled(r), NEW n \in With(r, {"running"})
  PROVE  Settled(OnSuccess(r, n)) /\ StepAllowed(r, OnSuccess(r, n)) /\ Moved(r, OnSuccess(r, n), n)
<1> DEFINE p == Succeeded(r, n)
<1>1. Consistent(r) /\ Marked(r) /\ r.finishes = 0
  BY RunningIsConsistent
<1>2. /\ Consistent(p) /\ Marked(p) /\ p.finishes = 0
      /\ p.status = [r.status EXCEPT ![n] = "success"]
  BY <1>1, SucceededConsistent
<1>3. OnSuccess(r, n) = TryStartMore(p)
  BY DEF OnSuccess, Succeeded
<1> HIDE DEF p
<1>4. n \in Nodes /\ r.status \in [Nodes -> Statuses]
  BY <1>1 DEF With, Consistent, Coherent, RawRun
<1>5. p.status[n] = "success"
  BY <1>2, <1>4
<1>6. \A m \in Nodes \ {n} : \/ p.status[m] = r.status[m]
                             \/ r.status[m] = "pending" /\ p.status[m] = "skipped"
  BY <1>2, <1>4
<1>7. Consistent(p) /\ Marked(p) /\ p.finishes = 0
  BY <1>2
<1>8. Settled(TryStartMore(p)) /\ StepAllowed(r, TryStartMore(p)) /\ Moved(r, TryStartMore(p), n)
  BY <1>5, <1>6, <1>7, CallbackSettles
<1> QED
  BY <1>3, <1>8

LEMMA OnFailureSettles ==
  ASSUME Sane, ~IsCyclic(needs), NEW r, Settled(r), NEW n \in With(r, {"running"})
  PROVE  Settled(OnFailure(r, n)) /\ StepAllowed(r, OnFailure(r, n)) /\ Moved(r, OnFailure(r, n), n)
<1> DEFINE f == Failed(r, n)
<1>1. Consistent(r) /\ Marked(r) /\ r.finishes = 0
  BY RunningIsConsistent
<1>2. /\ Consistent(f) /\ f.finishes = 0 /\ f.aborted = r.aborted
      /\ f.status = [r.status EXCEPT ![n] = "failure"]
  BY <1>1, FailedConsistent
<1>3. n \in Nodes /\ r.status \in [Nodes -> Statuses] /\ r.status[n] = "running"
  BY <1>1 DEF With, Consistent, Coherent, RawRun
<1>4. f.status[n] = "failure" /\ \A m \in Nodes \ {n} : f.status[m] = r.status[m]
  BY <1>2, <1>3
<1>5. CASE mode = "fail-fast"
  <2> DEFINE p == [f EXCEPT !.aborted = TRUE]
  <2>1. OnFailure(r, n) = TryStartMore(p)
    BY <1>5 DEF OnFailure
  <2>2. /\ p.status = f.status /\ p.skippedDueTo = f.skippedDueTo
        /\ p.remaining = f.remaining /\ p.ready = f.ready /\ p.inFlight = f.inFlight
        /\ p.aborted = TRUE /\ p.firstFailure = f.firstFailure
        /\ p.finishes = f.finishes /\ p.ok = f.ok
        /\ p \in RawRun
    <3>1. f \in RawRun
      BY <1>2 DEF Consistent, Coherent
    <3> HIDE DEF f
    <3> QED
      BY <3>1 DEF RawRun
  <2> HIDE DEF p, f
  <2>3. \A m \in Nodes : Unmet(p, m) = Unmet(f, m)
    BY <2>2 DEF Unmet
  <2>4. \A S : With(p, S) = With(f, S)
    BY <2>2 DEF With
  <2>5. Startable(p) = Startable(f)
    <3>1. With(f, {"pending"}) \subseteq Nodes
      BY DEF With
    <3> QED
      BY <2>3, <2>4, <3>1 DEF Startable
  <2>6. \A m \in With(f, {"running", "success", "failure"}) : m \in Nodes /\ Unmet(f, m) = {}
    BY <1>2 DEF With, Consistent, Coherent
  <2>7. \A m \in With(p, {"running", "success", "failure"}) : Unmet(p, m) = {}
    BY <2>3, <2>4, <2>6
  <2>8. /\ \A m \in Nodes : p.remaining[m] = Cardinality(Unmet(p, m))
        /\ p.inFlight = Cardinality(With(p, {"running"})) /\ p.inFlight <= Concurrency
        /\ Lists(p.ready, Startable(p))
    BY <1>2, <2>2, <2>3, <2>4, <2>5 DEF Consistent, Coherent
  <2>9. Consistent(p)
    BY <2>2, <2>7, <2>8 DEF Consistent, Coherent
  <2>10. Marked(p)
    <3>1. n \in With(p, {"failure"})
      BY <1>3, <1>4, <2>2 DEF With
    <3> QED
      BY <1>5, <2>2, <3>1 DEF Marked
  <2>11. \A m \in Nodes \ {n} : \/ p.status[m] = r.status[m]
                                \/ r.status[m] = "pending" /\ p.status[m] = "skipped"
    BY <1>4, <2>2
  <2>12. p.status[n] = "failure" /\ p.finishes = 0
    BY <1>2, <1>4, <2>2
  <2> QED
    BY <2>1, <2>9, <2>10, <2>11, <2>12, CallbackSettles
<1>6. CASE mode # "fail-fast"
  <2> DEFINE p == PoisonDescendants(f, n)
  <2>1. OnFailure(r, n) = TryStartMore(p)
    BY <1>6 DEF OnFailure
  <2>2. ~r.aborted /\ Poisoned(r)
    BY <1>1, <1>6 DEF Marked
  <2>3. /\ Consistent(p) /\ Poisoned(p)
        /\ p.aborted = f.aborted /\ p.finishes = f.finishes
        /\ \A m \in Nodes : \/ p.status[m] = f.status[m]
                            \/ f.status[m] = "pending" /\ p.status[m] = "skipped"
    BY <1>1, <2>2, PoisonSpreads
  <2> HIDE DEF p, f
  <2>4. Marked(p)
    BY <1>2, <1>6, <2>2, <2>3 DEF Marked
  <2>5. \A m \in Nodes \ {n} : \/ p.status[m] = r.status[m]
                               \/ r.status[m] = "pending" /\ p.status[m] = "skipped"
    BY <1>4, <2>3
  <2>6. p.status[n] = "failure"
    BY <1>3, <1>4, <2>3
  <2>7. p.finishes = 0
    BY <1>2, <2>3
  <2> QED
    BY <2>1, <2>3, <2>4, <2>5, <2>6, <2>7, CallbackSettles
<1> QED
  BY <1>5, <1>6

-----------------------------------------------------------------------------
(* The inductive invariant *)

Inv ==
  /\ needs \in Plans /\ mode \in Modes /\ phase \in {"called", "executing", "threw"}
  /\ phase # "executing" => run = Fresh
  /\ phase = "threw" => ~ValidPlan(needs)
  /\ phase = "executing" => ValidPlan(needs) /\ Settled(run)

LEMMA ValidIsSane ==
  ASSUME needs \in Plans, ValidPlan(needs)
  PROVE  Sane /\ ~HasUnknownNeed(needs) /\ ~IsCyclic(needs)
<1>1. needs \in [Nodes -> Seq(Nat)]
  BY PlansAssumption
<1>2. ~HasUnknownNeed(needs) /\ ~IsCyclic(needs)
  BY <1>1, ValidIffWellFormed
<1>3. ASSUME NEW n \in Nodes
      PROVE  needs[n] \in Seq(Nodes)
  <2>1. needs[n] \in Seq(Nat) /\ Needed(needs, n) \subseteq Nodes
    BY <1>1, <1>2 DEF HasUnknownNeed
  <2>2. \A i \in 1 .. Len(needs[n]) : needs[n][i] \in Nodes
    BY <2>1 DEF Needed
  <2> QED
    BY <2>1, <2>2
<1>4. Sane
  BY <1>1, <1>3 DEF Sane
<1> QED
  BY <1>2, <1>4

\* The run before the call, whatever the plan.
LEMMA FreshIsIdle ==
  ASSUME needs \in Plans
  PROVE  /\ Fresh \in Runs
         /\ Fresh.finishes = 0 /\ Fresh.inFlight = 0
         /\ \A S : "pending" \notin S => With(Fresh, S) = {}
         /\ \A n \in Nodes : Fresh.status[n] = "pending"
<1> DEFINE q == Fresh
<1>1. /\ q.status = [n \in Nodes |-> "pending"]
      /\ q.skippedDueTo = [n \in Nodes |-> None]
      /\ q.remaining = [n \in Nodes |-> Len(needs[n])]
      /\ q.ready = Roots(needs) /\ q.inFlight = 0 /\ q.aborted = FALSE
      /\ q.firstFailure = None /\ q.finishes = 0 /\ q.ok = FALSE
      /\ q = [status |-> q.status, skippedDueTo |-> q.skippedDueTo,
              remaining |-> q.remaining, ready |-> q.ready, inFlight |-> q.inFlight,
              aborted |-> q.aborted, firstFailure |-> q.firstFailure,
              finishes |-> q.finishes, ok |-> q.ok]
  BY DEF Fresh
<1> HIDE DEF q
<1>2. q.ready \in Seq(Nodes)
  BY <1>1, InOrderLists DEF Roots
<1>3. q.status \in [Nodes -> Statuses]
  <2>1. "pending" \in Statuses
    BY DEF Statuses
  <2> QED
    BY <1>1, <2>1
<1>4. q.remaining \in [Nodes -> Nat]
  <2>1. \A n \in Nodes : Len(needs[n]) \in Nat
    BY PlansAssumption
  <2> QED
    BY <1>1, <2>1
<1>5. q.skippedDueTo \in [Nodes -> Nodes \cup {None, Sentinel}]
  BY <1>1
<1>6. /\ q.inFlight \in 0 .. Concurrency /\ q.firstFailure \in Nodes \cup {None}
      /\ q.finishes \in Nat
  BY <1>1, ConcurrencyIsPositive
<1>7. q.aborted \in BOOLEAN /\ q.ok \in BOOLEAN
  BY <1>1
<1>8. q = [status |-> q.status, skippedDueTo |-> q.skippedDueTo,
           remaining |-> q.remaining, ready |-> q.ready, inFlight |-> q.inFlight,
           aborted |-> q.aborted, firstFailure |-> q.firstFailure,
           finishes |-> q.finishes, ok |-> q.ok]
  BY <1>1
<1>9. q \in Runs
  BY <1>2, <1>3, <1>4, <1>5, <1>6, <1>7, <1>8 DEF Runs
<1>10. \A n \in Nodes : q.status[n] = "pending"
  BY <1>1
<1>11. \A S : "pending" \notin S => With(q, S) = {}
  BY <1>10 DEF With
<1> QED
  BY <1>1, <1>9, <1>10, <1>11 DEF q

LEMMA InitInv == Init => Inv
BY DEF Init, Inv

\* Every action re-establishes the invariant and is allowed by the two action
\* properties.
LEMMA NextInv == Inv /\ [Next]_vars => Inv' /\ (StepAllowed(run, run') \/ phase # "executing")
<1> SUFFICES ASSUME Inv, [Next]_vars
             PROVE  Inv' /\ (StepAllowed(run, run') \/ phase # "executing")
  OBVIOUS
<1>1. CASE Execute
  <2>1. phase = "called" /\ run = Fresh /\ needs' = needs /\ mode' = mode /\ needs \in Plans
    BY <1>1 DEF Execute, Inv
  <2>2. CASE ValidPlan(needs)
    <3>1. phase' = "executing" /\ run' = TryStartMore(Fresh)
      BY <1>1, <2>1, <2>2 DEF Execute
    <3>2. Sane /\ ~IsCyclic(needs)
      BY <2>1, <2>2, ValidIsSane
    <3>3. Settled(TryStartMore(Fresh))
      BY <3>2, FreshConsistent, TryStartMoreSettles
    <3>4. Settled(run)'
      <4> DEFINE q == TryStartMore(Fresh)
      <4>1. Settled(q) /\ run' = q
        BY <3>1, <3>3
      <4> HIDE DEF q
      <4> QED
        BY <2>1, <4>1
           DEF Settled, Coherent, Marked, Poisoned, Startable, Unmet
    <3>5. ValidPlan(needs)'
      BY <2>1, <2>2
    <3> QED
      BY <2>1, <3>1, <3>4, <3>5 DEF Inv
  <2>3. CASE ~ValidPlan(needs)
    <3>1. phase' = "threw" /\ run' = run
      BY <1>1, <2>3 DEF Execute
    <3>2. Fresh' = Fresh
      BY <2>1 DEF Fresh
    <3> QED
      BY <2>1, <2>3, <3>1, <3>2 DEF Inv
  <2> QED
    BY <2>2, <2>3
<1>2. ASSUME NEW n \in Nodes, Succeed(n) \/ Fail(n)
      PROVE  Inv' /\ StepAllowed(run, run')
  <2>1. /\ phase = "executing" /\ run.status[n] = "running"
        /\ needs' = needs /\ mode' = mode /\ phase' = phase
        /\ run' = OnSuccess(run, n) \/ run' = OnFailure(run, n)
    BY <1>2 DEF Succeed, Fail
  <2>2. Settled(run) /\ ValidPlan(needs) /\ needs \in Plans
    BY <2>1 DEF Inv
  <2>3. Sane /\ ~IsCyclic(needs)
    BY <2>2, ValidIsSane
  <2>4. n \in With(run, {"running"})
    BY <2>1 DEF With
  <2>5. /\ Settled(OnSuccess(run, n)) /\ StepAllowed(run, OnSuccess(run, n))
        /\ Settled(OnFailure(run, n)) /\ StepAllowed(run, OnFailure(run, n))
    BY <2>2, <2>3, <2>4, OnSuccessSettles, OnFailureSettles
  <2>6. PICK q : run' = q /\ Settled(q) /\ StepAllowed(run, q)
    BY <2>1, <2>5
  <2>7. Settled(run)'
    BY <2>1, <2>6 DEF Settled, Coherent, Marked, Poisoned, Startable, Unmet
  <2>8. ValidPlan(needs)'
    BY <2>1, <2>2
  <2>9. Inv'
    BY <2>1, <2>7, <2>8 DEF Inv
  <2> QED
    BY <2>6, <2>9
<1>3. CASE UNCHANGED vars
  <2>1. needs' = needs /\ mode' = mode /\ phase' = phase /\ run' = run
    BY <1>3 DEF vars
  <2>2. Fresh' = Fresh /\ ValidPlan(needs)' = ValidPlan(needs)
    BY <2>1 DEF Fresh
  <2>3. Settled(run) => Settled(run)'
    BY <2>1 DEF Settled, Coherent, Marked, Poisoned, Startable, Unmet
  <2>4. StepAllowed(run, run')
    BY <2>1 DEF StepAllowed
  <2> QED
    BY <2>1, <2>2, <2>3, <2>4 DEF Inv
<1> QED
  BY <1>1, <1>2, <1>3 DEF Next, Execute

\* In every reachable state the runner's bookkeeping agrees with the statuses
\* (plan-runner.ts:106 ff.): the invariant that the theorems below are read from.
THEOREM RunnerInvariant == Spec => []Inv
<1>1. Inv /\ [Next]_vars => Inv'
  BY NextInv
<1> QED
  BY InitInv, <1>1, PTL DEF Spec

-----------------------------------------------------------------------------
(* What follows from it *)

\* The results and variables of executePlan() stay within their types, inFlight
\* within the concurrency.
THEOREM TypeCorrect == Spec => []TypeOK
<1>1. Inv => TypeOK
  <2> SUFFICES ASSUME Inv PROVE TypeOK
    OBVIOUS
  <2>1. CASE phase # "executing"
    BY <2>1, FreshIsIdle DEF Inv, TypeOK
  <2>2. CASE phase = "executing"
    <3>1. run \in RawRun /\ run.inFlight <= Concurrency
      BY <2>2 DEF Inv, Settled, Coherent
    <3>2. run.inFlight \in 0 .. Concurrency
      <4>1. run.inFlight \in Nat
        BY <3>1 DEF RawRun
      <4> QED
        BY <3>1, <4>1, ConcurrencyIsPositive
    <3>3. run \in Runs
      BY <3>1, <3>2 DEF RawRun, Runs
    <3> QED
      BY <3>3 DEF Inv, TypeOK
  <2> QED
    BY <2>1, <2>2
<1> QED
  BY RunnerInvariant, <1>1, PTL

\* executePlan() throws on the plans with an unknown need or a cycle and on no
\* others (validatePlan(), plan.ts:169).
THEOREM RejectsExactlyMalformed == Spec => []ThrowsIffMalformed
<1>1. Inv => ThrowsIffMalformed
  <2> SUFFICES ASSUME Inv PROVE ThrowsIffMalformed
    OBVIOUS
  <2>1. needs \in [Nodes -> Seq(Nat)]
    BY PlansAssumption DEF Inv
  <2>2. ValidPlan(needs) <=> ~HasUnknownNeed(needs) /\ ~IsCyclic(needs)
    BY <2>1, ValidIffWellFormed
  <2> QED
    BY <2>2 DEF Inv, ThrowsIffMalformed
<1> QED
  BY RunnerInvariant, <1>1, PTL

\* No node is dispatched before everything it needs has succeeded.
THEOREM NeedsAreMet == Spec => []NeedsSucceedFirst
<1>1. Inv => NeedsSucceedFirst
  <2> SUFFICES ASSUME Inv,
                      NEW n \in With(run, {"running", "success", "failure"}),
                      NEW d \in Needed(needs, n)
               PROVE  run.status[d] = "success"
    BY DEF NeedsSucceedFirst
  <2>1. phase = "executing"
    <3>1. CASE phase # "executing"
      <4>1. With(run, {"running", "success", "failure"}) = {}
        BY <3>1, FreshIsIdle DEF Inv
      <4> QED
        BY <4>1
    <3> QED
      BY <3>1
  <2>2. n \in Nodes /\ Unmet(run, n) = {}
    BY <2>1 DEF Inv, Settled, Coherent, With
  <2>3. Sane
    BY <2>1, ValidIsSane DEF Inv
  <2> QED
    BY <2>2, <2>3, UnmetIsNeeded
<1> QED
  BY RunnerInvariant, <1>1, PTL

\* The ready queue is at every moment the set of the nodes that could start.
THEOREM ReadyQueueExact == Spec => []ReadyIsExact
<1>1. Inv => ReadyIsExact
  <2> SUFFICES ASSUME Inv, phase = "executing", ~Done
               PROVE  /\ {run.ready[i] : i \in 1 .. Len(run.ready)} =
                           {n \in With(run, {"pending"}) :
                              \A d \in Needed(needs, n) : run.status[d] = "success"}
                      /\ \A i, j \in 1 .. Len(run.ready) :
                           run.ready[i] = run.ready[j] => i = j
    BY DEF ReadyIsExact
  <2>1. Sane
    BY ValidIsSane DEF Inv
  <2>2. run.finishes = 0
    BY DEF Inv, Settled, Done
  <2>3. Lists(run.ready, Startable(run))
    BY <2>2 DEF Inv, Settled
  <2>4. Startable(run) = {n \in With(run, {"pending"}) :
                            \A d \in Needed(needs, n) : run.status[d] = "success"}
    <3>1. \A n \in With(run, {"pending"}) : n \in Nodes
      BY DEF With
    <3>2. \A n \in Nodes : Unmet(run, n) = {} <=>
                             \A d \in Needed(needs, n) : run.status[d] = "success"
      BY <2>1, UnmetIsNeeded
    <3> QED
      BY <3>1, <3>2 DEF Startable
  <2> QED
    BY <2>3, <2>4 DEF Lists
<1> QED
  BY RunnerInvariant, <1>1, PTL

\* inFlight is the number of running nodes and respects the cap.
THEOREM InFlightCounts == Spec => []InFlightIsExact
<1>1. Inv => InFlightIsExact
  <2> SUFFICES ASSUME Inv PROVE InFlightIsExact
    OBVIOUS
  <2>1. CASE phase # "executing"
    <3>1. run.inFlight = 0 /\ With(run, {"running"}) = {}
      BY <2>1, FreshIsIdle DEF Inv
    <3>2. IsFiniteSet({})
      BY FS_EmptySet
    <3>3. Cardinality({}) = 0
      BY <3>2, FS_EmptySet
    <3>4. Cardinality(With(run, {"running"})) = 0
      BY <3>1, <3>3
    <3> QED
      BY <3>1, <3>4, ConcurrencyIsPositive DEF InFlightIsExact
  <2>2. CASE phase = "executing"
    BY <2>2 DEF Inv, Settled, Coherent, InFlightIsExact
  <2> QED
    BY <2>1, <2>2
<1> QED
  BY RunnerInvariant, <1>1, PTL

\* A free slot and a ready node never coexist in a plan that goes on.
THEOREM SlotsStayBusy == Spec => []NoIdleWorker
<1>1. Inv => NoIdleWorker
  <2> SUFFICES ASSUME Inv, phase = "executing", ~run.aborted, run.ready # << >>
               PROVE  run.inFlight = Concurrency
    BY DEF NoIdleWorker
  <2>1. ~CanStart(run) /\ run.inFlight <= Concurrency /\ run \in RawRun
    BY DEF Inv, Settled, Coherent
  <2>2. run.inFlight \in Nat
    BY <2>1 DEF RawRun
  <2> QED
    BY <2>1, <2>2, ConcurrencyIsPositive DEF CanStart
<1> QED
  BY RunnerInvariant, <1>1, PTL

\* keep-going: the skipped nodes are, at every moment, exactly the descendants of
\* the failed ones (poisonDescendants(), plan-runner.ts:195).
THEOREM PoisonReachesExactly == Spec => []PoisonIsExact
<1>1. Inv => PoisonIsExact
  <2> SUFFICES ASSUME Inv, mode = "keep-going"
               PROVE  Poisoned(run)
    BY DEF PoisonIsExact, Poisoned
  <2>1. CASE phase # "executing"
    <3>1. run = Fresh /\ \A n \in Nodes : run.status[n] = "pending"
      BY <2>1, FreshIsIdle DEF Inv
    <3> QED
      BY <3>1 DEF Poisoned, With
  <2>2. CASE phase = "executing"
    BY <2>2 DEF Inv, Settled, Marked
  <2> QED
    BY <2>1, <2>2
<1> QED
  BY RunnerInvariant, <1>1, PTL

\* plan-finish is emitted at most once, and when it is nothing runs or waits.
THEOREM PlanFinishesOnce == Spec => []FinishesOnce
<1>1. Inv => FinishesOnce
  <2> SUFFICES ASSUME Inv PROVE FinishesOnce
    OBVIOUS
  <2>1. CASE phase # "executing"
    <3>1. run.finishes = 0
      BY <2>1, FreshIsIdle DEF Inv
    <3> QED
      BY <3>1 DEF FinishesOnce, Done
  <2>2. CASE phase = "executing"
    BY <2>2 DEF Inv, Settled, FinishesOnce, Done
  <2> QED
    BY <2>1, <2>2
<1> QED
  BY RunnerInvariant, <1>1, PTL

\* The ok that finish() computes from the failures alone is true exactly if every
\* node succeeded.  It takes the absence of cycles: nodes skipped without a
\* failure could only have been skipped for one another.
THEOREM OkIsHonest == Spec => []OkMeansAllSucceeded
<1>1. Inv => OkMeansAllSucceeded
  <2> SUFFICES ASSUME Inv, Done
               PROVE  run.ok <=> With(run, {"success"}) = Nodes
    BY DEF OkMeansAllSucceeded
  <2>1. phase = "executing"
    <3>1. CASE phase # "executing"
      BY <3>1, FreshIsIdle DEF Inv, Done
    <3> QED
      BY <3>1
  <2>2. Settled(run) /\ Sane /\ ~IsCyclic(needs)
    BY <2>1, ValidIsSane DEF Inv
  <2>3. run.finishes = 1
    BY <2>2 DEF Settled, Done
  <2>4. /\ With(run, {"pending", "running"}) = {}
        /\ run.ok <=> With(run, {"failure"}) = {}
    BY <2>2, <2>3 DEF Settled
  <2>5. \A n \in Nodes : run.status[n] \in {"success", "failure", "skipped"}
    <3>1. run.status \in [Nodes -> Statuses]
      BY <2>2 DEF Settled, Coherent, RawRun
    <3>2. \A n \in Nodes : run.status[n] \notin {"pending", "running"}
      BY <2>4 DEF With
    <3> QED
      BY <3>1, <3>2 DEF Statuses
  <2>6. ASSUME With(run, {"failure"}) = {}
        PROVE  With(run, {"skipped"}) = {}
    <3> DEFINE S == With(run, {"skipped"})
    <3>1. Poisoned(run)
      BY <2>2, <2>6 DEF Settled, Marked
    <3>2. S \in SUBSET Nodes
      BY DEF With
    <3>3. ASSUME NEW n \in S
          PROVE  Needed(needs, n) \cap S # {}
      <4>1. PICK d \in Needed(needs, n) \cap Nodes : run.status[d] \in {"failure", "skipped"}
        BY <3>1 DEF Poisoned
      <4>2. run.status[d] # "failure"
        BY <2>6, <4>1 DEF With
      <4> QED
        BY <4>1, <4>2 DEF With
    <3> QED
      BY <2>2, <3>2, <3>3 DEF IsCyclic
  <2> QED
    BY <2>4, <2>5, <2>6 DEF With
<1> QED
  BY RunnerInvariant, <1>1, PTL

\* fail-fast: after a failure no further node is dispatched.
THEOREM AbortStartsNothing == Spec => NothingStartsAfterAbort
<1>1. Inv /\ Inv' /\ [Next]_vars =>
        [mode = "fail-fast" /\ With(run', {"failure"}) # {}
           => With(run', {"running"}) \subseteq With(run, {"running"})]_vars
  <2> SUFFICES ASSUME Inv, Inv', [Next]_vars, mode = "fail-fast",
                      With(run', {"failure"}) # {}
               PROVE  With(run', {"running"}) \subseteq With(run, {"running"})
    OBVIOUS
  <2>1. CASE StepAllowed(run, run')
    BY <2>1 DEF StepAllowed
  <2>2. CASE phase # "executing"
    <3>1. run = Fresh
      BY <2>2 DEF Inv
    <3>2. CASE UNCHANGED vars
      BY <3>2 DEF vars
    <3>3. CASE Next
      <4>1. Execute
        BY <2>2, <3>3 DEF Next, Succeed, Fail
      <4>2. CASE ~ValidPlan(needs)
        <5>1. run' = run
          BY <4>1, <4>2 DEF Execute
        <5> QED
          BY <5>1
      <4>3. CASE ValidPlan(needs)
        <5> DEFINE q == TryStartMore(Fresh)
        <5>1. run' = q
          BY <3>1, <4>1, <4>3 DEF Execute
        <5>2. Sane /\ ~IsCyclic(needs)
          BY <4>3, ValidIsSane DEF Inv
        <5>3. Onward(Fresh, q)
          BY <5>2, FreshConsistent, TryStartMoreSettles
        <5> HIDE DEF q
        <5>4. \A n \in Nodes : Fresh.status[n] = "pending"
          BY FreshIsIdle DEF Inv
        <5>5. \A n \in Nodes : q.status[n] # "failure"
          BY <5>3, <5>4 DEF Onward
        <5> QED
          BY <5>1, <5>5 DEF With
      <4> QED
        BY <4>2, <4>3
    <3> QED
      BY <3>2, <3>3
  <2> QED
    BY <2>1, <2>2, NextInv
<1> QED
  BY RunnerInvariant, <1>1, PTL DEF Spec, NothingStartsAfterAbort

\* A node that has succeeded, failed or been skipped stays so: in particular the
\* callbacks never settle a node twice, and poisoning never overwrites a result.
THEOREM SettledStays == Spec => SettledIsFinal
<1>1. Inv /\ [Next]_vars =>
        [\A n \in With(run, {"success", "failure", "skipped"}) :
           run'.status[n] = run.status[n]]_vars
  <2> SUFFICES ASSUME Inv, [Next]_vars,
                      NEW n \in With(run, {"success", "failure", "skipped"})
               PROVE  run'.status[n] = run.status[n]
    OBVIOUS
  <2>1. CASE StepAllowed(run, run')
    BY <2>1 DEF StepAllowed
  <2>2. CASE phase # "executing"
    <3>1. With(run, {"success", "failure", "skipped"}) = {}
      BY <2>2, FreshIsIdle DEF Inv
    <3> QED
      BY <3>1
  <2> QED
    BY <2>1, <2>2, NextInv
<1> QED
  BY RunnerInvariant, <1>1, PTL DEF Spec, SettledIsFinal


\* Until the plan has finished some node is running, so that a callback is still
\* to come: tryStartMore() never returns with nothing in flight and no finish.
THEOREM SomethingIsAwaited == Spec => []NeverStalls
<1>1. Inv => NeverStalls
  <2> SUFFICES ASSUME Inv, phase = "executing", ~Done
               PROVE  With(run, {"running"}) # {}
    BY DEF NeverStalls
  <2>1. Settled(run)
    BY DEF Inv
  <2>2. run.inFlight = Cardinality(With(run, {"running"})) /\ run.inFlight > 0
    BY <2>1 DEF Settled, Coherent, Done
  <2>3. IsFiniteSet({})
    BY FS_EmptySet
  <2>4. Cardinality({}) = 0
    BY <2>3, FS_EmptySet
  <2> QED
    BY <2>2, <2>4
<1> QED
  BY RunnerInvariant, <1>1, PTL

\* The books of a plan are exact at every moment: what was refused and what runs,
\* the ready queue, the counters, the slots in use and the verdict at the end.
THEOREM RunnerStaysExact == Spec => []RunnerIsExact
<1>1. TypeOK /\ ThrowsIffMalformed /\ NeedsSucceedFirst /\ ReadyIsExact /\ InFlightIsExact
      /\ NoIdleWorker /\ NeverStalls /\ FinishesOnce /\ OkMeansAllSucceeded
      => RunnerIsExact
  BY DEF RunnerIsExact
<1> QED
  BY <1>1, TypeCorrect, RejectsExactlyMalformed, NeedsAreMet, ReadyQueueExact,
     InFlightCounts, SlotsStayBusy, SomethingIsAwaited, PlanFinishesOnce, OkIsHonest, PTL

-----------------------------------------------------------------------------
(* The runner implements PlanSchedule *)

\* What a step of the runner must have done to be a step of the schedule: S are
\* the nodes that settled in it.
LEMMA MovesAreScheduled ==
  ASSUME Inv, Inv', phase' = "executing", ~Done, ValidPlan(needs),
         needs' = needs, mode' = mode, NEW S, S = {} \/ \E n : S = {n},
         \A m \in Nodes :
           \/ run'.status[m] = run.status[m]
           \/ run.status[m] = "pending" /\ run'.status[m] \in {"running", "skipped"}
           \/ m \in S /\ run.status[m] = "running" /\ run'.status[m] \in {"success", "failure"}
  PROVE  Schedule!Advance
<1>1. Sane
  BY ValidIsSane DEF Inv
<1>2. Settled(run')
  <2>1. Settled(run)'
    BY DEF Inv
  <2> QED
    BY <2>1 DEF Settled, Coherent, Marked, Poisoned, Startable, Unmet
<1> DEFINE r == run
           q == run'
           St == {"pending", "running", "success", "failure", "skipped"}
           Needs(n) == Needed(needs, n) \cap Nodes
<1>3. Coherent(q) /\ q.status \in [Nodes -> Statuses] /\ q.finishes \in {0, 1}
  BY <1>2 DEF Settled, Coherent, RawRun
<1>4. ASSUME NEW n \in Nodes, r.status[n] = "pending", q.status[n] = "running"
      PROVE  \A d \in Needs(n) : q.status[d] = "success"
  <2>1. n \in With(q, {"running", "success", "failure"})
    BY <1>4 DEF With
  <2>2. Unmet(q, n) = {}
    BY <1>3, <2>1 DEF Coherent
  <2> QED
    BY <1>1, <2>2, UnmetIsNeeded
<1>5. ASSUME NEW n \in Nodes, q.status[n] = "skipped"
      PROVE  \/ \E d \in Needs(n) : q.status[d] \in {"failure", "skipped"}
             \/ mode = "fail-fast" /\ With(q, {"failure"}) # {}
  <2>1. CASE q.aborted
    BY <1>2, <2>1 DEF Settled, Marked
  <2>2. CASE ~q.aborted
    <3>1. n \in With(q, {"skipped"}) /\ Poisoned(q)
      BY <1>2, <1>5, <2>2 DEF Settled, Marked, With
    <3> QED
      BY <3>1 DEF Poisoned
  <2> QED
    BY <2>1, <2>2
<1>6. ASSUME NEW n \in Nodes
      PROVE  Schedule!Move(n)
  <2>1. CASE q.status[n] = r.status[n]
    BY <2>1 DEF Schedule!Move
  <2>2. CASE r.status[n] = "pending" /\ q.status[n] = "running"
    <3>1. \A d \in Needs(n) : q.status[d] = "success"
      BY <1>4, <2>2
    <3> QED
      BY <2>2, <3>1 DEF Schedule!Move
  <2>3. CASE r.status[n] = "pending" /\ q.status[n] = "skipped"
    <3>1. \/ \E d \in Needs(n) : q.status[d] \in {"failure", "skipped"}
          \/ mode = "fail-fast" /\ With(q, {"failure"}) # {}
      BY <1>5, <2>3
    <3>2. Schedule!Blocked(n)
      BY <3>1 DEF Schedule!Blocked, Schedule!With, With
    <3> QED
      BY <2>3, <3>2 DEF Schedule!Move
  <2>4. CASE r.status[n] = "running" /\ q.status[n] \in {"success", "failure"}
    BY <2>4 DEF Schedule!Move
  <2> QED
    BY <2>1, <2>2, <2>3, <2>4
<1>7. Cardinality(Schedule!With({"running"}) \cap Schedule!With({"success", "failure"})') <= 1
  <2> DEFINE A == Schedule!With({"running"}) \cap Schedule!With({"success", "failure"})'
  <2>1. A \subseteq S
    BY DEF Schedule!With
  <2> HIDE DEF A
  <2>2. CASE A = {}
    <3>1. IsFiniteSet(A)
      BY <2>2, FS_EmptySet
    <3>2. Cardinality(A) = 0
      BY <2>2, <3>1, FS_EmptySet
    <3> QED
      BY <3>2 DEF A
  <2>3. CASE A # {}
    <3>1. PICK n : A = {n}
      BY <2>1, <2>3
    <3>2. Cardinality(A) = 1
      BY <3>1, FS_Singleton
    <3> QED
      BY <3>2 DEF A
  <2> QED
    BY <2>2, <2>3
<1>8. Cardinality(Schedule!With({"running"})') <= Concurrency
  <2>1. Schedule!With({"running"})' = With(q, {"running"})
    BY DEF Schedule!With, With
  <2> QED
    BY <1>3, <2>1 DEF Coherent
<1>9. Done' <=> Schedule!With({"pending", "running"})' = {}
  <2>1. Schedule!With({"pending", "running"})' = With(q, {"pending", "running"})
    BY DEF Schedule!With, With
  <2>2. CASE q.finishes = 1
    <3>1. Done' /\ With(q, {"pending", "running"}) = {}
      BY <1>2, <2>2 DEF Settled, Done
    <3> QED
      BY <2>1, <3>1
  <2>3. CASE q.finishes = 0
    <3>1. ~Done' /\ q.inFlight > 0 /\ q.inFlight = Cardinality(With(q, {"running"}))
      BY <1>2, <2>3 DEF Settled, Coherent, Done
    <3>2. IsFiniteSet({})
      BY FS_EmptySet
    <3>3. Cardinality({}) = 0
      BY <3>2, FS_EmptySet
    <3>4. With(q, {"running"}) # {}
      BY <3>1, <3>3
    <3>5. With(q, {"pending", "running"}) # {}
      BY <3>4 DEF With
    <3> QED
      BY <2>1, <3>1, <3>5
  <2> QED
    BY <1>3, <2>2, <2>3
<1>10. run'.status \in [Nodes -> St]
  BY <1>3 DEF Statuses
<1>11. /\ [n \in Nodes |-> Needs(n)]' = [n \in Nodes |-> Needs(n)]
       /\ (mode = "fail-fast")' = (mode = "fail-fast")
  BY DEF Needed
<1>12. \A A : Schedule!Cardinality(A) = Cardinality(A)
  BY DEF Schedule!Cardinality, Cardinality
<1>13. Done' = (Schedule!With({"pending", "running"})' = {})
  <2> DEFINE d == run.finishes > 0
             e == Schedule!With({"pending", "running"})' = {}
  <2>1. d' \in BOOLEAN /\ e \in BOOLEAN
    <3>1. run'.finishes \in Int
      BY <1>3
    <3> QED
      BY <3>1
  <2>2. d' <=> e
    BY <1>9 DEF Done
  <2>3. Done' = d'
    BY DEF Done
  <2> HIDE DEF d, e
  <2> QED
    BY <2>1, <2>2, <2>3, Zenon DEF e
<1>14. Schedule!Cardinality(Schedule!With({"running"}) \cap Schedule!With({"success", "failure"})') <= 1
  BY <1>7, <1>12
<1>15. Schedule!Cardinality(Schedule!With({"running"})') <= Concurrency
  BY <1>8, <1>12
<1> QED
  BY <1>6, <1>10, <1>11, <1>13, <1>14, <1>15 DEF Schedule!Advance

\* executePlan() keeps the promise of PlanSchedule: seen through the statuses and
\* the plan-finish event alone, each of its steps is one that promise allows.
THEOREM RunnerImplementsSchedule == Spec => ImplementsSchedule
<1>1. Init => Schedule!Init
  <2> SUFFICES ASSUME Init PROVE Schedule!Init
    OBVIOUS
  <2>1. run = Fresh /\ needs \in Plans
    BY DEF Init
  <2>2. run.status = [n \in Nodes |-> "pending"] /\ run.finishes = 0
    BY <2>1 DEF Fresh
  <2>3. [n \in Nodes |-> Needed(needs, n) \cap Nodes] \in [Nodes -> SUBSET Nodes]
    OBVIOUS
  <2>4. Done = FALSE
    BY <2>2 DEF Done
  <2> QED
    BY <2>2, <2>3, <2>4 DEF Schedule!Init
<1>2. Inv /\ Inv' /\ [Next]_vars => [Schedule!Advance]_(Schedule!vars)
  <2> SUFFICES ASSUME Inv, Inv', [Next]_vars
               PROVE  Schedule!Advance \/ UNCHANGED Schedule!vars
    OBVIOUS
  <2>1. CASE UNCHANGED vars
    BY <2>1 DEF vars, Schedule!vars, Done, Needed
  <2>2. CASE Execute
    <3>1. /\ phase = "called" /\ run = Fresh /\ needs \in Plans
          /\ needs' = needs /\ mode' = mode
      BY <2>2 DEF Execute, Inv
    <3>2. CASE ~ValidPlan(needs)
      <4>1. run' = run
        BY <2>2, <3>2 DEF Execute
      <4> QED
        BY <3>1, <4>1 DEF Schedule!vars, Done, Needed
    <3>3. CASE ValidPlan(needs)
      <4> DEFINE q == TryStartMore(Fresh)
      <4>1. phase' = "executing" /\ run' = q
        BY <2>2, <3>1, <3>3 DEF Execute
      <4>2. Sane /\ ~IsCyclic(needs)
        BY <3>1, <3>3, ValidIsSane
      <4>3. Onward(Fresh, q)
        BY <4>2, FreshConsistent, TryStartMoreSettles
      <4> HIDE DEF q
      <4>4. ~Done
        BY <3>1, FreshIsIdle DEF Done
      <4>5. \A m \in Nodes :
              \/ run'.status[m] = run.status[m]
              \/ run.status[m] = "pending" /\ run'.status[m] \in {"running", "skipped"}
        BY <3>1, <4>1, <4>3 DEF Onward
      <4> QED
        BY <3>1, <3>3, <4>1, <4>4, <4>5, MovesAreScheduled
    <3> QED
      BY <3>2, <3>3
  <2>3. ASSUME NEW n \in Nodes, Succeed(n) \/ Fail(n)
        PROVE  Schedule!Advance
    <3>1. /\ phase = "executing" /\ run.status[n] = "running"
          /\ needs' = needs /\ mode' = mode /\ phase' = phase
          /\ run' = OnSuccess(run, n) \/ run' = OnFailure(run, n)
      BY <2>3 DEF Succeed, Fail
    <3>2. Settled(run) /\ ValidPlan(needs) /\ needs \in Plans
      BY <3>1 DEF Inv
    <3>3. Sane /\ ~IsCyclic(needs)
      BY <3>2, ValidIsSane
    <3>4. n \in With(run, {"running"})
      BY <3>1 DEF With
    <3>5. Moved(run, OnSuccess(run, n), n) /\ Moved(run, OnFailure(run, n), n)
      BY <3>2, <3>3, <3>4, OnSuccessSettles, OnFailureSettles
    <3>6. Moved(run, run', n)
      BY <3>1, <3>5
    <3>7. ~Done
      <4>1. run.finishes = 0
        BY <3>2, <3>4, RunningIsConsistent
      <4> QED
        BY <4>1 DEF Done
    <3>8. \A m \in Nodes :
            \/ run'.status[m] = run.status[m]
            \/ run.status[m] = "pending" /\ run'.status[m] \in {"running", "skipped"}
            \/ m \in {n} /\ run.status[m] = "running" /\ run'.status[m] \in {"success", "failure"}
      BY <3>6 DEF Moved
    <3> QED
      BY <3>1, <3>2, <3>7, <3>8, MovesAreScheduled
  <2> QED
    BY <2>1, <2>2, <2>3 DEF Next
<1> QED
  BY RunnerInvariant, <1>1, <1>2, PTL DEF Spec, ImplementsSchedule, Schedule!Spec
=============================================================================
